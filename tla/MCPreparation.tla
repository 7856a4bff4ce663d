---------------------------- MODULE MCPreparation ----------------------------
(***************************************************************************)
(* A small instance of Preparation: a person whom three providers know, an *)
(* issue and a comment that name them, messages, mails, files and records  *)
(* of other streams, in the states their providers may send them in.       *)
(***************************************************************************)
EXTENDS Preparation

Ann == "Ann Lee"

User == [Payload("linear_users", "u1") EXCEPT !.name = Ann, !.emails = {"ann"}, !.words = 3]
Issue == [Payload("linear_issues", "k1") EXCEPT
             !.who = "u1", !.assignee = "u1", !.mentions = {Ann}, !.team = "T", !.words = 7]
Comment == [Payload("linear_comments", "m1") EXCEPT !.in = "k1", !.who = "u1", !.words = 4]
Person1 == [Payload("twenty_people", "t1") EXCEPT !.name = Ann, !.emails = {"ann"}, !.words = 2]
Slack1 == [Payload("messages", "ts1") EXCEPT !.in = "c1", !.who = "s1", !.words = 1]
Mail == [Payload("gmail", "g1") EXCEPT
            !.headers = <<<<"from", <<"ann">>>>, <<"to", <<"ann", "bob">>>>>>, !.perms = "current",
            !.parts = <<<<"plain", 0>>, <<"file", 9>>, <<"plain", 5>>>>, !.fallback = 1]
Flat == [Payload("gmail", "g1") EXCEPT !.perms = "current", !.words = 5, !.attachments = <<3, 0>>]
File == Payload("google_drive_files", "f1")
Anyone == [id |-> Nil, type |-> "anyone", who |-> Nil]

MCPayloads == {
    User,
    Issue, [Issue EXCEPT !.marks = {"canceled"}], [Issue EXCEPT !.assignee = Nil, !.mentions = {}, !.shared = {}],
    Comment, [Comment EXCEPT !.words = 0],
    Person1, [Person1 EXCEPT !.emails = {"bob"}],
    [Payload("users", "s1") EXCEPT !.name = Ann, !.emails = {"ann"}, !.marks = {"deleted"}],
    Slack1, [Slack1 EXCEPT !.in = "c2", !.words = 0],
    [Mail EXCEPT !.perms = Nil], [Mail EXCEPT !.marks = {"trash"}], Flat,
    [File EXCEPT !.marks = {"trashed"}, !.words = 9], [File EXCEPT !.grants = {Anyone}],
    [Payload("email_messages", "x1") EXCEPT !.words = 4, !.attachments = <<2, 0, 3>>],
    [Payload("email_files", "e1") EXCEPT !.who = "ann", !.parts = <<<<"html", 5>>, <<"html", 3>>>>],
    Payload("email_files", "e2"),
    [Payload("snapshot_issues", "k1") EXCEPT !.who = "u1", !.words = 6],
    [Payload("snapshot_projects", "j1") EXCEPT !.words = 2], Payload("snapshot_projects", "j1"),
    [Payload("snapshot_slack_users", "s2") EXCEPT !.emails = {"ann"}, !.marks = {"is_bot"}] }
==============================================================================
