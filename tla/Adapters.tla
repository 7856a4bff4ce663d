------------------------------ MODULE Adapters ------------------------------
(***************************************************************************)
(* What the adapters make of a provider's payload: one operator for each   *)
(* stream (linear_adapter.py, slack_adapter.py, google_drive_adapter.py,   *)
(* gmail_singer.py, connectors.py, context_snapshot.py, email_parser.py,   *)
(* document_extraction.py).                                                *)
(*                                                                         *)
(* A payload is a record of the fields the adapters look at, Nil or empty  *)
(* where the provider sends none.  References are the sequences of their   *)
(* parts, <<"linear", "issue", id>> for linear:issue:ID, and <<>> is the   *)
(* empty string; a text is the number of its words.                        *)
(***************************************************************************)
EXTENDS Null, Integers, SequencesExt

CONSTANT DescribedWords  \* the words an adapter writes for a file or message without text

Restricting == {"missing", "stale", "revoked"}

\* stream: where the payload comes from; id: its own id, or Nil; in: the issue,
\* channel, thread or company it belongs to; who, assignee: its persons;
\* to: the addresses of a mail; name: a person's name, mentions: the full names
\* in the text; emails: the addresses of a person or of a file's owners; team,
\* shared, grants: who may see it; marks: the flags that are set; life, perms:
\* what it says of its lifecycle and permission snapshot; words: its text, fallback:
\* a snippet of it; attachments: the texts of its attachments; headers, parts, data:
\* what a mail has instead, <<name, addresses>> of each header, <<kind, words>> of each
\* part and the words of its own body, Nil where the message is no such message.
Payload(stream, id) ==
    [stream |-> stream, id |-> id, in |-> Nil, who |-> Nil, assignee |-> Nil, to |-> {},
     name |-> Nil, mentions |-> {}, emails |-> {}, team |-> Nil, shared |-> Nil, grants |-> {},
     marks |-> {}, life |-> Nil, perms |-> Nil, words |-> 0, fallback |-> 0,
     attachments |-> <<>>, headers |-> Nil, parts |-> Nil, data |-> Nil]

MessageStreams == {"messages", "threads", "slack_messages"}
SlackStreams == MessageStreams \union {"channels", "users"}

\* The flags that the adapter of each stream looks at.
Flags ==
    [linear_users |-> {"inactive"}, linear_issues |-> {"archived", "canceled"},
     linear_comments |-> {"archived", "canceled"}, twenty_companies |-> {}, twenty_people |-> {},
     messages |-> {"deleted"}, threads |-> {"deleted"}, slack_messages |-> {"deleted"},
     users |-> {"deleted"}, channels |-> {"is_archived"}, google_drive_files |-> {"trashed"},
     gmail |-> {"trash", "deleted", "restricted"}, email_messages |-> {}, email_files |-> {},
     pdf |-> {}, snapshot_members |-> {}, snapshot_slack_users |-> {"deleted", "is_bot"},
     snapshot_users |-> {}, snapshot_teams |-> {}, snapshot_projects |-> {},
     snapshot_issues |-> {}, snapshot_comments |-> {}]

\* The streams whose adapters look at a lifecycle, a permission snapshot, permissions.
WithLifecycle == {"linear_issues", "linear_comments", "gmail", "email_messages"}
WithPermissionStatus == {"gmail", "email_messages"}
WithPermissions ==
    MessageStreams \union
    {"channels", "linear_issues", "linear_comments", "snapshot_issues", "snapshot_comments",
     "google_drive_files", "gmail", "email_messages", "pdf"}

\* A payload as its stream has it: what its adapter does not look at is not there.
IsPayload(p) ==
    /\ DOMAIN p = DOMAIN Payload(Nil, Nil)
    /\ p.stream \in DOMAIN Flags /\ p.marks \subseteq Flags[p.stream]
    /\ p.words \in Nat /\ p.fallback \in Nat /\ p.attachments \in Seq(Nat)
    /\ p.parts = Nil \/ p.parts \in Seq(STRING \X Nat)
    /\ p.data = Nil \/ p.data \in Nat
    /\ p.life = Nil \/ p.stream \in WithLifecycle
    /\ p.perms = Nil \/ p.stream \in WithPermissionStatus
    /\ p.shared = Nil \/ p.stream \in WithPermissions

Part(x) == IF x = Nil THEN <<>> ELSE <<x>>
Said(x, default) == IF x = Nil THEN default ELSE x
DeletedIf(b) == IF b THEN "deleted" ELSE "active"
Marked(p, flags) == p.marks \intersect flags # {}
Text(p) == p.words > 0

Identity(type, value) == [type |-> type, value |-> value]

\* A record with the fields every adapter fills alike.  may: the permission
\* refs; a record that has none is open to all. attached: the words of its attachments.
SourceRecord(p, system, type, ref) ==
    [ref |-> ref, system |-> system, id |-> <<p.id>>, type |-> type,
     author |-> <<>>, thread |-> <<>>, assignee |-> <<>>, user |-> <<>>,
     name |-> p.name, mentions |-> p.mentions, identities |-> {}, may |-> {},
     life |-> "active", perms |-> "current", words |-> p.words, attached |-> 0]

EmailIdentities(p) == {Identity("email", e) : e \in p.emails}

Person(p, system, ref) ==
    [SourceRecord(p, system, "person", ref) EXCEPT !.identities = EmailIdentities(p)]

Emails(x) == {i.value : i \in {j \in x.identities : j.type = "email"}}

-----------------------------------------------------------------------------
(* Linear *)

\* What the tap sends of a user, an issue and a comment: it asks for no other
\* flag than a user's.
UserSent(p) == [p EXCEPT !.marks = @ \intersect {"inactive"}, !.life = Nil, !.shared = Nil]
IssueSent(p) == [p EXCEPT !.marks = {}, !.life = Nil, !.shared = Nil]
CommentSent(p) == [p EXCEPT !.marks = {}, !.life = Nil, !.shared = Nil]

\* Mutant: a canceled issue stays active.
LinearLifecycleMutant(p) ==
    IF "archived" \in p.marks THEN "deleted" ELSE Said(p.life, "active")

LinearLifecycle(p) ==
    IF Marked(p, {"archived", "canceled"}) THEN "deleted" ELSE Said(p.life, "active")

\* A list of permissions that is given counts, even an empty one.
LinearPermissions(p) ==
    CASE p.shared # Nil -> p.shared
      [] p.shared = Nil /\ p.team # Nil -> {<<"linear", "team", p.team>>}
      [] OTHER -> {}

LinearUser(p) ==
    [Person(p, "linear", <<"linear", "user", p.id>>) EXCEPT
        !.life = DeletedIf("inactive" \in p.marks)]

LinearIssue(p) ==
    LET ref == <<"linear", "issue", p.id>> IN
    [SourceRecord(p, "linear", "work_item", ref) EXCEPT
        !.author = Part(p.who), !.assignee = Part(p.assignee), !.thread = ref,
        !.may = LinearPermissions(p), !.life = LinearLifecycle(p)]

LinearComment(p) ==
    [SourceRecord(p, "linear", "message", <<"linear", "comment", p.id>>) EXCEPT
        !.author = Part(p.who), !.user = Part(p.who), !.thread = <<"linear", "issue", p.in>>,
        !.may = LinearPermissions(p), !.life = LinearLifecycle(p)]

-----------------------------------------------------------------------------
(* Twenty: no lifecycle; what is gone is missing from the next snapshot *)

CompanySent(p) == [p EXCEPT !.marks = {}]

\* Of a person's addresses the tap sends the first.
PersonSent(p) ==
    [p EXCEPT !.marks = {},
              !.emails = IF @ = {} THEN {} ELSE {CHOOSE e \in p.emails : TRUE}]

TwentyCompany(p) == SourceRecord(p, "twenty", "organization", <<"twenty", "company", p.id>>)
TwentyPerson(p) == Person(p, "twenty", <<"twenty", "person", p.id>>)

-----------------------------------------------------------------------------
(* Slack: authors and threads have references that no record has *)

SlackId(p) == <<p.in, p.id>>

\* Here an empty list of permissions does not count.
Explicit(p) == IF p.shared = Nil THEN {} ELSE p.shared

SlackPermissions(p, channel) ==
    IF Explicit(p) # {} THEN Explicit(p) ELSE {<<"slack", "channel", channel>>}

SlackTeam(p) == IF p.team = Nil THEN {} ELSE {<<"slack", "team", p.team>>}

\* A message without text is described.
SlackText(p) == IF Text(p) THEN p.words ELSE DescribedWords

SlackAuthor(p) == IF p.who = Nil THEN {} ELSE {Identity("author", p.who)}
SlackUserIdentities(p) == {Identity("user", p.id)} \union EmailIdentities(p)

SlackMessage(p) ==
    [SourceRecord(p, "slack", "message", <<"slack", "message", p.in, p.id>>) EXCEPT
        !.id = SlackId(p),
        !.author = IF p.who = Nil THEN <<>> ELSE <<"slack", "user", p.who>>,
        !.thread = <<"slack", "thread", p.in, p.id>>,
        !.identities = SlackAuthor(p), !.may = SlackPermissions(p, p.in),
        !.words = SlackText(p), !.life = DeletedIf("deleted" \in p.marks)]

SlackUser(p) ==
    [Person(p, "slack", <<"slack", "user", p.id>>) EXCEPT
        !.identities = SlackUserIdentities(p), !.may = SlackTeam(p),
        !.life = DeletedIf("deleted" \in p.marks)]

SlackChannel(p) ==
    LET ref == <<"slack", "channel", p.id>> IN
    [SourceRecord(p, "slack", "work_item", ref) EXCEPT
        !.author = Part(p.who), !.thread = ref, !.may = SlackPermissions(p, p.id),
        !.life = DeletedIf("is_archived" \in p.marks)]

SlackRecord(p) ==
    CASE p.stream \in MessageStreams -> SlackMessage(p)
      [] p.stream = "users" -> SlackUser(p)
      [] p.stream = "channels" -> SlackChannel(p)

-----------------------------------------------------------------------------
(* Google Drive *)

\* The tap lists no file in the trash and sends no text.
FileSent(p) == [p EXCEPT !.marks = {}, !.words = 0, !.shared = Nil]

\* A grant [id, type, who]: by its id, or to an address or a domain, or to
\* anyone with the link; another one that has no id is dropped.
GrantRefs(g) ==
    CASE g.id # Nil -> {<<"google_drive", "permission", g.id>>}
      [] g.id = Nil /\ g.who # Nil -> {<<"google_drive", "permission", g.type, g.who>>}
      [] g.id = Nil /\ g.who = Nil /\ g.type = "anyone" ->
             {<<"google_drive", "permission", "anyone">>}
      [] OTHER -> {}

DrivePermissions(p) ==
    IF Explicit(p) # {} THEN Explicit(p) ELSE UNION {GrantRefs(g) : g \in p.grants}

\* A file without permissions is taken as the operator's own.
OperatorsOwn(refs) == IF refs = {} THEN {<<"operator">>} ELSE refs

\* A file without text is described by its metadata.
DriveText(p) == IF Text(p) THEN p.words ELSE DescribedWords

DriveOwners(p) == {Identity("owner", e) : e \in p.emails}

GoogleDriveFile(p) ==
    [SourceRecord(p, "google_drive", "document", <<"google_drive", "file", p.id>>) EXCEPT
        !.identities = DriveOwners(p), !.may = OperatorsOwn(DrivePermissions(p)),
        !.words = DriveText(p), !.life = DeletedIf("trashed" \in p.marks)]

-----------------------------------------------------------------------------
(* Mail and documents *)

Trash(p) == DeletedIf("trash" \in p.marks)

Sender(p) == IF p.who = Nil THEN {} ELSE {Identity("sender", p.who)}
MailIdentities(p) == Sender(p) \union {Identity("recipient", a) : a \in p.to}

\* The first text that there is.
FirstText(p) == IF Text(p) THEN p.words ELSE p.fallback

Total(counts) ==
    LET upTo[n \in 0..Len(counts)] == IF n = 0 THEN 0 ELSE upTo[n - 1] + counts[n]
    IN upTo[Len(counts)]

\* Attachments without text are left out: they have no words.
SourceAttachments(p) == Total(p.attachments)

\* Where a mail has parts of a kind, and how many words each part has of it.
PartsOfKind(p, kind) ==
    IF p.parts = Nil THEN {} ELSE {i \in DOMAIN p.parts : p.parts[i][1] = kind}

WordsOfKind(p, kind) ==
    IF p.parts = Nil THEN <<>>
    ELSE [i \in DOMAIN p.parts |-> IF i \in PartsOfKind(p, kind) THEN p.parts[i][2] ELSE 0]

\* A Gmail record with a payload that has headers, parts or a body is a message of
\* the API, and any other one is flat.
LooksLikeGmailMessage(p) == p.headers # Nil \/ p.parts # Nil \/ p.data # Nil

\* Of several headers with one name the first that says something.
Header(p, name) ==
    LET says(h) == h[1] = name /\ h[2] # <<>>
        found == IF p.headers = Nil THEN <<>> ELSE SelectSeq(p.headers, says)
    IN IF found = <<>> THEN <<>> ELSE found[1][2]

\* One identity for each address: who writes to themselves is the sender only.
GmailIdentities(p) ==
    LET sender == IF Header(p, "from") = <<>> THEN {} ELSE {Header(p, "from")[1]}
        recipients == UNION {ToSet(Header(p, name)) : name \in {"to", "cc", "bcc"}}
    IN {Identity("sender", a) : a \in sender}
       \union {Identity("recipient", a) : a \in recipients \ sender}

\* The first plain part that has text, or the body of the message itself.
PlainTextBody(p) ==
    LET plain == {i \in PartsOfKind(p, "plain") : p.parts[i][2] > 0} IN
    CASE plain # {} -> p.parts[Min(plain)][2]
      [] plain = {} /\ p.data # Nil -> p.data
      [] OTHER -> 0

GmailText(p) == IF PlainTextBody(p) > 0 THEN PlainTextBody(p) ELSE p.fallback

\* All plain parts of a mail, or all its HTML parts when those say nothing.
EmailBody(p) ==
    LET words(kind) == Total(WordsOfKind(p, kind))
    IN IF words("plain") > 0 THEN words("plain") ELSE words("html")

GmailLifecycle(p) ==
    CASE p.life # Nil -> p.life
      [] p.life = Nil /\ "deleted" \in p.marks -> "deleted"
      [] p.life = Nil /\ "deleted" \notin p.marks /\ "restricted" \in p.marks -> "restricted"
      [] OTHER -> Trash(p)

GmailPermissionStatus(p) == IF p.perms \in Restricting \union {"current"} THEN p.perms ELSE "missing"

\* A message as the Gmail API has it; of its files only the names are kept.
GmailMessage(p) ==
    [SourceRecord(p, "gmail", "email", <<"gmail", "message", p.id>>) EXCEPT
        !.thread = IF p.in = Nil THEN <<>> ELSE <<"gmail", "thread", p.in>>,
        !.identities = GmailIdentities(p), !.may = Explicit(p), !.words = GmailText(p),
        !.perms = GmailPermissionStatus(p), !.life = GmailLifecycle(p)]

GmailRecordLifecycle(p) == Said(p.life, Trash(p))

\* A flat record of a message: the flags deleted and restricted are not looked at.
GmailRecord(p) ==
    [SourceRecord(p, "gmail", "email", <<"gmail", "messages", p.id>>) EXCEPT
        !.thread = Part(p.in), !.perms = Said(p.perms, "missing"),
        !.identities = MailIdentities(p), !.may = Explicit(p), !.words = FirstText(p),
        !.life = GmailRecordLifecycle(p), !.attached = SourceAttachments(p)]

GmailSourceRecord(p) == IF LooksLikeGmailMessage(p) THEN GmailMessage(p) ELSE GmailRecord(p)

\* Any other stream; a state that is no lifecycle state is stored as it is.
SingerRecord(p) ==
    [SourceRecord(p, "singer", "email", <<"singer", p.stream, p.id>>) EXCEPT
        !.thread = Part(p.in), !.perms = Said(p.perms, "current"),
        !.identities = MailIdentities(p), !.may = Explicit(p),
        !.life = Said(p.life, "active"), !.attached = SourceAttachments(p)]

EmailFile(p) ==
    [SourceRecord(p, "local_email", "email", <<"local_email", p.id>>) EXCEPT
        !.author = IF p.who = Nil THEN <<>> ELSE <<"local_email", "email", p.who>>,
        !.identities = MailIdentities(p), !.words = EmailBody(p)]

\* The id of a document is the checksum of its content.
PdfDocument(p) ==
    [SourceRecord(p, "pdf", "document", <<"pdf", "document", p.id>>) EXCEPT !.may = Explicit(p)]

-----------------------------------------------------------------------------
(* A snapshot file: Linear's and Twenty's records without a lifecycle *)

SnapshotMember(p) == Person(p, "twenty", <<"twenty", "workspaceMember", p.id>>)

SnapshotSlackUser(p) ==
    [Person(p, "slack", <<"slack", "user", p.id>>) EXCEPT !.life = DeletedIf("deleted" \in p.marks)]

SnapshotUser(p) == Person(p, "linear", <<"linear", "user", p.id>>)
SnapshotTeam(p) == SourceRecord(p, "linear", "resource", <<"linear", "team", p.id>>)
SnapshotProject(p) == SourceRecord(p, "linear", "project", <<"linear", "project", p.id>>)
SnapshotIssue(p) == [LinearIssue(p) EXCEPT !.life = "active"]
SnapshotComment(p) == [LinearComment(p) EXCEPT !.life = "active"]

SnapshotRecord(p) ==
    CASE p.stream = "snapshot_members" -> SnapshotMember(p)
      [] p.stream = "snapshot_slack_users" -> SnapshotSlackUser(p)
      [] p.stream = "snapshot_users" -> SnapshotUser(p)
      [] p.stream = "snapshot_teams" -> SnapshotTeam(p)
      [] p.stream = "snapshot_projects" -> SnapshotProject(p)
      [] p.stream = "snapshot_issues" -> SnapshotIssue(p)
      [] p.stream = "snapshot_comments" -> SnapshotComment(p)

-----------------------------------------------------------------------------
(* Loading *)

\* A payload without its required fields raises, and its stream is not imported;
\* nor is a document without a text layer.
Complete(p) ==
    /\ p.id # Nil
    /\ p.stream = "linear_comments" => p.in # Nil /\ Text(p)
    /\ p.stream \in MessageStreams => p.in # Nil
    /\ p.stream = "gmail" => LooksLikeGmailMessage(p) \/ FirstText(p) > 0
    /\ p.stream \in {"email_messages", "pdf"} => Text(p)

\* What a file loader leaves out without a word, or with one in its report.
LeftOut(p) ==
    \/ p.stream = "email_files" /\ EmailBody(p) = 0
    \/ p.stream = "snapshot_slack_users" /\ "is_bot" \in p.marks

RecordOf(p) ==
    CASE p.stream = "linear_users" -> LinearUser(p)
      [] p.stream = "linear_issues" -> LinearIssue(p)
      [] p.stream = "linear_comments" -> LinearComment(p)
      [] p.stream = "twenty_companies" -> TwentyCompany(p)
      [] p.stream = "twenty_people" -> TwentyPerson(p)
      [] p.stream \in SlackStreams -> SlackRecord(p)
      [] p.stream = "google_drive_files" -> GoogleDriveFile(p)
      [] p.stream = "gmail" -> GmailSourceRecord(p)
      [] p.stream = "email_files" -> EmailFile(p)
      [] p.stream = "pdf" -> PdfDocument(p)
      [] p.stream = "email_messages" -> SingerRecord(p)
      [] OTHER -> SnapshotRecord(p)

\* What a tap sends of an item its provider lists.
Sent(p) ==
    CASE p.stream = "linear_users" -> UserSent(p)
      [] p.stream = "linear_issues" -> IssueSent(p)
      [] p.stream = "linear_comments" -> CommentSent(p)
      [] p.stream = "twenty_companies" -> CompanySent(p)
      [] p.stream = "twenty_people" -> PersonSent(p)
      [] p.stream = "google_drive_files" -> FileSent(p)
=============================================================================
