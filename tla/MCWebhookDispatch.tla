------------------------- MODULE MCWebhookDispatch -------------------------
(***************************************************************************)
(* Small instances of WebhookDispatch: e1 and e2 are two events of one     *)
(* source, e3 is e2 sent again under another event id.  good is a body     *)
(* that can be applied, broken is malformed, bare has no record.           *)
(***************************************************************************)
EXTENDS WebhookDispatch

CONSTANTS e1, e2, e3, k1, k2, good, broken, bare, s1, s2, w1, w2, src

Keys == [e \in Events |-> IF e = e1 THEN k1 ELSE k2]
OneSource == [body \in Payloads |-> src]
=============================================================================
