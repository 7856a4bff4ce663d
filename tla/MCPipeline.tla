----------------------------- MODULE MCPipeline -----------------------------
(***************************************************************************)
(* Small instances of Pipeline: c1 works, c2 is configured and cannot      *)
(* land.                                                                   *)
(***************************************************************************)
EXTENDS Pipeline

CONSTANTS c1, c2, hourly, other
=============================================================================
