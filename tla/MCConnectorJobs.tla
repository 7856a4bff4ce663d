--------------------------- MODULE MCConnectorJobs ---------------------------
(***************************************************************************)
(* Small instances of ConnectorJobs, with the operator's reports: the      *)
(* connectors and who runs them.                                           *)
(***************************************************************************)
EXTENDS Dashboard

CONSTANTS importer, retrier, live, recorder, pilot, operator

\* The Gmail import with its two timers, a live connector that is backfilled and
\* materialized by Dagster, the pilot alone and with an operator's own call.
EveryConnector == {{importer, retrier}, {live, recorder}, {pilot}, {pilot, operator}}
=============================================================================
