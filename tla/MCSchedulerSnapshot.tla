-------------------------- MODULE MCSchedulerSnapshot --------------------------
(***************************************************************************)
(* SchedulerSnapshot for TLC: one account that two writers change, one     *)
(* outbox worker, one interval rebuild and one request.                    *)
(***************************************************************************)
EXTENDS SchedulerSnapshot

=============================================================================
