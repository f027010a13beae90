---------------------------- MODULE MCOrderSystem ----------------------------
(***************************************************************************)
(* Values for model checking OrderSystem.  Handlers, requests and orders   *)
(* are interchangeable; the symmetry is used by the safety runs only.      *)
(***************************************************************************)
EXTENDS OrderSystemLifecycle, TLC

Symmetry ==
  Permutations(Orders) \cup Permutations(Handlers) \cup Permutations(Requests)
    \cup Permutations(CronJobs)

AllEdits == OrderStatuses \cup {"deleted", "cascaded"}
OnlyDeletes == {"deleted"}
OnlyReopenings == {"pending"}
NoEdits == {}

=============================================================================
