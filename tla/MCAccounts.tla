----------------------------- MODULE MCAccounts -----------------------------
(***************************************************************************)
(* Values for model checking Accounts: one seeded user, and an id for a    *)
(* user that is created.                                                   *)
(***************************************************************************)
EXTENDS Accounts, TLC

CONSTANTS i1, i2, e1, e2, k1, k2

MCSeeded == i1 :> [email |-> e1, password |-> k1]

=============================================================================
