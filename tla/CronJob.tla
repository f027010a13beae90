------------------------------ MODULE CronJob ------------------------------
(***************************************************************************)
(* The CronJob service: OrderExpiryService sweeps the orders that are      *)
(* still pending or processing after the expiry threshold.  A sweep reads  *)
(* them in one query, sets them all to expired in one transaction and then *)
(* publishes an event for each, so the rows may change under it between    *)
(* the query and the save.                                                 *)
(***************************************************************************)
EXTENDS EventBus

CONSTANT CronJobs        \* the running instances (docker-compose starts one)

VARIABLES sweep,         \* the state of each instance
          expiries       \* history: committed expiries of an order

cronVars == <<sweep, expiries>>

Waiting == [pc |-> "waiting", batch |-> {}]

SweepStates ==
  [pc : {"waiting", "saving", "publishing"}, batch : SUBSET Orders]

CronTypeOK ==
  /\ sweep \in [CronJobs -> SweepStates]
  /\ expiries \in [Orders -> Nat]

CronInit ==
  /\ sweep = [c \in CronJobs |-> Waiting]
  /\ expiries = [o \in Orders |-> 0]

Sweeping(c) == sweep[c].pc # "waiting"

\* Mutants of Overdue: a status too many, and one too few.
OverdueOrExpired == {o \in stale : status[o] \in {"pending", "processing", "expired"}}
OverduePending == {o \in stale : status[o] = "pending"}
OverdueProcessing == {o \in stale : status[o] = "processing"}

\* The orders that the query of a sweep returns.
Overdue == {o \in stale : status[o] \in {"pending", "processing"}}

-----------------------------------------------------------------------------

\* The timer ticks and the query finds orders; an empty result ends the sweep.
FindOverdue(c) ==
  /\ ~Sweeping(c)
  /\ Overdue # {}
  /\ sweep' = [sweep EXCEPT ![c] = [pc |-> "saving", batch |-> Overdue]]
  /\ UNCHANGED <<tableVars, busVars, expiries>>

ExpireOrders(c) ==
  LET batch == sweep[c].batch IN
  /\ sweep[c].pc = "saving"
  /\ UpdateOrders(batch, "expired")
  /\ sweep' = [sweep EXCEPT ![c].pc = "publishing"]
  /\ expiries' = [o \in Orders |-> IF o \in batch THEN expiries[o] + 1
                                                  ELSE expiries[o]]
  /\ UNCHANGED busVars

\* Mutant of ExpireConflicts: the failed save does not keep the sweep from
\* announcing its batch.
AnnounceUnsaved(c) ==
  /\ sweep[c].pc = "saving"
  /\ \E o \in sweep[c].batch : ~Exists(o)
  /\ sweep' = [sweep EXCEPT ![c].pc = "publishing"]
  /\ UNCHANGED <<tableVars, busVars, expiries>>

\* One order of the batch was deleted since the query: nothing is saved, the
\* exception is logged and the next tick starts over.
ExpireConflicts(c) ==
  /\ sweep[c].pc = "saving"
  /\ \E o \in sweep[c].batch : ~Exists(o)
  /\ sweep' = [sweep EXCEPT ![c] = Waiting]
  /\ UNCHANGED <<tableVars, busVars, expiries>>

\* Mutant of Without: the sweep ends with the first order it announced.
FirstOnly(c, o) == Waiting

\* The sweep without o, over when o was the last order it had to announce.
Without(c, o) ==
  LET rest == sweep[c].batch \ {o} IN
  IF rest = {} THEN Waiting ELSE [pc |-> "publishing", batch |-> rest]

AnnounceExpired(c, o) ==
  /\ sweep[c].pc = "publishing" /\ o \in sweep[c].batch
  /\ Publish(OrderExpiredEvent(o))
  /\ sweep' = [sweep EXCEPT ![c] = Without(c, o)]
  /\ UNCHANGED <<tableVars, expiries>>

\* The database or the broker throws, or the process stops and is restarted:
\* what is left of the sweep is forgotten.
SweepAborts(c) ==
  /\ Sweeping(c)
  /\ \/ UNCHANGED busVars
     \/ /\ sweep[c].pc = "publishing"
        /\ \E o \in sweep[c].batch : Publish(OrderExpiredEvent(o))
  /\ sweep' = [sweep EXCEPT ![c] = Waiting]
  /\ UNCHANGED <<tableVars, expiries>>

-----------------------------------------------------------------------------

SweepStep(c) ==
  \/ FindOverdue(c)
  \/ ExpireOrders(c)
  \/ ExpireConflicts(c)
  \/ \E o \in Orders : AnnounceExpired(c, o)

=============================================================================
