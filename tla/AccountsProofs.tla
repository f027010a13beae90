--------------------------- MODULE AccountsProofs ---------------------------
(***************************************************************************)
(* Safety of Accounts for any number of users, e-mails, passwords and      *)
(* concurrent requests.  One inductive invariant serves all the theorems:  *)
(* TypeOK says what a request holds at each step; AccountsInv adds that a  *)
(* request which is about to write has something to write.                 *)
(***************************************************************************)
EXTENDS Accounts, TLAPS

AccountsInv ==
  /\ TypeOK
  /\ request = [r \in Requests |-> request[r]]
  /\ \A r \in Requests :
       /\ request[r].pc = "inserting" => request[r].password \in Passwords
       /\ request[r].pc \in {"inserting", "checking", "updating"} =>
            request[r].email \in Emails
  /\ EmailsAreUnique
  /\ PasswordIsLastSet

\* What a request's slot may hold.
SlotOK(q) ==
  /\ q.pc \in RequestStates
  /\ q.email \in Emails \cup {Kept} /\ q.password \in Passwords \cup {Kept}
  /\ q.pc = "inserting" => q.password \in Passwords
  /\ q.pc \in {"inserting", "checking", "updating"} => q.email \in Emails
  /\ q.pc \in {"checking", "updating", "deleting", "verifying"} =>
       /\ q.seen \in [DOMAIN q.seen -> Rows]
       /\ \E i \in used : DOMAIN q.seen = {i}

-----------------------------------------------------------------------------
(* Lemmas about requests.                                                  *)

LEMMA SlotsAreOK ==
  ASSUME AccountsInv, NEW r \in Requests
  PROVE  SlotOK(request[r])
BY DEF AccountsInv, TypeOK, SlotOK

\* The row that a request loaded is the one it works on.
LEMMA TargetIsLoaded ==
  ASSUME AccountsInv, NEW r \in Requests,
         request[r].pc \in {"checking", "updating", "deleting", "verifying"}
  PROVE  /\ Target(r) \in used
         /\ DOMAIN request[r].seen = {Target(r)}
         /\ request[r].seen[Target(r)] \in Rows
<1>1. PICK i \in used : DOMAIN request[r].seen = {i}
  BY DEF AccountsInv, TypeOK
<1>2. Target(r) = i
  BY <1>1 DEF Target
<1> QED
  BY <1>1, <1>2 DEF AccountsInv, TypeOK

LEMMA LoadedRow ==
  ASSUME AccountsInv, NEW i \in Present
  PROVE  /\ i \in used
         /\ DOMAIN Loaded(i) = {i}
         /\ Loaded(i) \in [DOMAIN Loaded(i) -> Rows]
BY DEF AccountsInv, TypeOK, Loaded, Present

\* A step that rewrites one slot, hands out at most new ids and keeps the
\* tables as the invariant wants them keeps the invariant.
LEMMA SlotStep ==
  ASSUME AccountsInv, NEW r \in Requests, NEW q, SlotOK(q),
         request' = [request EXCEPT ![r] = q],
         used \subseteq used', used' \subseteq Ids,
         Present' \subseteq used', users' \in [Present' -> Rows],
         tokens' \subseteq used', lastSet' \in [used' -> Passwords],
         EmailsAreUnique', PasswordIsLastSet'
  PROVE  AccountsInv'
<1>1. request' = [s \in Requests |-> request'[s]]
  BY DEF AccountsInv
<1>2. ASSUME NEW s \in Requests
      PROVE  SlotOK(request[s]) /\ (request'[s] = request[s] \/ request'[s] = q)
  BY SlotsAreOK DEF AccountsInv
<1>3. ASSUME NEW s \in Requests
      PROVE  /\ request'[s].pc \in RequestStates
             /\ request'[s].email \in Emails \cup {Kept}
             /\ request'[s].password \in Passwords \cup {Kept}
             /\ request'[s].pc = "inserting" => request'[s].password \in Passwords
             /\ request'[s].pc \in {"inserting", "checking", "updating"} =>
                  request'[s].email \in Emails
             /\ request'[s].pc \in {"checking", "updating", "deleting", "verifying"} =>
                  /\ request'[s].seen \in [DOMAIN request'[s].seen -> Rows]
                  /\ \E i \in used' : DOMAIN request'[s].seen = {i}
  <2>1. CASE request'[s] = q
    BY <2>1 DEF SlotOK
  <2>2. CASE request'[s] = request[s]
    BY <1>2, <2>2 DEF SlotOK
  <2> QED
    BY <1>2, <2>1, <2>2
<1> QED
  BY <1>1, <1>3 DEF AccountsInv, TypeOK

\* A slot that is written while the tables stay as they are.
LEMMA GoStep ==
  ASSUME AccountsInv, NEW r \in Requests, NEW q, SlotOK(q),
         request' = [request EXCEPT ![r] = q],
         UNCHANGED <<users, used, lastSet>>,
         tokens' \subseteq used
  PROVE  AccountsInv'
<1>1. EmailsAreUnique' /\ PasswordIsLastSet'
  BY DEF AccountsInv, EmailsAreUnique, PasswordIsLastSet, Present
<1>2. /\ used \subseteq used' /\ used' \subseteq Ids
      /\ Present' \subseteq used' /\ users' \in [Present' -> Rows]
      /\ lastSet' \in [used' -> Passwords]
  BY DEF AccountsInv, TypeOK, Present
<1> QED
  BY <1>1, <1>2, SlotStep

LEMMA FreeIsOK == SlotOK(Free)
BY DEF SlotOK, Free, RequestStates

LEMMA RefuseKeepsInv ==
  ASSUME AccountsInv, NEW r \in Requests, Refuse(r)
  PROVE  AccountsInv'
<1>1. tokens' \subseteq used
  BY DEF Refuse, AccountsInv, TypeOK
<1> QED
  BY <1>1, FreeIsOK, GoStep DEF Refuse

-----------------------------------------------------------------------------
(* The initial states and each handler.                                    *)

LEMMA AccountsInvInit == Init => AccountsInv
<1> SUFFICES ASSUME Init PROVE AccountsInv
  OBVIOUS
<1>1. /\ Present \subseteq used /\ used \subseteq Ids
      /\ users \in [Present -> Rows]
      /\ tokens \subseteq used
      /\ lastSet \in [used -> Passwords]
  BY SeededAssumption DEF Init, Present, Rows
<1>2. ASSUME NEW r \in Requests
      PROVE  request[r] = Free
  BY DEF Init
<1>3. EmailsAreUnique /\ PasswordIsLastSet
  BY SeededAssumption DEF Init, EmailsAreUnique, PasswordIsLastSet, Present
<1> QED
  BY <1>1, <1>2, <1>3 DEF Init, AccountsInv, TypeOK, Free, RequestStates

LEMMA LoadsKeepInv ==
  ASSUME AccountsInv, NEW r \in Requests,
         CreateChecks(r) \/ UpdateLoads(r) \/ DeleteLoads(r) \/ LoginLoads(r)
  PROVE  AccountsInv'
<1> DEFINE Slot(pc, seen, e, p) ==
             [pc |-> pc, seen |-> seen, email |-> e, password |-> p]
<1>1. ASSUME NEW pc, NEW seen, NEW e, NEW p,
             Go(r, pc, seen, e, p), SlotOK(Slot(pc, seen, e, p))
      PROVE  AccountsInv'
  <2>1. tokens' \subseteq used
    BY <1>1 DEF Go, AccountsInv, TypeOK
  <2> HIDE DEF Slot
  <2>2. request' = [request EXCEPT ![r] = Slot(pc, seen, e, p)]
    BY <1>1 DEF Go, Slot
  <2> QED
    BY <1>1, <2>1, <2>2, GoStep DEF Go
<1>2. CASE CreateChecks(r)
  <2>1. PICK e \in Emails, p \in Passwords : Go(r, "inserting", <<>>, e, p)
    BY <1>2 DEF CreateChecks
  <2>2. SlotOK(Slot("inserting", <<>>, e, p))
    BY DEF SlotOK, RequestStates
  <2> QED
    BY <1>1, <2>1, <2>2
<1>3. CASE UpdateLoads(r)
  <2>1. PICK i \in Present, e \in Emails, p \in Passwords \cup {Kept} :
          Go(r, "checking", Loaded(i), e, p)
    BY <1>3 DEF UpdateLoads
  <2>2. SlotOK(Slot("checking", Loaded(i), e, p))
    BY LoadedRow DEF SlotOK, RequestStates
  <2> QED
    BY <1>1, <2>1, <2>2
<1>4. CASE DeleteLoads(r)
  <2>1. PICK i \in Present : Go(r, "deleting", Loaded(i), Kept, Kept)
    BY <1>4 DEF DeleteLoads
  <2>2. SlotOK(Slot("deleting", Loaded(i), Kept, Kept))
    BY LoadedRow DEF SlotOK, RequestStates
  <2> QED
    BY <1>1, <2>1, <2>2
<1>5. CASE LoginLoads(r)
  <2>1. PICK i \in Present, p \in Passwords :
          Go(r, "verifying", Loaded(i), Kept, p)
    BY <1>5 DEF LoginLoads
  <2>2. SlotOK(Slot("verifying", Loaded(i), Kept, p))
    BY LoadedRow DEF SlotOK, RequestStates
  <2> QED
    BY <1>1, <2>1, <2>2
<1> QED
  BY <1>2, <1>3, <1>4, <1>5

LEMMA CreateSavesKeepsInv ==
  ASSUME AccountsInv, NEW r \in Requests, CreateSaves(r)
  PROVE  AccountsInv'
<1>1. CASE Refuse(r)
  BY <1>1, RefuseKeepsInv
<1>2. CASE ~Refuse(r)
  <2> DEFINE new == [email |-> request[r].email, password |-> request[r].password]
  <2>1. PICK i \in Unused :
          /\ MayHave(i, request[r].email)
          /\ users' = [j \in Present \cup {i} |-> IF j = i THEN new ELSE users[j]]
          /\ used' = used \cup {i}
          /\ lastSet' = [j \in used \cup {i} |->
               IF j = i THEN request[r].password ELSE lastSet[j]]
          /\ request' = [request EXCEPT ![r] = Free]
          /\ tokens' = tokens
    BY <1>2 DEF CreateSaves, Answer
  <2>2. request[r].email \in Emails /\ request[r].password \in Passwords
    BY SlotsAreOK DEF SlotOK, CreateSaves
  <2>3. new \in Rows
    BY <2>2 DEF Rows
  <2>4. i \in Ids /\ i \notin used /\ i \notin Present
    BY DEF Unused, AccountsInv, TypeOK
  <2>5. /\ Present' = Present \cup {i} /\ users'[i] = new
        /\ \A j \in Present : users'[j] = users[j]
    BY <2>1, <2>4 DEF Present
  <2>6. EmailsAreUnique'
    BY <2>1, <2>4, <2>5 DEF EmailsAreUnique, MayHave, AccountsInv
  <2>7. PasswordIsLastSet'
    BY <2>1, <2>4, <2>5 DEF PasswordIsLastSet, AccountsInv, TypeOK
  <2>8. /\ used \subseteq used' /\ used' \subseteq Ids /\ Present' \subseteq used'
        /\ tokens' \subseteq used' /\ lastSet' \in [used' -> Passwords]
    BY <2>1, <2>2, <2>4, <2>5 DEF AccountsInv, TypeOK
  <2>9. users' \in [Present' -> Rows]
    BY <2>1, <2>3, <2>5 DEF AccountsInv, TypeOK
  <2> QED
    BY <2>1, <2>6, <2>7, <2>8, <2>9, FreeIsOK, SlotStep
<1> QED
  BY <1>1, <1>2

LEMMA UpdateKeepsInv ==
  ASSUME AccountsInv, NEW r \in Requests, UpdateChecks(r) \/ UpdateSaves(r)
  PROVE  AccountsInv'
<1>1. CASE Refuse(r)
  BY <1>1, RefuseKeepsInv
<1>2. CASE UpdateChecks(r) /\ ~Refuse(r)
  <2> DEFINE q == [pc |-> "updating", seen |-> request[r].seen,
                   email |-> request[r].email, password |-> request[r].password]
  <2>1. /\ request[r].pc = "checking"
        /\ request' = [request EXCEPT ![r] = q]
        /\ UNCHANGED <<users, used, tokens, lastSet>>
    BY <1>2 DEF UpdateChecks, Go
  <2>2. SlotOK(q)
    BY <2>1, SlotsAreOK DEF SlotOK, RequestStates
  <2>3. tokens' \subseteq used
    BY <2>1 DEF AccountsInv, TypeOK
  <2> HIDE DEF q
  <2> QED
    BY <2>1, <2>2, <2>3, GoStep
<1>3. CASE UpdateSaves(r) /\ ~Refuse(r)
  <2> DEFINE i == Target(r)
             p == request[r].password
             Row == Updated(users[i], request[r].seen[i], request[r].email, p)
  <2>1. /\ request[r].pc = "updating"
        /\ i \in Present /\ MayHave(i, Row.email)
        /\ users' = [users EXCEPT ![i] = Row]
        /\ lastSet' = [lastSet EXCEPT ![i] = IF p = Kept THEN @ ELSE p]
        /\ request' = [request EXCEPT ![r] = Free]
        /\ UNCHANGED <<used, tokens>>
    BY <1>3 DEF UpdateSaves, Answer
  <2>2. /\ request[r].email \in Emails /\ p \in Passwords \cup {Kept}
        /\ request[r].seen[i] \in Rows
    BY <2>1, SlotsAreOK, TargetIsLoaded DEF SlotOK
  <2>3. users[i] \in Rows
    BY <2>1 DEF AccountsInv, TypeOK
  <2>4. Row \in Rows /\ Row.password = IF p = Kept THEN users[i].password ELSE p
    BY <2>2, <2>3 DEF Updated, Rows
  <2> HIDE DEF Row, i, p
  <2>5. /\ Present' = Present /\ users'[i] = Row
        /\ \A j \in Present \ {i} : users'[j] = users[j]
    BY <2>1 DEF Present
  <2>6. EmailsAreUnique'
    BY <2>1, <2>5 DEF EmailsAreUnique, MayHave, AccountsInv
  <2>7. /\ lastSet'[i] = IF p = Kept THEN lastSet[i] ELSE p
        /\ \A j \in used \ {i} : lastSet'[j] = lastSet[j]
        /\ lastSet' \in [used -> Passwords]
    BY <2>1, <2>2 DEF AccountsInv, TypeOK
  <2>8. Present \subseteq used
    BY DEF AccountsInv, TypeOK
  <2>9. PasswordIsLastSet'
    BY <2>1, <2>4, <2>5, <2>7, <2>8 DEF PasswordIsLastSet, AccountsInv
  <2>10. users' \in [Present' -> Rows]
    BY <2>1, <2>4, <2>5 DEF AccountsInv, TypeOK
  <2> QED
    BY <2>1, <2>5, <2>6, <2>7, <2>8, <2>9, <2>10, FreeIsOK, SlotStep
       DEF AccountsInv, TypeOK
<1> QED
  BY <1>1, <1>2, <1>3

LEMMA DeleteSavesKeepsInv ==
  ASSUME AccountsInv, NEW r \in Requests, DeleteSaves(r)
  PROVE  AccountsInv'
<1>1. CASE Refuse(r)
  BY <1>1, RefuseKeepsInv
<1>2. CASE ~Refuse(r)
  <2>1. /\ users' = [j \in Present \ {Target(r)} |-> users[j]]
        /\ request' = [request EXCEPT ![r] = Free]
        /\ UNCHANGED <<used, tokens, lastSet>>
    BY <1>2 DEF DeleteSaves, Answer
  <2>2. Present' \subseteq Present /\ \A j \in Present' : users'[j] = users[j]
    BY <2>1 DEF Present
  <2>3. EmailsAreUnique'
    BY <2>2 DEF EmailsAreUnique, AccountsInv
  <2>4. PasswordIsLastSet'
    BY <2>1, <2>2 DEF PasswordIsLastSet, AccountsInv
  <2>5. users' \in [Present' -> Rows]
    BY <2>1, <2>2 DEF AccountsInv, TypeOK, Present
  <2> QED
    BY <2>1, <2>2, <2>3, <2>4, <2>5, FreeIsOK, SlotStep DEF AccountsInv, TypeOK
<1> QED
  BY <1>1, <1>2

\* A token is signed for an id that was handed out, although perhaps not for
\* a row that is still there.
LEMMA LoginVerifiesKeepsInv ==
  ASSUME AccountsInv, NEW r \in Requests, LoginVerifies(r)
  PROVE  AccountsInv'
<1>1. CASE Refuse(r)
  BY <1>1, RefuseKeepsInv
<1>2. CASE ~Refuse(r)
  <2>1. /\ tokens' = tokens \cup {Target(r)}
        /\ request' = [request EXCEPT ![r] = Free]
        /\ UNCHANGED <<users, used, lastSet>>
    BY <1>2 DEF LoginVerifies, Answer
  <2>2. Target(r) \in used
    BY TargetIsLoaded DEF LoginVerifies
  <2> QED
    BY <2>1, <2>2, FreeIsOK, GoStep DEF AccountsInv, TypeOK
<1> QED
  BY <1>1, <1>2

LEMMA AccountsInvNext == AccountsInv /\ [Next]_vars => AccountsInv'
<1> SUFFICES ASSUME AccountsInv, [Next]_vars PROVE AccountsInv'
  OBVIOUS
<1>1. ASSUME NEW i \in Ids, Expire(i)
      PROVE  AccountsInv'
  BY <1>1 DEF Expire, AccountsInv, TypeOK, EmailsAreUnique, PasswordIsLastSet,
              Present
<1>2. CASE UNCHANGED vars
  BY <1>2 DEF vars, AccountsInv, TypeOK, EmailsAreUnique, PasswordIsLastSet,
              Present
<1> QED
  BY <1>1, <1>2, LoadsKeepInv, CreateSavesKeepsInv, UpdateKeepsInv,
     DeleteSavesKeepsInv, LoginVerifiesKeepsInv DEF Next, Finish

-----------------------------------------------------------------------------
(* The theorems.                                                           *)

LEMMA AccountsInvHolds == Spec => []AccountsInv
<1> QED
  BY AccountsInvInit, AccountsInvNext, PTL DEF Spec

\* UsersController and AuthController keep the tables well formed, and a token
\* is only ever signed for an id that was handed out.
THEOREM AccountsTypes == Spec => []TypeOK
<1>1. AccountsInv => TypeOK
  BY DEF AccountsInv
<1> QED
  BY <1>1, AccountsInvHolds, PTL

\* No two users share an e-mail, although Create and Update check it one step
\* before they save: the unique index decides the race between any number of
\* requests.
THEOREM NoSharedEmail == Spec => []EmailsAreUnique
<1>1. AccountsInv => EmailsAreUnique
  BY DEF AccountsInv
<1> QED
  BY <1>1, AccountsInvHolds, PTL

\* No overlap of PUT requests brings back an older password: the save of a PUT
\* writes the hash only when the request carried a password.
THEOREM NoOldPassword == Spec => []PasswordIsLastSet
<1>1. AccountsInv => PasswordIsLastSet
  BY DEF AccountsInv
<1> QED
  BY <1>1, AccountsInvHolds, PTL

=============================================================================
