------------------------------ MODULE Accounts ------------------------------
(***************************************************************************)
(* The users of the system: UsersController, AuthController and the tokens *)
(* that JwtTokenService signs.  A request reads the users, decides, and    *)
(* saves in a later step; nothing but the unique index on the e-mail and   *)
(* the row that a save expects to find connects the two.                   *)
(*                                                                         *)
(*   UsersController.Create   inserting -> 201, or 400                     *)
(*   UsersController.Update   checking -> updating -> 200, 400 or 404      *)
(*   UsersController.Delete   deleting -> 204, or 404                      *)
(*   AuthController.Login     verifying -> 200, or 401                     *)
(*                                                                         *)
(* Names are left out.  Only the users' controllers are requests here: the *)
(* others, too, accept every token whose time has not run out.             *)
(***************************************************************************)
EXTENDS FiniteSets, FiniteSetsExt

CONSTANTS Ids,          \* the ids that the database hands out, one per row
          Emails,
          Passwords,
          Kept,         \* what a PUT without a password has in its place
          Requests,     \* the requests that may run at a time
          Seeded        \* the rows of the seeded users

ASSUME KeptAssumption == Kept \notin Passwords
ASSUME SeededAssumption ==
  /\ DOMAIN Seeded \subseteq Ids
  /\ Seeded \in [DOMAIN Seeded -> [email : Emails, password : Passwords]]
  /\ \A i, j \in DOMAIN Seeded : i # j => Seeded[i].email # Seeded[j].email

VARIABLES users,      \* the rows of the users table, by id
          used,       \* the ids that were handed out
          tokens,     \* the ids in the signed tokens whose time has not run out
          request,    \* the state of each request
          lastSet     \* history: the password that was last accepted for an id

vars == <<users, used, tokens, request, lastSet>>

Rows == [email : Emails, password : Passwords]

\* seen: the rows that the request's DbContext has loaded.
Free == [pc |-> "free", seen |-> <<>>, email |-> Kept, password |-> Kept]

Present == DOMAIN users

Taken(e) == \E i \in Present : users[i].email = e

Init ==
  /\ users = Seeded
  /\ used = DOMAIN Seeded
  /\ tokens = {}
  /\ request = [r \in Requests |-> Free]
  /\ lastSet = [i \in DOMAIN Seeded |-> Seeded[i].password]

-----------------------------------------------------------------------------
(* Steps that requests share.                                              *)

\* [Authorize]: a token that is signed and has not expired will do.  Nothing
\* asks whether its user is still there.
Authorized == tokens # {}

Go(r, pc, seen, e, p) ==
  /\ request' = [request EXCEPT ![r] = [pc |-> pc, seen |-> seen, email |-> e, password |-> p]]
  /\ UNCHANGED <<users, used, tokens, lastSet>>

\* An answer of 400, 401, 404 or 500.
Refuse(r) ==
  /\ request' = [request EXCEPT ![r] = Free]
  /\ UNCHANGED <<users, used, tokens, lastSet>>

Answer(r) == request' = [request EXCEPT ![r] = Free]

Loaded(i) == [j \in {i} |-> users[j]]

\* The row with the id of a route, in a request that loaded one.
Target(r) == CHOOSE i \in DOMAIN request[r].seen : TRUE

-----------------------------------------------------------------------------
(* UsersController.                                                        *)

\* Whether the e-mail exists already.  If so the answer is 400.
CreateChecks(r) ==
  /\ request[r].pc = "free" /\ Authorized
  /\ \E e \in Emails, p \in Passwords :
       ~Taken(e) /\ Go(r, "inserting", <<>>, e, p)

\* Mutant of MayHave: the index on the e-mail is not unique.
MayHaveAny(i, e) == TRUE

\* The unique index lets the row of id i have e-mail e.
MayHave(i, e) == \A j \in Present \ {i} : users[j].email # e

\* Mutant of Unused: the id of a deleted row is handed out again.
Vacant == Ids \ Present

Unused == Ids \ used

CreateSaves(r) ==
  /\ request[r].pc = "inserting"
  /\ \/ \E i \in Unused :
          /\ MayHave(i, request[r].email)
          /\ users' = [j \in Present \cup {i} |->
               IF j = i THEN [email |-> request[r].email, password |-> request[r].password]
                        ELSE users[j]]
          /\ used' = used \cup {i}
          /\ lastSet' = [j \in used \cup {i} |->
               IF j = i THEN request[r].password ELSE lastSet[j]]
          /\ Answer(r)
          /\ UNCHANGED tokens
     \/ Taken(request[r].email) /\ Refuse(r)

\* FindAsync(id).  If there is no such user the answer is 404.
UpdateLoads(r) ==
  /\ request[r].pc = "free" /\ Authorized
  /\ \E i \in Present, e \in Emails, p \in Passwords \cup {Kept} :
       Go(r, "checking", Loaded(i), e, p)

\* Another e-mail than the row had must not exist.
UpdateChecks(r) ==
  LET new == request[r].email IN
  /\ request[r].pc = "checking"
  /\ IF new # request[r].seen[Target(r)].email /\ Taken(new)
       THEN Refuse(r)
       ELSE Go(r, "updating", request[r].seen, new, request[r].password)

\* Mutant of Updated: the save writes every column of the row it loaded.
Overwritten(old, seen, e, p) ==
  [email |-> e, password |-> IF p = Kept THEN seen.password ELSE p]

\* Mutant of Updated: a password is hashed even if none was given.
HashedAnyway(old, seen, e, p) ==
  [email |-> IF e = seen.email THEN old.email ELSE e, password |-> p]

\* The save writes the columns that differ from what was loaded.  A password
\* that is given always differs: its hash has a new salt.
Updated(old, seen, e, p) ==
  [email |-> IF e = seen.email THEN old.email ELSE e,
   password |-> IF p = Kept THEN old.password ELSE p]

UpdateSaves(r) ==
  LET i == Target(r)
      p == request[r].password
      Row == Updated(users[i], request[r].seen[i], request[r].email, p)
  IN
  /\ request[r].pc = "updating"
  /\ IF i \in Present /\ MayHave(i, Row.email)
       THEN /\ users' = [users EXCEPT ![i] = Row]
            /\ lastSet' = [lastSet EXCEPT ![i] = IF p = Kept THEN @ ELSE p]
            /\ Answer(r)
            /\ UNCHANGED <<used, tokens>>
       ELSE Refuse(r)

DeleteLoads(r) ==
  /\ request[r].pc = "free" /\ Authorized
  /\ \E i \in Present : Go(r, "deleting", Loaded(i), Kept, Kept)

\* A row that is gone by now is a conflict.
DeleteSaves(r) ==
  LET i == Target(r) IN
  /\ request[r].pc = "deleting"
  /\ IF i \in Present
       THEN /\ users' = [j \in Present \ {i} |-> users[j]]
            /\ Answer(r)
            /\ UNCHANGED <<used, tokens, lastSet>>
       ELSE Refuse(r)

-----------------------------------------------------------------------------
(* AuthController and the tokens.                                          *)

\* If there is no user with the e-mail the answer is 401.
LoginLoads(r) ==
  /\ request[r].pc = "free"
  /\ \E i \in Present, p \in Passwords : Go(r, "verifying", Loaded(i), Kept, p)

\* The password is verified against the row as it was loaded.
LoginVerifies(r) ==
  LET i == Target(r) IN
  /\ request[r].pc = "verifying"
  /\ IF request[r].password = request[r].seen[i].password
       THEN /\ tokens' = tokens \cup {i}
            /\ Answer(r)
            /\ UNCHANGED <<users, used, lastSet>>
       ELSE Refuse(r)

\* The time in the last token of a user has run out.
Expire(i) ==
  /\ i \in tokens
  /\ tokens' = tokens \ {i}
  /\ UNCHANGED <<users, used, request, lastSet>>

Finish(r) ==
  \/ CreateSaves(r)
  \/ UpdateChecks(r) \/ UpdateSaves(r)
  \/ DeleteSaves(r)
  \/ LoginVerifies(r)

Next ==
  \/ \E r \in Requests :
       CreateChecks(r) \/ UpdateLoads(r) \/ DeleteLoads(r) \/ LoginLoads(r) \/ Finish(r)
  \/ \E i \in Ids : Expire(i)

Spec == Init /\ [][Next]_vars

\* A request that was begun is answered, and time passes.
FairSpec ==
  /\ Spec
  /\ \A r \in Requests : WF_vars(Finish(r))
  /\ \A i \in Ids : WF_vars(Expire(i))

-----------------------------------------------------------------------------
(* Properties.                                                             *)

RequestStates ==
  {"free", "inserting", "checking", "updating", "deleting", "verifying"}

TypeOK ==
  /\ Present \subseteq used /\ used \subseteq Ids
  /\ users \in [Present -> Rows]
  /\ tokens \subseteq used
  /\ lastSet \in [used -> Passwords]
  /\ \A r \in Requests :
       LET q == request[r] IN
       /\ q.pc \in RequestStates
       /\ q.email \in Emails \cup {Kept} /\ q.password \in Passwords \cup {Kept}
       /\ q.pc \in {"checking", "updating", "deleting", "verifying"} =>
            /\ q.seen \in [DOMAIN q.seen -> Rows]
            /\ \E i \in used : DOMAIN q.seen = {i}

\* No two users have the same e-mail, although two requests may both have
\* found it free: a login could not tell them apart.
EmailsAreUnique ==
  \A i, j \in Present : i # j => users[i].email # users[j].email

\* The password of a user is the one that was last accepted for it.  A PUT
\* without a password does not bring an older one back, whatever it loaded
\* and however long it took.
PasswordIsLastSet == \A i \in Present : users[i].password = lastSet[i]

\* The tokens of a deleted user let nobody in for good: they run out, a login
\* that was under way brings at most one more, and no later user has the id.
AccessEnds == \A i \in Ids : (i \in used \ Present) ~> [](i \notin tokens)

=============================================================================
