--------------------------- MODULE AccountsProofs ---------------------------
(* Proofs about Accounts: for any set of users, requests and session ids.  *)
EXTENDS Accounts, FiniteSetTheorems, TLAPS

\* Which locks a request can hold at which point of its handler.
LockPhase ==
  \A r \in Requests :
    /\ xlock[r] # {} => req[r].pc \in {"delEvict", "delCommit", "respond", "closing"}
    /\ slock[r] # {} => req[r].pc = "commit"
    /\ req[r].pc = "commit" => slock[r] = {req[r].target} /\ req[r].target \in accounts

\* A delete that ran the count guard keeps another active admin locked.
DeleteSparesOne ==
  \A r \in Requests :
    req[r].pc \in {"delEvict", "delCommit"} /\ xlock[r] # {} =>
      xlock[r] \ {req[r].target} # {}

\* What a request past its checks is known to carry.
RequestKnows ==
  \A r \in Requests :
    /\ req[r].pc \in {"replace", "insert", "commit"} =>
         req[r].sid \in Sids /\ req[r].target \in Users
    /\ req[r].pc \in {"delEvict", "delCommit"} =>
         req[r].target \in Users /\ req[r].target # req[r].actor
    /\ req[r].pc = "evict" => req[r].target \in Users

-----------------------------------------------------------------------------
\* When the count guard passes, the active admins do not reduce to any one row.
LEMMA GuardLeavesOne ==
  ASSUME TypeOK, ~LastAdmin, NEW u
  PROVE  ActiveAdmins \ {u} # {}
<1>1. IsFiniteSet(ActiveAdmins)
  BY FS_Subset, AccountsAssumption DEF TypeOK, ActiveAdmins,
     AccountsAssumption
<1>2. SUFFICES ASSUME ActiveAdmins \ {u} = {} PROVE FALSE
  OBVIOUS
<1>3. CASE ActiveAdmins = {}
  BY <1>3, FS_EmptySet DEF LastAdmin
<1>4. CASE ActiveAdmins # {}
  <2>1. ActiveAdmins = {u}
    BY <1>2, <1>4
  <2>2. Cardinality({u}) = 1
    BY FS_Singleton
  <2>3. QED
    BY <2>1, <2>2 DEF LastAdmin
<1>5. QED
  BY <1>3, <1>4

\* The values of a request's record.
LEMMA IdleTyped == Idle \in RequestState /\ Idle.pc = "idle"
  BY DEF Idle, RequestState, Pcs, AdminOps

\* A record that keeps only a target is a request's record.
LEMMA TargetingTyped ==
  ASSUME NEW pc \in Pcs, NEW u \in Users \cup {None}
  PROVE  Targeting(pc, u) \in RequestState
  BY DEF Targeting, Idle, RequestState

\* A row of users is a user, so never the null marker.
LEMMA NoneIsNoUser == None \notin Users /\ None \notin Requests /\ None \notin Sids
  BY AccountsAssumption DEF AccountsAssumption

\* The initial state is well typed.
LEMMA TypeInit == Init => TypeOK /\ RequestKnows
<1>1. SUFFICES ASSUME Init PROVE TypeOK /\ RequestKnows
  OBVIOUS
<1>2. req \in [Requests -> RequestState] /\ RequestKnows
  BY <1>1, IdleTyped DEF Init, RequestKnows
<1>3. Root \in Users /\ MaxRestarts \in Nat
  BY AccountsAssumption DEF AccountsAssumption
<1>4. restarts \in 0..MaxRestarts
  BY <1>1, <1>3 DEF Init
<1>5. QED
  BY <1>1, <1>2, <1>3, <1>4 DEF Init, TypeOK

\* Giving one request a typed record keeps what all requests know.
LEMMA OneRequest ==
  ASSUME TypeOK, RequestKnows, NEW r \in Requests, NEW q \in RequestState,
         q.pc \in {"replace", "insert", "commit"} => q.sid \in Sids /\ q.target \in Users,
         q.pc \in {"delEvict", "delCommit"} => q.target \in Users /\ q.target # q.actor,
         q.pc = "evict" => q.target \in Users,
         req' = [req EXCEPT ![r] = q]
  PROVE  req' \in [Requests -> RequestState] /\ RequestKnows'
  BY DEF TypeOK, RequestKnows

\* Ending a request keeps what all requests know.
LEMMA DoneTyped ==
  ASSUME TypeOK, RequestKnows, NEW r \in Requests, Done(r)
  PROVE  req' \in [Requests -> RequestState] /\ RequestKnows'
  BY OneRequest, IdleTyped DEF Done

\* Moving a request on keeps its record typed and its other fields as they are.
LEMMA GotoTyped ==
  ASSUME TypeOK, NEW r \in Requests, NEW pc \in Pcs
  PROVE  LET q == [req[r] EXCEPT !.pc = pc] IN
         /\ q \in RequestState /\ q.pc = pc
         /\ q.sid = req[r].sid /\ q.target = req[r].target /\ q.actor = req[r].actor
  BY DEF TypeOK, RequestState

\* A security change only marks rows and pending logins.
LEMMA SecurityChangeTyped ==
  ASSUME TypeOK, RequestKnows, NEW r \in Requests, NEW u \in Users,
         SecurityChange(r, u, "evict")
  PROVE  /\ sessions' \subseteq SessionRow
         /\ req' \in [Requests -> RequestState] /\ RequestKnows'
<1>1. sessions' \subseteq SessionRow
  BY DEF SecurityChange, TypeOK, SessionRow
<1>2. ASSUME NEW q \in Requests
      PROVE  LET raced == [req[q] EXCEPT !.raced = TRUE] IN
             /\ raced \in RequestState /\ raced.pc = req[q].pc
             /\ raced.sid = req[q].sid /\ raced.target = req[q].target
             /\ raced.actor = req[q].actor
  BY DEF TypeOK, RequestState
<1>3. /\ Targeting("evict", u) \in RequestState /\ Targeting("evict", u).pc = "evict"
      /\ Targeting("evict", u).target = u
  BY DEF Targeting, Idle, RequestState, Pcs
<1>4. req' \in [Requests -> RequestState]
  BY <1>2, <1>3 DEF SecurityChange, TypeOK
<1>5. RequestKnows'
  BY <1>2, <1>3 DEF SecurityChange, RequestKnows
<1>6. QED
  BY <1>1, <1>4, <1>5

\* The records that the steps before a handler's body give their request.
LEMMA ArrivalsTyped ==
  ASSUME TypeOK, RequestKnows, NEW r \in Requests,
         \/ ArriveAnonymous(r) \/ ArriveWithSession(r) \/ ResolveUser(r)
         \/ DropSession(r) \/ DispatchBrew(r)
  PROVE  req' \in [Requests -> RequestState] /\ RequestKnows'
<1>1. CASE ArriveAnonymous(r)
  <2>1. "handler" \in Pcs
    BY DEF Pcs
  <2> QED
    BY <1>1, <2>1, GotoTyped, OneRequest DEF ArriveAnonymous, Goto
<1>2. CASE ArriveWithSession(r)
  <2>1. PICK s \in sessions :
          req' = [req EXCEPT ![r] = [Idle EXCEPT !.pc = "resolve", !.sid = s.sid,
                                                 !.target = s.user]]
    BY <1>2 DEF ArriveWithSession
  <2>2. s.sid \in Sids /\ s.user \in Users
    BY DEF TypeOK, SessionRow
  <2> DEFINE q == [Idle EXCEPT !.pc = "resolve", !.sid = s.sid, !.target = s.user]
  <2>3. q \in RequestState /\ q.pc = "resolve"
    BY <2>2 DEF Idle, RequestState, Pcs
  <2> QED
    BY <2>1, <2>3, OneRequest
<1>3. CASE ResolveUser(r)
  <2> DEFINE u == req[r].target
             q == IF u \in accounts \cap actives
                    THEN [Idle EXCEPT !.pc = "handler", !.sid = req[r].sid,
                                      !.actor = u, !.adm = u \in admins]
                    ELSE [Idle EXCEPT !.pc = "drop", !.sid = req[r].sid]
  <2>1. req[r].sid \in Sids \cup {None} /\ u \in Users \cup {None}
    BY DEF TypeOK, RequestState
  <2>2. q \in RequestState /\ q.pc \in {"handler", "drop"}
    <3>1. CASE u \in accounts \cap actives
      <4>1. u \in Users /\ (u \in admins) \in BOOLEAN
        BY <3>1 DEF TypeOK
      <4> QED
        BY <2>1, <3>1, <4>1 DEF Idle, RequestState, Pcs
    <3>2. CASE u \notin accounts \cap actives
      BY <2>1, <3>2 DEF Idle, RequestState, Pcs
    <3> QED
      BY <3>1, <3>2
  <2>3. req' = [req EXCEPT ![r] = q]
    BY <1>3 DEF ResolveUser
  <2> QED
    BY <2>2, <2>3, OneRequest
<1>4. CASE DropSession(r)
  <2> DEFINE q == [Idle EXCEPT !.pc = "handler"]
  <2>1. q \in RequestState /\ q.pc = "handler"
    BY DEF Idle, RequestState, Pcs
  <2> QED
    BY <1>4, <2>1, OneRequest DEF DropSession
<1>5. CASE DispatchBrew(r)
  <2> DEFINE q == [Idle EXCEPT !.pc = "brew", !.actor = req[r].actor]
  <2>1. q \in RequestState /\ q.pc = "brew"
    BY DEF Idle, RequestState, Pcs, TypeOK
  <2> QED
    BY <1>5, <2>1, OneRequest DEF DispatchBrew
<1>6. QED
  BY <1>1, <1>2, <1>3, <1>4, <1>5

\* The steps that pick a user, a new session id or the fields of a form.
LEMMA HandlersTyped ==
  ASSUME TypeOK, RequestKnows, NEW r \in Requests,
         \/ Login(r) \/ DeletePrior(r) \/ LoginInsert(r) \/ Dispatch(r)
         \/ LoadForUpdate(r)
  PROVE  req' \in [Requests -> RequestState] /\ RequestKnows'
<1>1. req[r].sid \in Sids \cup {None} /\ req[r].actor \in Users \cup {None}
  BY DEF TypeOK, RequestState
<1>2. CASE Login(r)
  <2>1. PICK u \in accounts \cap actives, s \in Sids \ spent :
          req' = [req EXCEPT ![r] = [Idle EXCEPT !.sid = s, !.target = u,
                     !.pc = IF req[r].actor = None THEN "insert" ELSE "replace",
                     !.prior = IF req[r].actor = None THEN None ELSE req[r].sid]]
    BY <1>2 DEF Login
  <2> DEFINE q == [Idle EXCEPT !.sid = s, !.target = u,
                     !.pc = IF req[r].actor = None THEN "insert" ELSE "replace",
                     !.prior = IF req[r].actor = None THEN None ELSE req[r].sid]
  <2>2. u \in Users /\ s \in Sids
    BY DEF TypeOK
  <2>3. q \in RequestState /\ q.pc \in {"insert", "replace"} /\ q.sid = s /\ q.target = u
    BY <1>1, <2>2 DEF Idle, RequestState, Pcs
  <2> HIDE DEF q
  <2> QED
    BY <2>1, <2>2, <2>3, OneRequest DEF q
<1>3. CASE LoginInsert(r)
  <2>1. req[r].pc = "insert" /\ "commit" \in Pcs
    BY <1>3 DEF LoginInsert, At, Pcs
  <2>2. CASE Goto(r, "commit")
    BY <2>1, <2>2, GotoTyped, OneRequest DEF Goto, RequestKnows
  <2>3. CASE Done(r)
    BY <2>3, DoneTyped
  <2> QED
    BY <1>3, <2>2, <2>3 DEF LoginInsert
<1>4. CASE Dispatch(r)
  <2>1. PICK op \in AdminOps \ {"update"}, u \in accounts :
          req' = [req EXCEPT ![r] = [Targeting(op, u) EXCEPT !.actor = req[r].actor]]
    BY <1>4 DEF Dispatch
  <2> DEFINE q == [Targeting(op, u) EXCEPT !.actor = req[r].actor]
  <2>2. u \in Users /\ op \in AdminOps
    BY DEF TypeOK
  <2>3. q \in RequestState /\ q.pc = op
    BY <1>1, <2>2 DEF Targeting, Idle, RequestState, Pcs
  <2>4. op \notin {"replace", "insert", "commit", "delEvict", "delCommit", "evict"}
    BY <2>2 DEF AdminOps
  <2> HIDE DEF q
  <2> QED
    BY <2>1, <2>3, <2>4, OneRequest DEF q
<1>5. CASE LoadForUpdate(r)
  <2>1. PICK u \in accounts, newAdmin \in BOOLEAN, newPw \in BOOLEAN, newName \in BOOLEAN :
          req' = [req EXCEPT ![r] =
            [Targeting("update", u) EXCEPT !.actor = req[r].actor,
               !.was = u \in admins, !.newAdmin = newAdmin, !.newPw = newPw, !.newName = newName]]
    BY <1>5 DEF LoadForUpdate
  <2> DEFINE q == [Targeting("update", u) EXCEPT !.actor = req[r].actor,
                     !.was = u \in admins, !.newAdmin = newAdmin, !.newPw = newPw, !.newName = newName]
  <2>2. u \in Users /\ (u \in admins) \in BOOLEAN
    BY DEF TypeOK
  <2>3. q \in RequestState /\ q.pc = "update"
    BY <1>1, <2>2 DEF Targeting, Idle, RequestState, Pcs, AdminOps
  <2> HIDE DEF q
  <2> QED
    BY <2>1, <2>3, OneRequest DEF q
<1>6. CASE DeletePrior(r)
  <2>1. req[r].pc = "replace" /\ "insert" \in Pcs
    BY <1>6 DEF DeletePrior, At, Pcs
  <2> QED
    BY <1>6, <2>1, GotoTyped, OneRequest DEF DeletePrior, Goto, RequestKnows
<1>7. QED
  BY <1>2, <1>3, <1>4, <1>5, <1>6

\* The bodies of the handlers and what follows them.
LEMMA BodiesTyped ==
  ASSUME TypeOK, RequestKnows, NEW r \in Requests,
         \/ LoginCommit(r) \/ Logout(r) \/ Finish(r) \/ CreateUser(r)
         \/ Refuse(r) \/ Reject(r) \/ UpdateConflict(r)
         \/ ReactivateUser(r)
         \/ Evict(r) \/ DeleteGuard(r) \/ DeleteEvict(r) \/ DeleteCommit(r)
         \/ Respond(r) \/ CloseSession(r) \/ CreateBrew(r) \/ Fail(r)
  PROVE  req' \in [Requests -> RequestState] /\ RequestKnows'
<1>1. CASE Done(r)
  BY <1>1, DoneTyped
<1>2. CASE Refuse(r)
  <2>1. LET q == Targeting("respond", None) IN q \in RequestState /\ q.pc = "respond"
    BY DEF Targeting, Idle, RequestState, Pcs
  <2> QED
    BY <1>2, <2>1, OneRequest DEF Refuse
<1>3. CASE DeleteGuard(r)
  <2> DEFINE u == req[r].target
             q == IF u \in brewed
                    THEN Targeting("respond", None)
                    ELSE [Targeting("delEvict", u) EXCEPT !.actor = req[r].actor]
  <2>1. u \in Users /\ u # req[r].actor /\ req[r].actor \in Users \cup {None}
    BY <1>3 DEF DeleteGuard, Allowed, TypeOK, RequestState
  <2>2. q \in RequestState /\ q.pc \in {"respond", "delEvict"}
               /\ (q.pc = "delEvict" => q.target = u /\ q.actor = req[r].actor)
    BY <2>1 DEF Targeting, Idle, RequestState, Pcs
  <2>3. req' = [req EXCEPT ![r] = q]
    BY <1>3 DEF DeleteGuard
  <2> HIDE DEF q
  <2> QED
    BY <2>1, <2>2, <2>3, OneRequest
<1>4. CASE DeleteEvict(r)
  <2> DEFINE q == [req[r] EXCEPT !.pc = "delCommit"]
  <2>1. req[r].pc = "delEvict" /\ "delCommit" \in Pcs
    BY <1>4 DEF DeleteEvict, At, Pcs
  <2>2. /\ q \in RequestState /\ q.pc = "delCommit"
        /\ q.target = req[r].target /\ q.actor = req[r].actor
    BY <2>1, GotoTyped
  <2>3. q.target \in Users /\ q.target # q.actor
    BY <2>1, <2>2 DEF RequestKnows
  <2>4. req' = [req EXCEPT ![r] = q]
    BY <1>4 DEF DeleteEvict, Goto
  <2> HIDE DEF q
  <2> QED
    BY <2>2, <2>3, <2>4, OneRequest
<1>5. CASE Respond(r)
  <2>1. "closing" \in Pcs
    BY DEF Pcs
  <2> QED
    BY <1>5, <2>1, GotoTyped, OneRequest DEF Respond, Goto
<1>6. CASE DeleteEvictFails(r)
  <2>1. LET q == Targeting("closing", None) IN q \in RequestState /\ q.pc = "closing"
    BY DEF Targeting, Idle, RequestState, Pcs
  <2> QED
    BY <1>6, <2>1, OneRequest DEF DeleteEvictFails
<1>7. QED
  BY <1>1, <1>2, <1>3, <1>4, <1>5, <1>6 DEF Fail, StatementFails, EvictFails, LoginCommit, Logout, Finish, CreateUser,
     Reject, UpdateConflict, ReactivateUser, Evict, DeleteCommit,
     CloseSession, CreateBrew

\* What TypeOK says of every variable but req.
TablesTyped ==
  /\ accounts \subseteq Users /\ deleted \subseteq Users
  /\ admins \subseteq accounts /\ actives \subseteq accounts
  /\ brewed \subseteq accounts
  /\ accounts \cap deleted = {}
  /\ sessions \subseteq SessionRow
  /\ spent \subseteq Sids
  /\ xlock \in [Requests -> SUBSET Users]
  /\ slock \in [Requests -> SUBSET Users]
  /\ blocked \in Requests \cup {None}
  /\ restarts \in 0..MaxRestarts
  /\ unevicted \subseteq Users
  /\ unguarded \in BOOLEAN

\* A step of a request leaves every table and lock well typed.
LEMMA TablesStep ==
  ASSUME TypeOK, RequestKnows, NEW r \in Requests, Unforced(r) \/ Step(r) \/ Block(r)
  PROVE  TablesTyped'
<1>1. TablesTyped
  BY DEF TypeOK, TablesTyped
<1> USE DEF rows, locks, history
<1>2. CASE Block(r)
  BY <1>1, <1>2 DEF TablesTyped, Block
<1>3. CASE ArriveAnonymous(r) \/ ArriveWithSession(r) \/ ResolveUser(r) \/ Finish(r)
         \/ Dispatch(r) \/ LoadForUpdate(r) \/ Respond(r) \/ DispatchBrew(r)
  BY <1>1, <1>3 DEF TablesTyped, ArriveAnonymous, ArriveWithSession,
     ResolveUser, Finish, Dispatch, LoadForUpdate, Respond, DispatchBrew
<1>4. CASE DropSession(r)
  BY <1>1, <1>4 DEF TablesTyped, DropSession
<1>5. CASE Login(r)
  BY <1>1, <1>5 DEF TablesTyped, Login
<1>6. CASE DeletePrior(r)
  BY <1>1, <1>6 DEF TablesTyped, DeletePrior
<1>7. CASE LoginInsert(r)
  BY <1>1, <1>7 DEF TablesTyped, LoginInsert, Done, Goto
<1>8. CASE LoginCommit(r)
  <2>1. req[r].sid \in Sids /\ req[r].target \in Users /\ req[r].raced \in BOOLEAN
    BY <1>8 DEF LoginCommit, At, RequestKnows, TypeOK, RequestState
  <2>2. [sid |-> req[r].sid, user |-> req[r].target, outdated |-> FALSE,
         raced |-> req[r].raced] \in SessionRow
    BY <2>1 DEF SessionRow
  <2> QED
    BY <1>1, <1>8, <2>2 DEF TablesTyped, LoginCommit
<1>9. CASE Logout(r)
  BY <1>1, <1>9 DEF TablesTyped, Logout
<1>10. CASE CreateUser(r)
  BY <1>1, <1>10 DEF TablesTyped, CreateUser
<1>11. CASE Refuse(r)
  BY <1>1, <1>11 DEF TablesTyped, Refuse, Runs, ActiveAdmins
<1>12. CASE Reject(r) \/ UpdateConflict(r)
  BY <1>1, <1>12 DEF TablesTyped, Reject, UpdateConflict, Allowed,
     Runs
<1>13. CASE ToggleAdmin(r)
  <2>1. PICK u \in Users : u = req[r].target
    BY <1>13 DEF ToggleAdmin, Allowed, Runs, TypeOK
  <2>2. sessions' \subseteq SessionRow
    <3>1. CASE SecurityChange(r, req[r].target, "evict")
      BY <2>1, <3>1, SecurityChangeTyped
    <3>2. CASE UNCHANGED sessions
      BY <1>1, <3>2 DEF TablesTyped
    <3> QED
      BY <1>13, <3>1, <3>2 DEF ToggleAdmin, Allowed, Runs
  <2> QED
    BY <1>1, <1>13, <2>1, <2>2 DEF TablesTyped, ToggleAdmin, Allowed, Runs
<1>14. CASE UpdateUser(r)
  <2>1. PICK u \in Users : u = req[r].target
    BY <1>14 DEF UpdateUser, Allowed, Runs, TypeOK
  <2>2. sessions' \subseteq SessionRow
    <3>1. CASE SecurityChange(r, req[r].target, "evict")
      BY <2>1, <3>1, SecurityChangeTyped
    <3>2. CASE UNCHANGED sessions
      BY <1>1, <3>2 DEF TablesTyped
    <3> QED
      BY <1>14, <3>1, <3>2 DEF UpdateUser, Allowed, Runs
  <2> QED
    BY <1>1, <1>14, <2>1, <2>2 DEF TablesTyped, UpdateUser, Allowed, Runs
<1>15. CASE DeactivateUser(r)
  <2>1. PICK u \in Users : u = req[r].target
    BY <1>15 DEF DeactivateUser, Allowed, Runs, TypeOK
  <2>2. sessions' \subseteq SessionRow
    <3>1. CASE SecurityChange(r, req[r].target, "evict")
      BY <2>1, <3>1, SecurityChangeTyped
    <3>2. CASE UNCHANGED sessions
      BY <1>1, <3>2 DEF TablesTyped
    <3> QED
      BY <1>15, <3>1, <3>2 DEF DeactivateUser, Allowed, Runs
  <2> QED
    BY <1>1, <1>15, <2>1, <2>2 DEF TablesTyped, DeactivateUser, Allowed, Runs
<1>16. CASE ReactivateUser(r)
  BY <1>1, <1>16 DEF TablesTyped, ReactivateUser, Allowed, Runs
<1>17. CASE Evict(r)
  BY <1>1, <1>17 DEF TablesTyped, Evict, SessionsOf
<1>18. CASE DeleteGuard(r)
  BY <1>1, <1>18 DEF TablesTyped, DeleteGuard, Allowed, Runs, ActiveAdmins
<1>19. CASE DeleteEvict(r)
  BY <1>1, <1>19 DEF TablesTyped, DeleteEvict, SessionsOf
<1>20. CASE DeleteCommit(r)
  <2>1. req[r].target \in Users
    BY <1>20 DEF DeleteCommit, At, RequestKnows
  <2>2. unguarded' \in BOOLEAN
    BY <1>1, <1>20 DEF TablesTyped, DeleteCommit
  <2>3. brewed' \subseteq accounts' /\ accounts' \cap deleted' = {}
    BY <1>1, <1>20 DEF TablesTyped, DeleteCommit
  <2> QED
    BY <1>1, <1>20, <2>1, <2>2, <2>3 DEF TablesTyped, DeleteCommit, Runs,
       SessionsOf
<1>21. CASE CloseSession(r)
  BY <1>1, <1>21 DEF TablesTyped, CloseSession
<1>22. CASE CreateBrew(r)
  BY <1>1, <1>22 DEF TablesTyped, CreateBrew, Runs
<1>23. CASE StatementFails(r) \/ DeleteEvictFails(r)
  BY <1>1, <1>23 DEF TablesTyped, StatementFails, DeleteEvictFails
<1>24. CASE EvictFails(r)
  <2>1. req[r].target \in Users
    BY <1>24 DEF EvictFails, At, RequestKnows
  <2> QED
    BY <1>1, <1>24, <2>1 DEF TablesTyped, EvictFails
<1> QED
  BY <1>23, <1>24, <1>2, <1>3, <1>4, <1>5, <1>6, <1>7, <1>8, <1>9, <1>10, <1>11, <1>12,
     <1>13, <1>14, <1>15, <1>16, <1>17, <1>18, <1>19, <1>20, <1>21, <1>22 DEF
     Unforced, Fail, Step

\* The remaining variables, whichever step is taken.
LEMMA TypeStep == TypeOK /\ RequestKnows /\ [Next]_vars => TypeOK' /\ RequestKnows'
<1> SUFFICES ASSUME TypeOK, RequestKnows, [Next]_vars
             PROVE  TypeOK' /\ RequestKnows'
  OBVIOUS
<1>1. req' \in [Requests -> RequestState] /\ RequestKnows'
  <2>1. CASE UNCHANGED req
    BY <2>1 DEF TypeOK, RequestKnows
  <2>2. ASSUME NEW r \in Requests, Unforced(r) \/ Step(r)
        PROVE  req' \in [Requests -> RequestState] /\ RequestKnows'
    <3>1. CASE ToggleAdmin(r) \/ UpdateUser(r) \/ DeactivateUser(r)
      <4>1. PICK u \in Users : u = req[r].target
        BY <3>1 DEF ToggleAdmin, UpdateUser, DeactivateUser, Allowed, TypeOK
      <4>2. CASE SecurityChange(r, req[r].target, "evict")
        <5>1. SecurityChange(r, u, "evict")
          BY <4>1, <4>2
        <5> QED
          BY <5>1, SecurityChangeTyped
      <4>3. CASE Done(r)
        BY <4>3, DoneTyped
      <4> QED
        BY <3>1, <4>2, <4>3 DEF ToggleAdmin, UpdateUser, DeactivateUser
    <3>2. QED
      BY <2>2, <3>1, ArrivalsTyped, HandlersTyped, BodiesTyped DEF Unforced,
         Step
  <2>3. CASE Restart
    BY <2>3, IdleTyped DEF Restart, RequestKnows
  <2>4. QED
    BY <2>1, <2>2, <2>3 DEF Next, vars, Block, ExpireSession
<1>2. TablesTyped'
  <2>1. CASE UNCHANGED vars
    BY <2>1 DEF TypeOK, TablesTyped, vars, rows, locks, history
  <2>2. CASE ExpireSession
    BY <2>2 DEF TypeOK, TablesTyped, ExpireSession, rows, locks, history
  <2>3. CASE Restart
    BY <2>3, AccountsAssumption DEF TypeOK, TablesTyped, Restart, rows,
       AccountsAssumption
  <2>4. QED
    BY <2>1, <2>2, <2>3, TablesStep DEF Next
<1> QED
  BY <1>1, <1>2 DEF TypeOK, TablesTyped

\* Every reachable state is well typed.
THEOREM TypeCorrect == Spec => []TypeOK
<1>1. TypeOK /\ RequestKnows /\ [Next]_vars => (TypeOK /\ RequestKnows)'
  BY TypeStep
<1>2. QED
  BY <1>1, TypeInit, PTL DEF Spec

-----------------------------------------------------------------------------
\* A step of one request leaves the position and the locks of the others.
LEMMA OthersKeep ==
  ASSUME TypeOK, NEW r \in Requests, Unforced(r) \/ Step(r) \/ Block(r),
         NEW q \in Requests, q # r
  PROVE  /\ req'[q].pc = req[q].pc /\ req'[q].target = req[q].target
         /\ req'[q].actor = req[q].actor /\ req'[q].prior = req[q].prior
         /\ req'[q].sid = req[q].sid
         /\ xlock'[q] = xlock[q] /\ slock'[q] = slock[q]
<1>1. q \in DOMAIN req /\ q \in DOMAIN xlock /\ q \in DOMAIN slock
  BY DEF TypeOK
<1> USE DEF locks
<1>2. CASE ArriveAnonymous(r)
  BY <1>1, <1>2 DEF ArriveAnonymous, Goto
<1>3. CASE ArriveWithSession(r)
  BY <1>1, <1>3 DEF ArriveWithSession
<1>4. CASE ResolveUser(r)
  BY <1>1, <1>4 DEF ResolveUser
<1>5. CASE DropSession(r)
  BY <1>1, <1>5 DEF DropSession
<1>6. CASE Login(r)
  BY <1>1, <1>6 DEF Login
<1>7. CASE LoginInsert(r)
  BY <1>1, <1>7 DEF LoginInsert, Goto, Done
<1>8. CASE LoginCommit(r) \/ Logout(r) \/ Finish(r) \/ CreateUser(r)
  BY <1>1, <1>8 DEF LoginCommit, Logout, Finish, CreateUser, Done
<1>9. CASE Dispatch(r)
  BY <1>1, <1>9 DEF Dispatch
<1>10. CASE LoadForUpdate(r)
  BY <1>1, <1>10 DEF LoadForUpdate
<1>11. CASE Refuse(r)
  BY <1>1, <1>11 DEF Refuse
<1>12. CASE Reject(r) \/ UpdateConflict(r) \/ ReactivateUser(r) \/ Evict(r)
  BY <1>1, <1>12 DEF Reject, UpdateConflict, ReactivateUser,
     Evict, Done
<1>13. CASE DeletePrior(r)
  BY <1>1, <1>13 DEF DeletePrior, Goto
<1>14. CASE ToggleAdmin(r)
  BY <1>1, <1>14 DEF ToggleAdmin, SecurityChange
<1>15. CASE UpdateUser(r)
  <2>1. UNCHANGED locks
    BY <1>15 DEF UpdateUser
  <2>2. CASE SecurityChange(r, req[r].target, "evict")
    BY <1>1, <2>1, <2>2 DEF SecurityChange
  <2>3. CASE Done(r)
    BY <1>1, <2>1, <2>3 DEF Done
  <2> QED
    BY <1>15, <2>2, <2>3 DEF UpdateUser
<1>16. CASE DeactivateUser(r)
  BY <1>1, <1>16 DEF DeactivateUser, SecurityChange
<1>17. CASE DeleteGuard(r)
  BY <1>1, <1>17 DEF DeleteGuard
<1>18. CASE DeleteEvict(r) \/ Respond(r)
  BY <1>1, <1>18 DEF DeleteEvict, Respond, Goto
<1>19. CASE DeleteCommit(r) \/ CloseSession(r)
  BY <1>1, <1>19 DEF DeleteCommit, CloseSession, Done
<1>20. CASE DispatchBrew(r)
  BY <1>1, <1>20 DEF DispatchBrew
<1>21. CASE CreateBrew(r)
  BY <1>1, <1>21 DEF CreateBrew, Done
<1>22. CASE Block(r)
  BY <1>1, <1>22 DEF Block
<1>23. CASE Fail(r)
  BY <1>1, <1>23 DEF Fail, StatementFails, EvictFails, DeleteEvictFails, Done
<1> QED
  BY <1>23, <1>2, <1>3, <1>4, <1>5, <1>6, <1>7, <1>8, <1>9, <1>10, <1>11, <1>12,
     <1>13, <1>14, <1>15, <1>16, <1>17, <1>18, <1>19, <1>20, <1>21, <1>22 DEF
     Unforced, Step

\* Where a request stands after it moved on.
LEMMA GotoReads ==
  ASSUME TypeOK, NEW r \in Requests, NEW pc, Goto(r, pc)
  PROVE  /\ req'[r].pc = pc /\ req'[r].target = req[r].target
         /\ req'[r].prior = req[r].prior /\ req'[r].sid = req[r].sid
<1> DEFINE q == [req[r] EXCEPT !.pc = pc]
<1>1. req' = [req EXCEPT ![r] = q]
  BY DEF Goto
<1>2. q.pc = pc /\ q.target = req[r].target /\ q.prior = req[r].prior /\ q.sid = req[r].sid
  BY DEF TypeOK, RequestState
<1> QED
  BY <1>1, <1>2 DEF TypeOK

\* A failing statement ends its request, or lets its Session be closed.
LEMMA FailReads ==
  ASSUME TypeOK, NEW r \in Requests, Fail(r)
  PROVE  /\ req'[r].pc \in {"idle", "closing"} /\ req'[r].sid = None /\ req'[r].prior = None
         /\ xlock' = xlock /\ slock'[r] \subseteq slock[r]
         /\ req'[r].pc = "closing" => At(r, "delEvict") /\ slock' = slock
         /\ req'[r].pc = "idle" => req[r].pc \in {"drop", "replace", "insert", "commit", "evict"}
         /\ At(r, "commit") => slock'[r] = {}
<1>1. r \in DOMAIN req /\ r \in DOMAIN slock
  BY DEF TypeOK
<1>2. CASE StatementFails(r)
  BY <1>1, <1>2 DEF StatementFails, Done, Idle
<1>3. CASE EvictFails(r)
  BY <1>1, <1>3 DEF EvictFails, Done, Idle, At, locks
<1>4. CASE DeleteEvictFails(r)
  BY <1>1, <1>4 DEF DeleteEvictFails, Targeting, Idle, At, locks
<1> QED
  BY <1>2, <1>3, <1>4 DEF Fail

\* Only a delete takes a row of users away, and never one that is key-shared.
LEMMA AccountsLost ==
  ASSUME TypeOK, NEW r \in Requests, Unforced(r) \/ Step(r) \/ Block(r),
         NEW u \in accounts, u \notin accounts'
  PROVE  DeleteCommit(r) /\ u = req[r].target /\ \A q \in Requests \ {r} : u \notin slock[q]
<1>1. CASE DeleteCommit(r)
  <2>1. accounts' = accounts \/ accounts' = accounts \ {req[r].target}
    BY <1>1 DEF DeleteCommit, rows
  <2>2. u = req[r].target
    BY <2>1
  <2>3. At(r, "delCommit") /\ ~MustWait(r)
    BY <1>1 DEF DeleteCommit, Runs
  <2>4. ~SHeldByOther(r, {u})
    BY <2>2, <2>3 DEF MustWait
  <2> QED
    BY <1>1, <2>2, <2>4 DEF SHeldByOther
<1>2. CASE UNCHANGED accounts
  BY <1>2
<1>3. CASE CreateUser(r)
  BY <1>3 DEF CreateUser
<1> QED
  BY <1>1, <1>2, <1>3 DEF rows, Unforced, Step, Block, Fail, StatementFails, EvictFails, DeleteEvictFails,
     ArriveAnonymous,
     ArriveWithSession, ResolveUser, DropSession, Login, DeletePrior,
     LoginInsert, LoginCommit, Logout, Finish, Dispatch, LoadForUpdate,
     Refuse, Reject, ToggleAdmin, UpdateUser, UpdateConflict, DeactivateUser, ReactivateUser, Evict, DeleteGuard, DeleteEvict, Respond,
     CloseSession, DispatchBrew, CreateBrew

\* Where the stepping request itself may end up holding a lock.
LEMMA LockPhaseStep ==
  TypeOK /\ RequestKnows /\ LockPhase /\ [Next]_vars => LockPhase'
<1> SUFFICES ASSUME TypeOK, RequestKnows, LockPhase, [Next]_vars
             PROVE  LockPhase'
  OBVIOUS
<1> DEFINE Phase(q) ==
      /\ xlock[q] # {} => req[q].pc \in {"delEvict", "delCommit", "respond", "closing"}
      /\ slock[q] # {} => req[q].pc = "commit"
      /\ req[q].pc = "commit" => slock[q] = {req[q].target} /\ req[q].target \in accounts
<1>1. CASE UNCHANGED <<req, locks, accounts>>
  BY <1>1 DEF LockPhase, locks
<1>2. CASE Restart
  BY <1>2 DEF LockPhase, Restart, Idle
<1>3. ASSUME NEW r \in Requests, Unforced(r) \/ Step(r) \/ Block(r)
      PROVE  LockPhase'
  <2>1. ASSUME NEW q \in Requests, q # r
        PROVE  Phase(q)'
    <3>1. /\ req'[q].pc = req[q].pc /\ req'[q].target = req[q].target
          /\ xlock'[q] = xlock[q] /\ slock'[q] = slock[q]
      BY <1>3, <2>1, OthersKeep
    <3>2. Phase(q)
      BY DEF LockPhase
    <3>3. req[q].pc = "commit" => req[q].target \in accounts'
      BY <1>3, <2>1, <3>2, AccountsLost
    <3> QED
      BY <3>1, <3>2, <3>3
  <2>2. Phase(r)'
    <3>1. Phase(r) /\ r \in DOMAIN req /\ r \in DOMAIN xlock /\ r \in DOMAIN slock
      BY DEF LockPhase, TypeOK
    <3> USE DEF locks, At
    <3>2. CASE ArriveAnonymous(r)
      BY <3>1, <3>2, GotoReads DEF ArriveAnonymous
    <3>3. CASE ArriveWithSession(r)
      BY <3>1, <3>3 DEF ArriveWithSession, Idle
    <3>4. CASE ResolveUser(r)
      BY <3>1, <3>4 DEF ResolveUser, Idle
    <3>5. CASE DropSession(r)
      BY <3>1, <3>5 DEF DropSession, Idle
    <3>6. CASE Login(r)
      BY <3>1, <3>6 DEF Login, Idle
    <3>7. CASE DeletePrior(r)
      BY <3>1, <3>7, GotoReads DEF DeletePrior
    <3>8. CASE LoginInsert(r)
      <4>1. CASE req[r].target \in accounts
        <5>1. Goto(r, "commit")
          BY <3>8, <4>1 DEF LoginInsert
        <5>2. req'[r].pc = "commit" /\ req'[r].target = req[r].target
          BY <5>1, GotoReads
        <5> QED
          BY <3>1, <3>8, <4>1, <5>2 DEF LoginInsert, rows
      <4>2. CASE req[r].target \notin accounts
        BY <3>1, <3>8, <4>2 DEF LoginInsert, Done, Idle
      <4> QED
        BY <4>1, <4>2
    <3>9. CASE LoginCommit(r) \/ Logout(r) \/ Finish(r) \/ CreateUser(r)
      BY <3>1, <3>9 DEF LoginCommit, Logout, Finish, CreateUser, Done, Idle
    <3>10. CASE Dispatch(r)
      BY <3>1, <3>10 DEF Dispatch, AdminOps, Targeting, Idle
    <3>11. CASE LoadForUpdate(r)
      BY <3>1, <3>11 DEF LoadForUpdate, Targeting, Idle
    <3>12. CASE Refuse(r)
      BY <3>1, <3>12 DEF Refuse, Guarded, Targeting, Idle
    <3>13. CASE Reject(r)
      BY <3>1, <3>13 DEF Reject, AdminOps, Done, Idle
    <3>14. CASE UpdateConflict(r) \/ ReactivateUser(r) \/ Evict(r)
      BY <3>1, <3>14 DEF UpdateConflict, ReactivateUser, Evict,
         Done, Idle
    <3>15. CASE ToggleAdmin(r)
      BY <3>1, <3>15 DEF ToggleAdmin, SecurityChange, Targeting, Idle
    <3>16. CASE UpdateUser(r)
      <4>1. At(r, "update") /\ UNCHANGED locks
        BY <3>16 DEF UpdateUser
      <4>2. CASE SecurityChange(r, req[r].target, "evict")
        BY <3>1, <4>1, <4>2 DEF SecurityChange, Targeting, Idle
      <4>3. CASE Done(r)
        BY <3>1, <4>1, <4>3 DEF Done, Idle
      <4> QED
        BY <3>16, <4>2, <4>3 DEF UpdateUser
    <3>17. CASE DeactivateUser(r)
      BY <3>1, <3>17 DEF DeactivateUser, SecurityChange, Targeting, Idle
    <3>18. CASE DeleteGuard(r)
      BY <3>1, <3>18 DEF DeleteGuard, Targeting, Idle
    <3>19. CASE DeleteEvict(r) \/ Respond(r)
      BY <3>1, <3>19, GotoReads DEF DeleteEvict, Respond
    <3>20. CASE DeleteCommit(r) \/ CloseSession(r)
      BY <3>1, <3>20 DEF DeleteCommit, CloseSession, Done, Idle
    <3>21. CASE DispatchBrew(r)
      BY <3>1, <3>21 DEF DispatchBrew, Idle
    <3>22. CASE CreateBrew(r)
      BY <3>1, <3>22 DEF CreateBrew, Done, Idle
    <3>23. CASE Block(r)
      BY <3>1, <3>23 DEF Block, rows
    <3>24. CASE Fail(r)
      BY <3>1, <3>24, FailReads
    <3> QED
      BY <3>24, <1>3, <3>2, <3>3, <3>4, <3>5, <3>6, <3>7, <3>8, <3>9, <3>10, <3>11,
         <3>12, <3>13,
         <3>14, <3>15, <3>16, <3>17, <3>18, <3>19, <3>20, <3>21, <3>22, <3>23
         DEF Unforced, Step
  <2> QED
    BY <2>1, <2>2 DEF LockPhase
<1>4. QED
  BY <1>1, <1>2, <1>3 DEF Next, vars, rows, ExpireSession

\* The foreign key's lock is held from the INSERT to the COMMIT of a login, so
\* no delete gets between.
LEMMA OwnerStep ==
  TypeOK /\ RequestKnows /\ LockPhase /\ SessionHasOwner /\ [Next]_vars => SessionHasOwner'
<1> SUFFICES ASSUME TypeOK, RequestKnows, LockPhase, SessionHasOwner, [Next]_vars
             PROVE  SessionHasOwner'
  OBVIOUS
<1>1. CASE UNCHANGED <<sessions, accounts>> \/ ExpireSession
  BY <1>1 DEF SessionHasOwner, ExpireSession, rows
<1>2. ASSUME NEW r \in Requests, Unforced(r) \/ Step(r)
      PROVE  SessionHasOwner'
  <2>1. CASE LoginCommit(r)
    BY <2>1 DEF LoginCommit, LockPhase, SessionHasOwner, At, rows
  <2>2. CASE DeleteCommit(r)
    BY <2>2 DEF DeleteCommit, SessionHasOwner, SessionsOf, rows
  <2>3. CASE \E u, pc : SecurityChange(r, u, pc) /\ UNCHANGED accounts
    BY <2>3 DEF SecurityChange, SessionHasOwner, TypeOK, SessionRow
  <2>4. CASE sessions' \subseteq sessions /\ accounts \subseteq accounts'
    BY <2>4 DEF SessionHasOwner
  <2>5. CASE Evict(r)
    <3>1. sessions' \subseteq sessions /\ accounts' = accounts
      BY <2>5 DEF Evict, SessionsOf, rows
    <3> QED
      BY <2>4, <3>1
  <2>6. QED
    BY <1>2, <2>1, <2>2, <2>3, <2>4, <2>5 DEF rows, Unforced, Step,
       Fail, StatementFails, EvictFails, DeleteEvictFails,
     ArriveAnonymous, ArriveWithSession, ResolveUser, DropSession, Login,
       DeletePrior, LoginInsert, Logout, Finish, CreateUser, Dispatch,
       LoadForUpdate, Refuse, Reject, ToggleAdmin, UpdateUser, UpdateConflict,
       DeactivateUser, ReactivateUser, DeleteGuard, DeleteEvict,
       Respond, CloseSession, DispatchBrew, CreateBrew
<1>3. QED
  BY <1>1, <1>2 DEF Next, vars, rows, Restart, Block

\* SessionHasOwner holds in every reachable state: LockPhase is the strengthening,
\* the user row of a login past its INSERT exists and is locked.
THEOREM OwnedSessions == Spec => []SessionHasOwner
<1> DEFINE OwnerInv == TypeOK /\ RequestKnows /\ LockPhase /\ SessionHasOwner
<1>1. Init => OwnerInv
  <2>1. Init => LockPhase /\ SessionHasOwner
    BY DEF Init, LockPhase, SessionHasOwner, Idle
  <2> QED
    BY <2>1, TypeInit
<1>2. OwnerInv /\ [Next]_vars => OwnerInv'
  BY TypeStep, LockPhaseStep, OwnerStep
<1>3. OwnerInv => SessionHasOwner
  OBVIOUS
<1>4. QED
  BY <1>1, <1>2, <1>3, PTL DEF Spec

-----------------------------------------------------------------------------
\* An eviction that is due stays due until it has run or failed.
LEMMA EvictionStaysDue ==
  ASSUME TypeOK, NEW r \in Requests, Unforced(r) \/ Step(r), NEW u, Evicting(u)
  PROVE  Evicting(u)' \/ (u = req[r].target /\ (Evict(r) \/ EvictFails(r)))
<1>1. PICK q \in Requests : req[q].pc = "evict" /\ req[q].target = u
  BY DEF Evicting, At
<1>2. CASE q = r
  <2>1. Evict(r) \/ EvictFails(r)
    BY <1>1, <1>2 DEF Unforced, Step, Fail, StatementFails, DeleteEvictFails,
       ArriveAnonymous, ArriveWithSession, ResolveUser,
       DropSession, Login, DeletePrior, LoginInsert, LoginCommit, Logout,
       Finish, CreateUser, Dispatch, LoadForUpdate, Refuse, Reject, ToggleAdmin,
       UpdateUser, UpdateConflict, DeactivateUser, ReactivateUser,
       DeleteGuard, DeleteEvict, DeleteCommit, Respond, CloseSession,
       DispatchBrew, CreateBrew, At, Guarded, AdminOps
  <2> QED
    BY <1>1, <1>2, <2>1
<1>3. CASE q # r
  <2>1. req'[q].pc = "evict" /\ req'[q].target = u
    BY <1>1, <1>3, OthersKeep
  <2> QED
    BY <2>1 DEF Evicting, At
<1> QED
  BY <1>2, <1>3

\* No step of a request forgets an eviction that was cut off.
LEMMA CutOffStays ==
  ASSUME NEW r \in Requests, Unforced(r) \/ Step(r)
  PROVE  unevicted \subseteq unevicted'
<1> USE DEF history
<1>1. CASE Unforced(r) \/ ResolveUser(r) \/ DropSession(r) \/ Login(r) \/ DeletePrior(r)
           \/ LoginInsert(r) \/ LoginCommit(r) \/ Logout(r) \/ Finish(r)
  BY <1>1 DEF Unforced, Fail, StatementFails, EvictFails, DeleteEvictFails,
     ArriveAnonymous, ArriveWithSession, ResolveUser, DropSession, Login, DeletePrior,
     LoginInsert, LoginCommit, Logout, Finish
<1>2. CASE CreateUser(r) \/ Dispatch(r) \/ LoadForUpdate(r) \/ Refuse(r)
           \/ Reject(r) \/ ToggleAdmin(r) \/ UpdateUser(r) \/ UpdateConflict(r)
           \/ DeactivateUser(r) \/ ReactivateUser(r)
  BY <1>2 DEF CreateUser, Dispatch, LoadForUpdate, Refuse,
     Reject, ToggleAdmin, UpdateUser, UpdateConflict, DeactivateUser, ReactivateUser
<1>3. CASE Evict(r) \/ DeleteGuard(r) \/ DeleteEvict(r) \/ DeleteCommit(r)
           \/ Respond(r) \/ CloseSession(r) \/ DispatchBrew(r) \/ CreateBrew(r)
  BY <1>3 DEF Evict, DeleteGuard, DeleteEvict, DeleteCommit,
     Respond, CloseSession, DispatchBrew, CreateBrew
<1> QED
  BY <1>1, <1>2, <1>3 DEF Step

\* A session outdates in the step that makes its eviction due.
LEMMA RevokedStep == TypeOK /\ RevokedUnlessCutOff /\ [Next]_vars => RevokedUnlessCutOff'
<1> SUFFICES ASSUME TypeOK, RevokedUnlessCutOff, [Next]_vars
             PROVE  RevokedUnlessCutOff'
  OBVIOUS
<1>1. CASE UNCHANGED <<sessions, req, unevicted>> \/ ExpireSession
  BY <1>1 DEF RevokedUnlessCutOff, ExpireSession, Evicting, At, history
<1>2. CASE Restart
  BY <1>2 DEF RevokedUnlessCutOff, Restart, TypeOK, SessionRow
<1>3. ASSUME NEW r \in Requests, Unforced(r) \/ Step(r)
      PROVE  RevokedUnlessCutOff'
  <2>1. unevicted \subseteq unevicted'
    BY <1>3, CutOffStays
  <2>2. CASE Evict(r)
    <3>1. ASSUME NEW s \in sessions', s.outdated
          PROVE  Evicting(s.user)' \/ s.user \in unevicted'
      <4>1. PICK late \in SUBSET {l \in SessionsOf(req[r].target) : MayBeLate(r, l)} :
              sessions' = (sessions \ SessionsOf(req[r].target)) \cup late
        BY <2>2 DEF Evict
      <4>2. s \in sessions
        BY <4>1 DEF SessionsOf
      <4>3. CASE s \in late
        <5>1. CASE s.user \in unevicted
          BY <2>1, <5>1
        <5>2. CASE s.user \notin unevicted
          <6>1. PICK q \in Requests \ {r} : At(q, "evict") /\ req[q].target = s.user
            BY <3>1, <4>3, <5>2 DEF MayBeLate
          <6>2. req'[q].pc = "evict" /\ req'[q].target = s.user
            BY <1>3, <6>1, OthersKeep DEF At
          <6> QED
            BY <6>2 DEF Evicting, At
        <5> QED
          BY <5>1, <5>2
      <4>4. CASE s \notin late
        <5>1. s.user # req[r].target
          BY <4>1, <4>2, <4>4 DEF SessionsOf
        <5>2. Evicting(s.user) \/ s.user \in unevicted
          BY <3>1, <4>2 DEF RevokedUnlessCutOff
        <5> QED
          BY <1>3, <2>1, <5>1, <5>2, EvictionStaysDue
      <4> QED
        BY <4>3, <4>4
    <3> QED
      BY <3>1 DEF RevokedUnlessCutOff
  <2>3. CASE EvictFails(r)
    <3>1. sessions' = sessions /\ req[r].target \in unevicted'
      BY <2>3 DEF EvictFails
    <3> QED
      BY <1>3, <2>1, <3>1, EvictionStaysDue DEF RevokedUnlessCutOff
  <2>4. CASE LoginCommit(r)
    <3>1. \A s \in sessions' : s.outdated => s \in sessions
      BY <2>4 DEF LoginCommit
    <3>2. ~Evict(r) /\ ~EvictFails(r)
      BY <2>4 DEF LoginCommit, Evict, EvictFails, At
    <3> QED
      BY <1>3, <2>1, <3>1, <3>2, EvictionStaysDue DEF RevokedUnlessCutOff
  <2>5. CASE \E u \in Users : SecurityChange(r, u, "evict") /\ ~Evict(r) /\ ~EvictFails(r)
    <3>1. PICK u \in Users : SecurityChange(r, u, "evict")
      BY <2>5
    <3>2. Evicting(u)'
      <4>1. req'[r] = Targeting("evict", u)
        BY <3>1 DEF SecurityChange
      <4>2. req'[r].pc = "evict" /\ req'[r].target = u
        BY <4>1 DEF Targeting, Idle
      <4> QED
        BY <4>2 DEF Evicting, At
    <3>3. ASSUME NEW s \in sessions', s.outdated, s.user # u
          PROVE  s \in sessions
      BY <3>1, <3>3 DEF SecurityChange, TypeOK, SessionRow
    <3> QED
      BY <1>3, <2>1, <2>5, <3>2, <3>3, EvictionStaysDue DEF RevokedUnlessCutOff
  <2>6. CASE sessions' \subseteq sessions /\ ~Evict(r) /\ ~EvictFails(r)
    BY <1>3, <2>1, <2>6, EvictionStaysDue DEF RevokedUnlessCutOff
  <2>7. CASE ToggleAdmin(r) \/ UpdateUser(r) \/ DeactivateUser(r)
    <3>1. PICK u \in Users : u = req[r].target
      BY <2>7 DEF ToggleAdmin, UpdateUser, DeactivateUser, Allowed, TypeOK
    <3>2. ~Evict(r) /\ ~EvictFails(r)
      BY <2>7 DEF ToggleAdmin, UpdateUser, DeactivateUser, Evict, EvictFails, At
    <3>3. SecurityChange(r, u, "evict") \/ UNCHANGED sessions
      BY <2>7, <3>1 DEF ToggleAdmin, UpdateUser, DeactivateUser
    <3> QED
      BY <2>5, <2>6, <3>2, <3>3
  <2>8. CASE Unforced(r)
    BY <2>3, <2>6, <2>8 DEF Unforced, Fail, StatementFails, DeleteEvictFails,
       ArriveAnonymous, ArriveWithSession, Evict, EvictFails, At
  <2>9. CASE Step(r) /\ ~Evict(r) /\ ~EvictFails(r)
    BY <2>4, <2>6, <2>7, <2>9 DEF Step,
       ResolveUser, DropSession, Login, DeletePrior,
       LoginInsert, Logout, Finish, CreateUser, Dispatch, LoadForUpdate,
       Refuse, Reject, UpdateConflict, ReactivateUser,
       DeleteGuard, DeleteEvict, DeleteCommit, Respond, CloseSession,
       DispatchBrew, CreateBrew
  <2> QED
    BY <1>3, <2>2, <2>3, <2>8, <2>9
<1>4. QED
  BY <1>1, <1>2, <1>3 DEF Next, vars, Block, history

\* RevokedUnlessCutOff holds in every reachable state: toggle_admin, update_user
\* and deactivate_user leave no older session once their eviction is over, unless
\* the process died before it or the eviction itself failed.
THEOREM SecurityChangesRevoke == Spec => []RevokedUnlessCutOff
<1>1. Init => RevokedUnlessCutOff
  BY DEF Init, RevokedUnlessCutOff
<1>2. TypeOK /\ RequestKnows /\ RevokedUnlessCutOff /\ [Next]_vars
        => (TypeOK /\ RequestKnows /\ RevokedUnlessCutOff)'
  BY TypeStep, RevokedStep
<1>3. QED
  BY <1>1, <1>2, TypeInit, PTL DEF Spec

-----------------------------------------------------------------------------
\* How an active admin can be lost: as the target of another user's request,
\* whose row no other transaction has locked, and past the guard.
LEMMA ActiveAdminLost ==
  ASSUME TypeOK, RequestKnows, NEW r \in Requests, Unforced(r) \/ Step(r),
         NEW u \in ActiveAdmins, u \notin ActiveAdmins'
  PROVE  /\ u = req[r].target /\ u # req[r].actor /\ req'[r] # req[r]
         /\ \A q \in Requests \ {r} : u \notin xlock[q]
         /\ DeleteCommit(r) \/ (~LastAdmin /\ req[r].pc \in AdminOps)
<1> DEFINE Lost ==
      /\ u = req[r].target /\ u # req[r].actor /\ req'[r] # req[r]
      /\ \A q \in Requests \ {r} : u \notin xlock[q]
      /\ DeleteCommit(r) \/ (~LastAdmin /\ req[r].pc \in AdminOps)
<1>0. ASSUME Guarded(r), Allowed(r), u = req[r].target, u # req[r].actor,
             req[r].pc \in AdminOps, req'[r].pc = "evict"
      PROVE  Lost
  <2>1. ~LastAdmin /\ ~XHeldByOther(r, ActiveAdmins)
    BY <1>0 DEF Allowed, Runs, MustWait
  <2>2. req'[r] # req[r]
    BY <1>0 DEF AdminOps
  <2> QED
    BY <1>0, <2>1, <2>2 DEF XHeldByOther
<1>1. CASE ToggleAdmin(r)
  <2>1. u = req[r].target /\ req[r].target \in admins /\ req[r].pc = "toggle"
    BY <1>1 DEF ToggleAdmin, ActiveAdmins, At
  <2>2. Guarded(r) /\ Allowed(r) /\ u # req[r].actor
    BY <1>1, <2>1 DEF ToggleAdmin, Guarded, Allowed
  <2>3. req'[r].pc = "evict" /\ req[r].pc \in AdminOps
    BY <1>1, <2>1 DEF ToggleAdmin, SecurityChange, Targeting, Idle, AdminOps
  <2> QED
    BY <1>0, <2>1, <2>2, <2>3
<1>2. CASE UpdateUser(r)
  <2>1. /\ u = req[r].target /\ req[r].pc = "update"
        /\ req[r].was # req[r].newAdmin /\ ~req[r].newAdmin
    BY <1>2 DEF UpdateUser, ActiveAdmins, At
  <2>2. req[r].was
    BY <2>1 DEF TypeOK, RequestState
  <2>3. Guarded(r) /\ Allowed(r) /\ u # req[r].actor
    BY <1>2, <2>1, <2>2 DEF UpdateUser, Guarded, Allowed
  <2>4. req'[r].pc = "evict" /\ req[r].pc \in AdminOps
    <3>1. SecurityChange(r, req[r].target, "evict")
      BY <1>2, <2>1 DEF UpdateUser
    <3> QED
      BY <2>1, <3>1 DEF SecurityChange, Targeting, Idle, AdminOps
  <2> QED
    BY <1>0, <2>1, <2>3, <2>4
<1>3. CASE DeactivateUser(r)
  <2>1. /\ u = req[r].target /\ req[r].pc = "deactivate"
        /\ u \in admins /\ u # req[r].actor
    BY <1>3 DEF DeactivateUser, ActiveAdmins, At
  <2>2. Guarded(r) /\ Allowed(r)
    BY <1>3, <2>1 DEF DeactivateUser, Guarded
  <2>3. req'[r].pc = "evict" /\ req[r].pc \in AdminOps
    BY <1>3, <2>1 DEF DeactivateUser, SecurityChange, Targeting, Idle,
       AdminOps
  <2> QED
    BY <1>0, <2>1, <2>2, <2>3
<1>4. CASE DeleteCommit(r)
  <2>1. req[r].pc = "delCommit" /\ ~MustWait(r)
    BY <1>4 DEF DeleteCommit, At, Runs
  <2>2. u = req[r].target
    BY <1>4 DEF DeleteCommit, ActiveAdmins, rows
  <2>3. u # req[r].actor
    BY <2>1, <2>2 DEF RequestKnows
  <2>4. ~XHeldByOther(r, {u})
    BY <2>1, <2>2 DEF MustWait, At
  <2>5. req'[r].pc = "idle"
    BY <1>4 DEF DeleteCommit, Done, Idle, TypeOK
  <2>6. req'[r] # req[r]
    BY <2>1, <2>5
  <2>7. \A q \in Requests \ {r} : u \notin xlock[q]
    BY <2>4 DEF XHeldByOther
  <2> QED
    BY <1>4, <2>2, <2>3, <2>6, <2>7
<1>5. CASE admins \subseteq admins' /\ actives \subseteq actives'
  BY <1>5 DEF ActiveAdmins
<1>6. QED
  BY <1>1, <1>2, <1>3, <1>4, <1>5 DEF rows, Unforced, Step, Fail, StatementFails, EvictFails, DeleteEvictFails,
     ArriveAnonymous,
     ArriveWithSession, ResolveUser, DropSession, Login, DeletePrior,
     LoginInsert, LoginCommit, Logout, Finish, CreateUser, Dispatch,
     LoadForUpdate, Refuse, Reject, UpdateConflict, ReactivateUser, Evict, DeleteGuard, DeleteEvict, Respond, CloseSession,
     DispatchBrew, CreateBrew

\* NoSelfLockout holds of every step: the guards compare target and actor
\* after the form is read, and a delete keeps the pair it was admitted with.
THEOREM AdminKeepsOwnRights == Spec => NoSelfLockout
<1>1. TypeOK /\ RequestKnows /\ [Next]_vars =>
        [\A u \in ActiveAdmins : u \notin ActiveAdmins' =>
           \E r \in Requests :
             req[r].target = u /\ req[r].actor # u /\ req'[r] # req[r]]_vars
  <2> SUFFICES ASSUME TypeOK, RequestKnows, Next,
                      NEW u \in ActiveAdmins, u \notin ActiveAdmins'
               PROVE  \E r \in Requests :
                        req[r].target = u /\ req[r].actor # u /\ req'[r] # req[r]
    OBVIOUS
  <2>1. PICK r \in Requests : Unforced(r) \/ Step(r)
    BY DEF Next, Block, ExpireSession, Restart, rows, ActiveAdmins
  <2> QED
    BY <2>1, ActiveAdminLost
<1>2. QED
  BY <1>1, TypeInit, TypeStep, PTL DEF Spec, NoSelfLockout

\* What the locks of one transaction mean to the others, in two halves.
LockedAreAdmins == \A r \in Requests : xlock[r] \subseteq ActiveAdmins
LocksExclusive ==
  \A r, q \in Requests :
    r # q => xlock[r] \cap xlock[q] = {} /\ xlock[r] \cap slock[q] = {}

LockInv ==
  TypeOK /\ RequestKnows /\ LockPhase /\ LockedAreAdmins /\ LocksExclusive

\* A step of r gives it no lock another transaction's lock excludes.
LEMMA NewLocks ==
  ASSUME LockInv, NEW r \in Requests, Unforced(r) \/ Step(r)
  PROVE  \/ xlock'[r] \subseteq xlock[r] /\ slock'[r] \subseteq slock[r]
         \/ /\ xlock'[r] \subseteq ActiveAdmins /\ ActiveAdmins' = ActiveAdmins
            /\ slock'[r] = slock[r]
            /\ ~XHeldByOther(r, xlock'[r]) /\ ~SHeldByOther(r, xlock'[r])
         \/ xlock'[r] = xlock[r] /\ ~XHeldByOther(r, slock'[r])
<1> USE DEF locks
<1>1. r \in DOMAIN xlock /\ r \in DOMAIN slock
  BY DEF LockInv, TypeOK
<1>2. CASE LoginInsert(r)
  BY <1>1, <1>2 DEF LoginInsert, XHeldByOther
<1>3. CASE Refuse(r) \/ DeleteGuard(r)
  <2>1. UNCHANGED <<slock, ActiveAdmins>>
    BY <1>3 DEF Refuse, DeleteGuard, rows, ActiveAdmins
  <2>2. CASE ~Guarded(r)
    BY <1>1, <1>3, <2>1, <2>2 DEF Refuse, DeleteGuard
  <2>3. CASE Guarded(r)
    <3>1. xlock'[r] = ActiveAdmins
      BY <1>1, <1>3, <2>3 DEF Refuse, DeleteGuard
    <3>2. ~MustWait(r)
      BY <1>3 DEF Refuse, DeleteGuard, Allowed, Runs
    <3> QED
      BY <2>1, <2>3, <3>1, <3>2 DEF MustWait
  <2> QED
    BY <2>2, <2>3
<1>4. CASE xlock'[r] \subseteq xlock[r] /\ slock'[r] \subseteq slock[r]
  BY <1>4
<1>5. QED
  BY <1>1, <1>2, <1>3, <1>4 DEF Unforced, Step, Fail, StatementFails, EvictFails, DeleteEvictFails,
     ArriveAnonymous,
     ArriveWithSession, ResolveUser, DropSession, Login, DeletePrior,
     LoginCommit, Logout, Finish, CreateUser, Dispatch, LoadForUpdate, Reject,
     ToggleAdmin, UpdateUser, UpdateConflict, DeactivateUser,
     ReactivateUser, Evict, DeleteEvict, DeleteCommit, Respond, CloseSession,
     DispatchBrew, CreateBrew

\* LockInv is inductive.
LEMMA LocksStep == LockInv /\ [Next]_vars => LockInv'
<1> SUFFICES ASSUME LockInv, [Next]_vars PROVE LockInv'
  OBVIOUS
<1>1. (TypeOK /\ RequestKnows /\ LockPhase)'
  BY TypeStep, LockPhaseStep DEF LockInv
<1>2. CASE UNCHANGED <<ActiveAdmins, locks>>
  BY <1>1, <1>2 DEF LockInv, LockedAreAdmins, LocksExclusive, locks
<1>3. CASE Restart
  BY <1>1, <1>3 DEF LockInv, LockedAreAdmins, LocksExclusive, Restart
<1>4. ASSUME NEW r \in Requests, Unforced(r) \/ Step(r)
      PROVE  LockInv'
  <2>1. ASSUME NEW q \in Requests \ {r}
        PROVE  xlock'[q] = xlock[q] /\ slock'[q] = slock[q]
    BY <1>4, <2>1, OthersKeep DEF LockInv
  <2>2. LocksExclusive'
    <3>1. ASSUME NEW q \in Requests \ {r}
          PROVE  /\ xlock'[r] \cap xlock'[q] = {} /\ xlock'[r] \cap slock'[q] = {}
                 /\ xlock'[q] \cap slock'[r] = {}
      <4>1. /\ xlock[r] \cap xlock[q] = {} /\ xlock[r] \cap slock[q] = {}
            /\ xlock[q] \cap slock[r] = {}
        BY DEF LockInv, LocksExclusive
      <4> QED
        BY <1>4, <2>1, <4>1, NewLocks DEF XHeldByOther, SHeldByOther
    <3>2. ASSUME NEW p \in Requests \ {r}, NEW q \in Requests \ {r}, p # q
          PROVE  /\ xlock'[p] \cap xlock'[q] = {} /\ xlock'[p] \cap slock'[q] = {}
      BY <2>1, <3>2 DEF LockInv, LocksExclusive
    <3> QED
      BY <3>1, <3>2 DEF LocksExclusive
  <2>3. LockedAreAdmins'
    <3>1. ASSUME NEW q \in Requests \ {r}, NEW u \in xlock[q]
          PROVE  u \in ActiveAdmins'
      BY <1>4, <3>1, ActiveAdminLost DEF LockInv, LockedAreAdmins
    <3>2. ASSUME NEW u \in xlock'[r]
          PROVE  u \in ActiveAdmins'
      <4>1. u \in ActiveAdmins
        BY <1>4, <3>2, NewLocks DEF LockInv, LockedAreAdmins
      <4>2. CASE u \in xlock[r] /\ u \notin ActiveAdmins'
        <5>1. CASE DeleteCommit(r)
          BY <3>2, <5>1 DEF DeleteCommit, LockInv, TypeOK
        <5>2. CASE req[r].pc \in AdminOps
          BY <4>2, <5>2 DEF LockInv, LockPhase, AdminOps
        <5> QED
          BY <1>4, <4>1, <4>2, <5>1, <5>2, ActiveAdminLost DEF LockInv
      <4> QED
        BY <1>4, <3>2, <4>1, <4>2, NewLocks
    <3> QED
      BY <2>1, <3>1, <3>2 DEF LockedAreAdmins
  <2> QED
    BY <1>1, <2>2, <2>3 DEF LockInv
<1>5. QED
  BY <1>2, <1>3, <1>4 DEF Next, vars, rows, Block, ExpireSession, ActiveAdmins

\* LockedRowsStable holds in every reachable state: no two open transactions
\* hold incompatible row locks, and a locked row stays an active admin.
THEOREM LocksHold == Spec => []LockedRowsStable
<1>1. Init => LockInv
  <2>1. Init => LockPhase /\ LockedAreAdmins /\ LocksExclusive
    BY DEF Init, LockPhase, LockedAreAdmins, LocksExclusive, Idle
  <2> QED
    BY <2>1, TypeInit DEF LockInv
<1>2. LockInv => LockedRowsStable
  BY DEF LockInv, LockPhase, LockedAreAdmins, LocksExclusive,
     LockedRowsStable, At, XHeldByOther, SHeldByOther
<1>3. QED
  BY <1>1, <1>2, LocksStep, PTL DEF Spec

\* The guard of a delete lasts until its commit: the rows it locked cannot
\* stop being active admins, and one of them is not the target.
AdminInv == LockInv /\ DeleteSparesOne /\ AdminRemainsIfGuarded

\* Only delete_user leads a request into the two phases of a delete.
LEMMA DeletesStart ==
  ASSUME TypeOK, NEW r \in Requests, Unforced(r) \/ Step(r),
         ~DeleteGuard(r), ~DeleteEvict(r)
  PROVE  req'[r].pc \notin {"delEvict", "delCommit"}
<1>1. r \in DOMAIN req
  BY DEF TypeOK
<1>2. CASE ArriveAnonymous(r) \/ Respond(r)
  BY <1>2, GotoReads DEF ArriveAnonymous, Respond
<1>3. CASE ArriveWithSession(r) \/ ResolveUser(r) \/ DropSession(r) \/ DispatchBrew(r)
  BY <1>1, <1>3 DEF ArriveWithSession, ResolveUser, DropSession, DispatchBrew,
     Idle
<1>4. CASE Login(r) \/ Refuse(r)
  BY <1>1, <1>4 DEF Login, Refuse, Targeting, Idle
<1>5. CASE DeletePrior(r)
  BY <1>5, GotoReads DEF DeletePrior
<1>6. CASE LoginInsert(r)
  <2>1. CASE Goto(r, "commit")
    BY <2>1, GotoReads
  <2>2. CASE Done(r)
    BY <1>1, <2>2 DEF Done, Idle
  <2> QED
    BY <1>6, <2>1, <2>2 DEF LoginInsert
<1>7. CASE LoadForUpdate(r)
  <2>1. PICK u \in accounts, newAdmin \in BOOLEAN, newPw \in BOOLEAN, newName \in BOOLEAN :
          req' = [req EXCEPT ![r] =
            [Targeting("update", u) EXCEPT !.actor = req[r].actor,
               !.was = u \in admins, !.newAdmin = newAdmin, !.newPw = newPw, !.newName = newName]]
    BY <1>7 DEF LoadForUpdate
  <2> DEFINE q == [Targeting("update", u) EXCEPT !.actor = req[r].actor,
                     !.was = u \in admins, !.newAdmin = newAdmin, !.newPw = newPw, !.newName = newName]
  <2>2. req'[r] = q
    BY <1>1, <2>1
  <2>3. q.pc = "update"
    BY DEF Targeting, Idle
  <2> QED
    BY <2>2, <2>3
<1>8. CASE Dispatch(r)
  <2>1. PICK op \in AdminOps, u \in accounts :
          req' = [req EXCEPT ![r] = [Targeting(op, u) EXCEPT !.actor = req[r].actor]]
    BY <1>8 DEF Dispatch
  <2>2. req'[r].pc = op
    BY <1>1, <2>1 DEF Targeting, Idle
  <2> QED
    BY <2>2 DEF AdminOps
<1>9. CASE SecurityChange(r, req[r].target, "evict")
  BY <1>9 DEF SecurityChange, Targeting, Idle
<1>10. CASE Done(r)
  BY <1>1, <1>10 DEF Done, Idle
<1>11. CASE Fail(r)
  BY <1>11, FailReads
<1> QED
  BY <1>2, <1>3, <1>4, <1>5, <1>6, <1>7, <1>8, <1>9, <1>10, <1>11 DEF Unforced, Step,
     LoginCommit, Logout, Finish, CreateUser, Reject, ToggleAdmin, UpdateUser,
     UpdateConflict, DeactivateUser, ReactivateUser, Evict,
     DeleteCommit, CloseSession, CreateBrew

\* The rows a delete has locked keep sparing one.
LEMMA SparedStep ==
  ASSUME LockInv, DeleteSparesOne, NEW r \in Requests, Unforced(r) \/ Step(r)
  PROVE  DeleteSparesOne'
<1>1. ASSUME NEW q \in Requests, q # r,
             req'[q].pc \in {"delEvict", "delCommit"}, xlock'[q] # {}
      PROVE  xlock'[q] \ {req'[q].target} # {}
  BY <1>1, OthersKeep DEF LockInv, DeleteSparesOne
<1>2. ASSUME req'[r].pc \in {"delEvict", "delCommit"}, xlock'[r] # {}
      PROVE  xlock'[r] \ {req'[r].target} # {}
  <2>1. CASE DeleteGuard(r)
    <3>1. xlock'[r] = ActiveAdmins /\ ~LastAdmin
      BY <1>2, <2>1 DEF DeleteGuard, Allowed, LockInv, TypeOK
    <3> QED
      BY <3>1, GuardLeavesOne DEF LockInv
  <2>2. CASE DeleteEvict(r)
    <3>1. req[r].pc = "delEvict" /\ req'[r].target = req[r].target /\ UNCHANGED xlock
      BY <2>2, GotoReads DEF DeleteEvict, At, LockInv, locks
    <3> QED
      BY <1>2, <3>1 DEF DeleteSparesOne
  <2>3. CASE ~DeleteGuard(r) /\ ~DeleteEvict(r)
    BY <1>2, <2>3, DeletesStart DEF LockInv
  <2> QED
    BY <2>1, <2>2, <2>3
<1> QED
  BY <1>1, <1>2 DEF DeleteSparesOne

\* The history of unguarded deletes is never erased.
LEMMA UnguardedStays ==
  ASSUME NEW r \in Requests, Unforced(r) \/ Step(r), unguarded
  PROVE  unguarded'
<1> USE DEF history
<1>1. CASE Unforced(r) \/ ResolveUser(r) \/ DropSession(r) \/ Login(r) \/ DeletePrior(r)
           \/ LoginInsert(r) \/ LoginCommit(r) \/ Logout(r) \/ Finish(r)
  BY <1>1 DEF Unforced, Fail, StatementFails, EvictFails, DeleteEvictFails,
     ArriveAnonymous, ArriveWithSession, ResolveUser,
     DropSession, Login, DeletePrior, LoginInsert, LoginCommit, Logout, Finish
<1>2. CASE CreateUser(r) \/ Dispatch(r) \/ LoadForUpdate(r) \/ Refuse(r)
           \/ Reject(r) \/ ToggleAdmin(r) \/ UpdateUser(r) \/ UpdateConflict(r)
           \/ DeactivateUser(r) \/ ReactivateUser(r)
  BY <1>2 DEF CreateUser, Dispatch, LoadForUpdate, Refuse, Reject,
     ToggleAdmin, UpdateUser, UpdateConflict, DeactivateUser,
     ReactivateUser
<1>3. CASE Evict(r) \/ DeleteGuard(r) \/ DeleteEvict(r) \/ DeleteCommit(r)
           \/ Respond(r) \/ CloseSession(r) \/ DispatchBrew(r) \/ CreateBrew(r)
  BY <1>3 DEF Evict, DeleteGuard, DeleteEvict, DeleteCommit, Respond,
     CloseSession, DispatchBrew, CreateBrew
<1> QED
  BY <1>1, <1>2, <1>3 DEF Step

\* No step loses the last active admin while every delete was guarded.
LEMMA RemainsStep ==
  ASSUME AdminInv, NEW r \in Requests, Unforced(r) \/ Step(r)
  PROVE  AdminRemainsIfGuarded'
<1>1. CASE unguarded
  <2>1. unguarded'
    BY <1>1, UnguardedStays
  <2> QED
    BY <2>1 DEF AdminRemainsIfGuarded
<1>2. CASE ActiveAdmins \subseteq ActiveAdmins' /\ ~unguarded
  BY <1>2 DEF AdminInv, AdminRemainsIfGuarded, AdminRemains
<1>3. ASSUME NEW u \in ActiveAdmins, u \notin ActiveAdmins', ~unguarded
      PROVE  AdminRemainsIfGuarded'
  <2>1. \A v \in ActiveAdmins : v # u => v \in ActiveAdmins'
    BY <1>3, ActiveAdminLost DEF AdminInv, LockInv
  <2>2. CASE DeleteCommit(r)
    <3>1. u = req[r].target /\ At(r, "delCommit")
      BY <1>3, <2>2, ActiveAdminLost DEF AdminInv, LockInv, DeleteCommit
    <3>2. CASE xlock[r] = {}
      <4>1. u \notin brewed /\ unguarded'
        BY <1>3, <2>2, <3>1, <3>2 DEF DeleteCommit, ActiveAdmins, rows
      <4> QED
        BY <4>1 DEF AdminRemainsIfGuarded
    <3>3. CASE xlock[r] # {}
      <4>1. PICK v \in xlock[r] : v # u
        BY <3>1, <3>3 DEF AdminInv, DeleteSparesOne, At
      <4>2. v \in ActiveAdmins'
        BY <2>1, <4>1 DEF AdminInv, LockInv, LockedAreAdmins
      <4> QED
        BY <4>2 DEF AdminRemainsIfGuarded, AdminRemains
    <3> QED
      BY <3>2, <3>3
  <2>3. CASE ~LastAdmin
    BY <2>1, <2>3, GuardLeavesOne DEF AdminInv, LockInv,
       AdminRemainsIfGuarded, AdminRemains
  <2> QED
    BY <1>3, <2>2, <2>3, ActiveAdminLost DEF AdminInv, LockInv
<1> QED
  BY <1>1, <1>2, <1>3

\* AdminRemainsIfGuarded holds in every reachable state: as long as every
\* delete of an active admin ran the count guard, an active admin remains.
THEOREM GuardKeepsAnAdmin == Spec => []AdminRemainsIfGuarded
<1>1. Init => AdminInv
  <2>1. Init => /\ LockPhase /\ LockedAreAdmins /\ LocksExclusive
                /\ DeleteSparesOne /\ AdminRemainsIfGuarded
    BY DEF Init, LockPhase, LockedAreAdmins, LocksExclusive, DeleteSparesOne,
       AdminRemainsIfGuarded, AdminRemains, ActiveAdmins, Idle
  <2> QED
    BY <2>1, TypeInit DEF AdminInv, LockInv
<1>2. AdminInv /\ [Next]_vars => AdminInv'
  <2> SUFFICES ASSUME AdminInv, [Next]_vars PROVE AdminInv'
    OBVIOUS
  <2>1. LockInv'
    BY LocksStep DEF AdminInv
  <2>2. CASE UNCHANGED <<req, xlock, admins, actives, unguarded>>
    BY <2>1, <2>2 DEF AdminInv, DeleteSparesOne, AdminRemainsIfGuarded,
       AdminRemains, ActiveAdmins
  <2>3. CASE Restart
    BY <2>1, <2>3 DEF AdminInv, DeleteSparesOne, AdminRemainsIfGuarded,
       AdminRemains, ActiveAdmins, Restart, rows
  <2>4. ASSUME NEW r \in Requests, Unforced(r) \/ Step(r)
        PROVE  AdminInv'
    BY <2>1, <2>4, SparedStep, RemainsStep DEF AdminInv
  <2> QED
    BY <2>2, <2>3, <2>4 DEF Next, vars, rows, locks, history, Block,
       ExpireSession
<1>3. QED
  BY <1>1, <1>2, PTL DEF Spec, AdminInv

-----------------------------------------------------------------------------
(* Why suspended requests wait in a circle only when they embrace.  A circle  *)
(* needs somebody who holds users rows and waits: a delete, as everybody else *)
(* has released them or is about to.  That there is no second one to wait for *)
(* is what makes the circle two long: the guard locks every active admin, so  *)
(* two transactions never hold users rows FOR UPDATE at once, not even apart. *)

OneHolder == \A r, q \in Requests : xlock[r] # {} /\ xlock[q] # {} => r = q

\* Only the count guard takes a lock of this kind.
LEMMA OnlyGuardsLock ==
  ASSUME TypeOK, NEW r \in Requests, Unforced(r) \/ Step(r), ~Refuse(r), ~DeleteGuard(r)
  PROVE  xlock'[r] \subseteq xlock[r]
<1>. USE DEF locks
<1>1. r \in DOMAIN xlock BY DEF TypeOK
<1>2. CASE DeleteCommit(r) \/ CloseSession(r)
  BY <1>1, <1>2 DEF DeleteCommit, CloseSession
<1>3. CASE UNCHANGED xlock
  BY <1>3
<1>. QED
  BY <1>2, <1>3 DEF Unforced, Step, Fail, StatementFails, EvictFails, DeleteEvictFails,
     ArriveAnonymous, ArriveWithSession, ResolveUser,
     DropSession, Login, DeletePrior, LoginInsert, LoginCommit, Logout, Finish,
     CreateUser, Dispatch, LoadForUpdate, Reject, ToggleAdmin, UpdateUser,
     UpdateConflict, DeactivateUser, ReactivateUser, Evict, DeleteEvict, Respond,
     DispatchBrew, CreateBrew

\* A guard that takes locks finds no other request with any.
LEMMA HolderStep ==
  ASSUME LockInv, OneHolder, [Next]_vars PROVE OneHolder'
<1>1. CASE UNCHANGED xlock
  BY <1>1 DEF OneHolder
<1>2. CASE Restart
  BY <1>2 DEF OneHolder, Restart
<1>3. ASSUME NEW r \in Requests, Unforced(r) \/ Step(r), xlock' # xlock
      PROVE  OneHolder'
  <2>1. ASSUME NEW q \in Requests, q # r PROVE xlock'[q] = xlock[q]
    BY <1>3, <2>1, OthersKeep DEF LockInv
  <2>2. CASE xlock'[r] \subseteq xlock[r]
    BY <2>1, <2>2 DEF OneHolder
  <2>3. CASE ~(xlock'[r] \subseteq xlock[r])
    <3>0. r \in DOMAIN xlock BY DEF LockInv, TypeOK
    <3>1. (Refuse(r) \/ DeleteGuard(r)) /\ xlock'[r] # {}
      BY <1>3, <2>3, OnlyGuardsLock DEF LockInv
    <3>2. Guarded(r) /\ ~MustWait(r)
      BY <3>0, <3>1 DEF Refuse, DeleteGuard, Allowed, Runs
    <3>3. ~XHeldByOther(r, ActiveAdmins) BY <3>2 DEF MustWait
    <3>4. ASSUME NEW q \in Requests, q # r PROVE xlock[q] = {}
      BY <3>3, <3>4 DEF XHeldByOther, LockInv, LockedAreAdmins
    <3>. QED BY <2>1, <3>4 DEF OneHolder
  <2>. QED BY <2>2, <2>3
<1>. QED
  BY <1>1, <1>2, <1>3 DEF Next, vars, locks, Block, ExpireSession

\* The only request that holds users rows and waits is a delete; whoever waits
\* for a row of sessions waits for a login.
LEMMA CirclesEmbrace ==
  ASSUME LockInv, OneHolder PROVE OnlyEmbraceCycles
<1>. SUFFICES ASSUME NEW S \in SUBSET Requests, S # {},
                     \A r \in S : \E q \in S : WaitsFor(r, q)
              PROVE  Embrace
  BY DEF OnlyEmbraceCycles
<1>1. ASSUME NEW r \in S PROVE req[r].pc \in {"insert", "replace", "drop", "evict", "delEvict"}
  <2>1. PICK q \in S : WaitsFor(r, q) OBVIOUS
  <2>. QED BY <2>1 DEF WaitsFor, ToDelete, At
<1>2. PICK i \in S : At(i, "insert")
  <2>1. PICK r \in S : TRUE OBVIOUS
  <2>2. PICK q \in S : WaitsFor(r, q) OBVIOUS
  <2>3. At(r, "insert") \/ req[q].pc \in {"insert", "commit"} BY <2>2 DEF WaitsFor
  <2>. QED BY <1>1, <2>3 DEF At
<1>3. ASSUME NEW j \in S, At(j, "insert"), NEW d \in S, WaitsFor(j, d)
      PROVE  req[j].target \in xlock[d]
  BY <1>3 DEF WaitsFor, ToDelete, At
<1>4. PICK d \in S : req[i].target \in xlock[d]
  BY <1>2, <1>3
<1>5. At(d, "delEvict")
  BY <1>1, <1>4 DEF LockInv, LockPhase, At
<1>6. PICK l \in S : WaitsFor(d, l) OBVIOUS
<1>7. /\ req[l].pc \in {"insert", "commit"}
      /\ \E s \in SessionsOf(req[d].target) : s.sid = req[l].prior
  BY <1>5, <1>6 DEF WaitsFor, ToDelete, At, SessionsOf
<1>8. At(l, "insert") BY <1>1, <1>7 DEF At
<1>9. PICK e \in S : WaitsFor(l, e) OBVIOUS
<1>10. req[l].target \in xlock[e] BY <1>3, <1>8, <1>9
<1>11. e = d BY <1>4, <1>10 DEF OneHolder
<1>. QED BY <1>5, <1>7, <1>8, <1>10, <1>11 DEF Embrace, Embraced

\* Of the requests that a row lock suspends, no group waits for each other in a
\* circle unless a delete and a login embrace: for any number of users,
\* requests and sessions, so also for circles longer than any instance has.
THEOREM CirclesAreEmbraces == Spec => []OnlyEmbraceCycles
<1>1. Init => LockInv /\ OneHolder
  <2>1. Init => LockPhase /\ LockedAreAdmins /\ LocksExclusive /\ OneHolder
    BY DEF Init, LockPhase, LockedAreAdmins, LocksExclusive, OneHolder, Idle
  <2>. QED BY <2>1, TypeInit DEF LockInv
<1>2. LockInv /\ OneHolder /\ [Next]_vars => (LockInv /\ OneHolder)'
  BY LocksStep, HolderStep
<1>3. LockInv /\ OneHolder => OnlyEmbraceCycles BY CirclesEmbrace
<1>. QED BY <1>1, <1>2, <1>3, PTL DEF Spec
-----------------------------------------------------------------------------
(* A stopped loop.  Three kinds of steps do not need it: a DELETE or INSERT   *)
(* of a login that the server already has, and a pool thread that closes a    *)
(* session.  None of them frees a lock of a coroutine the loop would have to  *)
(* run.                                                                       *)

\* What waits for q is what MustWait calls waiting.
LEMMA StoppedWaits ==
  ASSUME TypeOK, NEW r \in Requests, NEW q \in Requests, StopsAt(r, q)
  PROVE  MustWait(r) /\ req[r].pc \in AdminOps \cup {"delCommit", "brew"}
<1>1. q \in Requests \ {r} BY DEF StopsAt
<1>2. CASE Guarded(r) /\ (xlock[q] \cup slock[q]) \cap ActiveAdmins # {}
  BY <1>1, <1>2 DEF MustWait, XHeldByOther, SHeldByOther, Guarded, AdminOps
<1>3. CASE Writes(r) /\ req[r].target \in xlock[q]
  BY <1>1, <1>3 DEF MustWait, XHeldByOther, Writes, AdminOps
<1>4. CASE At(r, "update") /\ req[r].newName /\ req[r].target \in slock[q]
  BY <1>1, <1>4 DEF MustWait, SHeldByOther, At, AdminOps
<1>5. CASE At(r, "delCommit") /\ req[r].target \in xlock[q] \cup slock[q]
  BY <1>1, <1>5 DEF MustWait, XHeldByOther, SHeldByOther, At
<1>6. CASE /\ At(r, "delCommit") /\ req[q].pc \in {"insert", "commit"}
           /\ \E s \in SessionsOf(req[r].target) : s.sid = req[q].prior
  BY <1>1, <1>6 DEF MustWait, HeldByOther, At
<1>7. CASE At(r, "brew") /\ req[r].actor \in xlock[q]
  BY <1>1, <1>7 DEF MustWait, XHeldByOther, At
<1>. QED BY <1>2, <1>3, <1>4, <1>5, <1>6, <1>7 DEF StopsAt

\* And nothing else is: whoever must wait waits for the transaction of somebody.
LEMMA WaitsAreStopped ==
  ASSUME NEW r \in Requests, MustWait(r)
  PROVE  \E q \in Requests : StopsAt(r, q)
<1>1. CASE Guarded(r) /\ (XHeldByOther(r, ActiveAdmins) \/ SHeldByOther(r, ActiveAdmins))
  BY <1>1 DEF XHeldByOther, SHeldByOther, StopsAt
<1>2. CASE Writes(r) /\ XHeldByOther(r, {req[r].target})
  BY <1>2 DEF XHeldByOther, StopsAt
<1>3. CASE At(r, "update") /\ req[r].newName /\ SHeldByOther(r, {req[r].target})
  BY <1>3 DEF SHeldByOther, StopsAt
<1>4. CASE At(r, "delCommit") /\ (XHeldByOther(r, {req[r].target}) \/ SHeldByOther(r, {req[r].target}))
  BY <1>4 DEF XHeldByOther, SHeldByOther, StopsAt
<1>5. CASE At(r, "delCommit") /\ HeldByOther(r, SessionsOf(req[r].target))
  BY <1>5 DEF HeldByOther, StopsAt
<1>6. CASE At(r, "brew") /\ XHeldByOther(r, {req[r].actor})
  BY <1>6 DEF XHeldByOther, StopsAt
<1>. QED BY <1>1, <1>2, <1>3, <1>4, <1>5, <1>6 DEF MustWait

\* The steps that are left while the statement of b has stopped the loop.
LEMMA StoppedLoop ==
  ASSUME NEW b \in Requests, blocked = b, NEW r \in Requests,
         Unforced(r) \/ Step(r) \/ Block(r)
  PROVE  \/ DeletePrior(r) \/ LoginInsert(r) \/ CloseSession(r)
         \/ r = b /\ ~MustWait(b) /\ blocked' = None
<1>1. ~LoopFree BY NoneIsNoUser DEF LoopFree
<1>2. Runs(r) => r = b /\ ~MustWait(b) /\ blocked' = None
  BY NoneIsNoUser DEF Runs
<1>. QED
  BY <1>1, <1>2 DEF Unforced, Step, Block, Fail, StatementFails, EvictFails, DeleteEvictFails,
     ArriveAnonymous, ArriveWithSession,
     ResolveUser, DropSession, Login, LoginCommit, Logout, Finish, CreateUser,
     Dispatch, LoadForUpdate, Refuse, Reject, Allowed, ToggleAdmin, UpdateUser,
     UpdateConflict, DeactivateUser, ReactivateUser, Evict, DeleteGuard,
     DeleteEvict, DeleteCommit, Respond, DispatchBrew, CreateBrew

\* What a server-side step does to the request that takes it.
LEMMA ServerSide ==
  ASSUME TypeOK, NEW r \in Requests,
         DeletePrior(r) \/ LoginInsert(r) \/ CloseSession(r)
  PROVE  /\ UNCHANGED <<rows, sessions, blocked>>
         /\ req[r].pc \in {"replace", "insert", "closing"}
         /\ At(r, "insert") /\ req[r].target \in accounts =>
              /\ req'[r].pc = "commit" /\ req'[r].prior = req[r].prior
              /\ xlock'[r] = xlock[r] /\ slock'[r] = {req[r].target}
<1>1. r \in DOMAIN req /\ r \in DOMAIN xlock /\ r \in DOMAIN slock BY DEF TypeOK
<1>2. CASE DeletePrior(r)
  BY <1>1, <1>2 DEF DeletePrior, At
<1>3. CASE CloseSession(r)
  BY <1>1, <1>3 DEF CloseSession, At
<1>4. CASE LoginInsert(r)
  <2>1. At(r, "insert") /\ UNCHANGED <<rows, sessions, blocked, xlock>>
    BY <1>4 DEF LoginInsert
  <2>2. ASSUME req[r].target \in accounts
        PROVE  req'[r].pc = "commit" /\ req'[r].prior = req[r].prior /\ slock'[r] = {req[r].target}
    BY <1>1, <1>4, <2>2, GotoReads DEF LoginInsert
  <2>. QED BY <2>1, <2>2 DEF At
<1>. QED BY <1>2, <1>3, <1>4

\* A lock that is waited for is waited for until its holder ends.
LEMMA StopStays ==
  ASSUME NEW r \in Requests, NEW q \in Requests, StopsAt(r, q),
         req'[r].pc = req[r].pc, req'[r].target = req[r].target,
         req'[r].actor = req[r].actor, req'[r].was = req[r].was,
         req'[r].newAdmin = req[r].newAdmin, req'[r].newPw = req[r].newPw,
         req'[r].newName = req[r].newName, UNCHANGED rows,
         xlock'[q] = xlock[q], slock[q] \subseteq slock'[q],
         req[q].pc \in {"insert", "commit"} =>
           /\ req'[q].pc \in {"insert", "commit"} /\ req'[q].prior = req[q].prior
           /\ \A s \in sessions : s.sid = req[q].prior => s \in sessions'
  PROVE  StopsAt(r, q)'
<1>1. (Guarded(r) <=> Guarded(r)') /\ (Writes(r) <=> Writes(r)') /\ ActiveAdmins' = ActiveAdmins
  BY DEF Guarded, Writes, rows, ActiveAdmins
<1>2. CASE Guarded(r) /\ (xlock[q] \cup slock[q]) \cap ActiveAdmins # {}
  BY <1>1, <1>2 DEF StopsAt
<1>3. CASE Writes(r) /\ req[r].target \in xlock[q]
  BY <1>1, <1>3 DEF StopsAt
<1>4. CASE At(r, "update") /\ req[r].newName /\ req[r].target \in slock[q]
  BY <1>4 DEF StopsAt, At
<1>5. CASE At(r, "delCommit") /\ req[r].target \in xlock[q] \cup slock[q]
  BY <1>5 DEF StopsAt, At
<1>6. CASE /\ At(r, "delCommit") /\ req[q].pc \in {"insert", "commit"}
           /\ \E s \in SessionsOf(req[r].target) : s.sid = req[q].prior
  BY <1>6 DEF StopsAt, At, SessionsOf
<1>7. CASE At(r, "brew") /\ req[r].actor \in xlock[q]
  BY <1>7 DEF StopsAt, At
<1>. QED BY <1>2, <1>3, <1>4, <1>5, <1>6, <1>7 DEF StopsAt

\* Nothing but a restart ends a wedge.
LEMMA WedgedStep ==
  ASSUME LockInv, Wedged, [Next]_vars, restarts' = restarts
  PROVE  Wedged'
<1>1. PICK b, q \in Requests : blocked = b /\ StopsAt(b, q) /\ NeedsLoop(q)
  BY DEF Wedged
<1>2. /\ MustWait(b) /\ req[b].pc \in AdminOps \cup {"delCommit", "brew"}
      /\ TypeOK /\ b # q
  BY <1>1, StoppedWaits DEF LockInv, StopsAt
<1>3. ~Restart
  BY <1>2 DEF Restart, TypeOK
<1>4. CASE UNCHANGED vars
  BY <1>4 DEF Wedged, StopsAt, NeedsLoop, Guarded, Writes, ActiveAdmins, At, SessionsOf,
     vars, rows, locks
<1>5. CASE ExpireSession
  <2>1. UNCHANGED <<rows, req, locks, blocked>> BY <1>5 DEF ExpireSession
  <2>2. ASSUME req[q].pc \in {"insert", "commit"}, NEW s \in sessions, s.sid = req[q].prior
        PROVE  s \in sessions'
    <3>1. PICK t \in sessions : sessions' = sessions \ {t} /\ \A p \in Requests : ~HeldByOther(p, {t})
      BY <1>5 DEF ExpireSession
    <3>2. s # t BY <1>2, <2>2, <3>1 DEF HeldByOther
    <3>. QED BY <3>1, <3>2
  <2>3. StopsAt(b, q)' BY <1>1, <2>1, <2>2, StopStays DEF locks
  <2>4. NeedsLoop(q)' BY <1>1, <2>1 DEF NeedsLoop, At, rows
  <2>. QED BY <1>1, <2>1, <2>3, <2>4 DEF Wedged
<1>6. ASSUME NEW r \in Requests, Unforced(r) \/ Step(r) \/ Block(r)
      PROVE  Wedged'
  <2>1. DeletePrior(r) \/ LoginInsert(r) \/ CloseSession(r)
    BY <1>1, <1>2, <1>6, StoppedLoop
  <2>2. /\ UNCHANGED <<rows, sessions, blocked>> /\ r # b
        /\ req[r].pc \in {"replace", "insert", "closing"}
    BY <1>2, <2>1, ServerSide DEF AdminOps
  <2>3. UNCHANGED req[b]
    <3>1. CASE DeletePrior(r) BY <1>2, <2>2, <3>1 DEF DeletePrior, Goto, TypeOK
    <3>2. CASE LoginInsert(r) BY <1>2, <2>2, <3>2 DEF LoginInsert, Goto, Done, TypeOK
    <3>3. CASE CloseSession(r) BY <1>2, <2>2, <3>3 DEF CloseSession, Done, TypeOK
    <3>. QED BY <2>1, <3>1, <3>2, <3>3
  <2>4. CASE r = q
    <3>1. At(q, "insert") /\ req[q].target \in accounts
      BY <1>1, <2>2, <2>4 DEF NeedsLoop, At
    <3>2. /\ req'[q].pc = "commit" /\ req'[q].prior = req[q].prior
          /\ xlock'[q] = xlock[q]
      BY <1>2, <2>1, <2>4, <3>1, ServerSide
    <3>3. slock[q] = {} BY <3>1 DEF LockInv, LockPhase, At
    <3>4. StopsAt(b, q)' BY <1>1, <2>2, <2>3, <3>2, <3>3, StopStays
    <3>5. NeedsLoop(q)' BY <3>2 DEF NeedsLoop
    <3>. QED BY <1>1, <2>2, <3>4, <3>5 DEF Wedged
  <2>5. CASE r # q
    <3>1. /\ req'[q].pc = req[q].pc /\ req'[q].target = req[q].target
          /\ req'[q].prior = req[q].prior
          /\ xlock'[q] = xlock[q] /\ slock'[q] = slock[q]
      BY <1>2, <1>6, <2>5, OthersKeep
    <3>2. StopsAt(b, q)' BY <1>1, <2>2, <2>3, <3>1, StopStays
    <3>3. NeedsLoop(q)' BY <1>1, <2>2, <3>1 DEF NeedsLoop, At, rows
    <3>. QED BY <1>1, <2>2, <3>2, <3>3 DEF Wedged
  <2>. QED BY <2>4, <2>5
<1>. QED BY <1>3, <1>4, <1>5, <1>6 DEF Next
-----------------------------------------------------------------------------
(* Session ids.  A uuid names one committed row or one login on its way, and  *)
(* no other request refers to the id of a login that has not committed.       *)

LoginPcs == {"replace", "insert", "commit"}

SidsIssued ==
  /\ \A s \in sessions : s.sid \in spent
  /\ \A r \in Requests : {req[r].sid, req[r].prior} \subseteq spent \cup {None}

LoginsFresh ==
  \A r \in Requests : req[r].pc \in LoginPcs =>
    /\ req[r].sid # None
    /\ \A s \in sessions : s.sid # req[r].sid
    /\ \A q \in Requests : req[q].prior # req[r].sid /\ (q # r => req[q].sid # req[r].sid)

\* Of two logins that replace the same row, one at most holds it.
PriorsApart ==
  \A p, q \in Requests : \A s \in sessions :
    /\ req[p].pc \in {"insert", "commit"} /\ req[p].prior = s.sid
    /\ req[q].pc \in {"insert", "commit"} /\ req[q].prior = s.sid
    => p = q

OneRowPerSid == \A s, t \in sessions : s.sid = t.sid => s = t

SidInv == SidsIssued /\ LoginsFresh /\ PriorsApart /\ OneRowPerSid

\* What a step makes of the ids that a request carries.
LEMMA SidsCarried ==
  ASSUME TypeOK, NEW r \in Requests, Unforced(r) \/ Step(r) \/ Block(r), ~Login(r)
  PROVE  /\ \/ req'[r].sid = None
            \/ req'[r].sid = req[r].sid
            \/ req'[r].pc \notin LoginPcs /\ \E s \in sessions : req'[r].sid = s.sid
         /\ req'[r].prior \in {None, req[r].prior}
         /\ req'[r].pc \in LoginPcs =>
              /\ req[r].pc \in LoginPcs /\ req'[r].sid = req[r].sid
              /\ req'[r].prior = req[r].prior
<1>1. r \in DOMAIN req BY DEF TypeOK
<1>. USE DEF LoginPcs
<1>2. CASE ArriveAnonymous(r) \/ Respond(r)
  BY <1>2, GotoReads DEF ArriveAnonymous, Respond
<1>3. CASE ArriveWithSession(r)
  <2>1. PICK s \in sessions :
          req' = [req EXCEPT ![r] = [Idle EXCEPT !.pc = "resolve", !.sid = s.sid,
                                                 !.target = s.user]]
    BY <1>3 DEF ArriveWithSession
  <2>. QED BY <1>1, <2>1 DEF Idle
<1>4. CASE ResolveUser(r) \/ DropSession(r) \/ DispatchBrew(r)
  BY <1>1, <1>4 DEF ResolveUser, DropSession, DispatchBrew, Idle
<1>5. CASE DeletePrior(r) \/ DeleteEvict(r)
  BY <1>5, GotoReads DEF DeletePrior, DeleteEvict, At
<1>6. CASE Done(r)
  BY <1>1, <1>6 DEF Done, Idle
<1>7. CASE LoginInsert(r)
  <2>1. At(r, "insert") /\ (Goto(r, "commit") \/ Done(r)) BY <1>7 DEF LoginInsert
  <2>. QED BY <1>6, <2>1, GotoReads DEF At
<1>8. CASE Dispatch(r)
  <2>1. PICK op \in AdminOps, u \in accounts :
          req' = [req EXCEPT ![r] = [Targeting(op, u) EXCEPT !.actor = req[r].actor]]
    BY <1>8 DEF Dispatch
  <2>. QED BY <1>1, <2>1 DEF Targeting, Idle, AdminOps
<1>9. CASE LoadForUpdate(r)
  <2>1. PICK u \in accounts, newAdmin \in BOOLEAN, newPw \in BOOLEAN, newName \in BOOLEAN :
          req' = [req EXCEPT ![r] =
            [Targeting("update", u) EXCEPT !.actor = req[r].actor,
               !.was = u \in admins, !.newAdmin = newAdmin, !.newPw = newPw, !.newName = newName]]
    BY <1>9 DEF LoadForUpdate
  <2> DEFINE q == [Targeting("update", u) EXCEPT !.actor = req[r].actor,
                     !.was = u \in admins, !.newAdmin = newAdmin, !.newPw = newPw, !.newName = newName]
  <2>2. req'[r] = q BY <1>1, <2>1
  <2>3. q.pc = "update" /\ q.sid = None /\ q.prior = None BY DEF Targeting, Idle
  <2>. QED BY <2>2, <2>3
<1>10. CASE SecurityChange(r, req[r].target, "evict")
  BY <1>10 DEF SecurityChange, Targeting, Idle
<1>11. CASE Refuse(r)
  BY <1>1, <1>11 DEF Refuse, Targeting, Idle
<1>12. CASE DeleteGuard(r)
  BY <1>1, <1>12 DEF DeleteGuard, Targeting, Idle
<1>13. CASE Block(r)
  BY <1>13 DEF Block
<1>14. CASE Fail(r)
  BY <1>14, FailReads
<1>. QED
  BY <1>14, <1>2, <1>3, <1>4, <1>5, <1>6, <1>7, <1>8, <1>9, <1>10, <1>11, <1>12, <1>13
     DEF Unforced, Step, LoginCommit, Logout, Finish, CreateUser, Reject, ToggleAdmin,
     UpdateUser, UpdateConflict, DeactivateUser, ReactivateUser, Evict,
     DeleteCommit, CloseSession, CreateBrew

\* A step that commits no login brings no new row: each row it leaves was there,
\* and at most one comes from each.
LEMMA NoNewRows ==
  ASSUME TypeOK, NEW r \in Requests, Unforced(r) \/ Step(r) \/ Block(r), ~LoginCommit(r)
  PROVE  /\ \A t \in sessions' : \E s \in sessions : t.sid = s.sid
         /\ OneRowPerSid => OneRowPerSid'
<1>1. CASE sessions' \subseteq sessions
  BY <1>1 DEF OneRowPerSid
<1>2. CASE SecurityChange(r, req[r].target, "evict")
  <2> DEFINE Out(s) == IF s.user = req[r].target THEN [s EXCEPT !.outdated = TRUE] ELSE s
  <2>1. ASSUME NEW s \in sessions PROVE Out(s).sid = s.sid
    BY DEF TypeOK, SessionRow
  <2>2. sessions' = {Out(s) : s \in sessions}
    BY <1>2 DEF SecurityChange
  <2>. HIDE DEF Out
  <2>3. ASSUME NEW t \in sessions' PROVE \E s \in sessions : t = Out(s) /\ t.sid = s.sid
    BY <2>1, <2>2
  <2>4. ASSUME OneRowPerSid, NEW t \in sessions', NEW v \in sessions', t.sid = v.sid
        PROVE  t = v
    BY <2>3, <2>4 DEF OneRowPerSid
  <2>. QED BY <2>3, <2>4 DEF OneRowPerSid
<1>3. CASE Evict(r)
  <2>1. sessions' \subseteq sessions
    BY <1>3 DEF Evict, SessionsOf
  <2>. QED BY <1>1, <2>1
<1>4. CASE DropSession(r) \/ Logout(r) \/ DeleteEvict(r) \/ DeleteCommit(r)
  BY <1>1, <1>4 DEF DropSession, Logout, DeleteEvict, DeleteCommit
<1>5. CASE UpdateUser(r)
  BY <1>1, <1>2, <1>5 DEF UpdateUser
<1>. QED
  BY <1>1, <1>2, <1>3, <1>4, <1>5 DEF Unforced, Step, Block, Fail, StatementFails, EvictFails, DeleteEvictFails,
     ArriveAnonymous,
     ArriveWithSession, ResolveUser, Login, DeletePrior, LoginInsert, Finish, CreateUser,
     Dispatch, LoadForUpdate, Refuse, Reject, ToggleAdmin, UpdateConflict,
     DeactivateUser, ReactivateUser, DeleteGuard, Respond, CloseSession,
     DispatchBrew, CreateBrew

\* Only a login spends an id.
LEMMA SpentGrows ==
  ASSUME NEW r \in Requests, Unforced(r) \/ Step(r) \/ Block(r)
  PROVE  spent \subseteq spent' /\ (~Login(r) => spent' = spent)
<1>1. CASE Login(r)
  BY <1>1 DEF Login
<1>. QED
  BY <1>1 DEF Unforced, Step, Block, Fail, StatementFails, EvictFails, DeleteEvictFails,
     ArriveAnonymous, ArriveWithSession, ResolveUser,
     DropSession, DeletePrior, LoginInsert, LoginCommit, Logout, Finish, CreateUser,
     Dispatch, LoadForUpdate, Refuse, Reject, ToggleAdmin, UpdateUser, UpdateConflict,
     DeactivateUser, ReactivateUser, Evict, DeleteGuard, DeleteEvict, DeleteCommit,
     Respond, CloseSession, DispatchBrew, CreateBrew
\* The ids stay apart when a request that is not at its commit moves.
LEMMA SidsStep ==
  ASSUME TypeOK, RequestKnows, SidInv, NEW r \in Requests,
         Unforced(r) \/ Step(r) \/ Block(r)
  PROVE  SidsIssued' /\ LoginsFresh'
<1>0. r \in DOMAIN req /\ spent \subseteq Sids /\ None \notin Sids
  BY NoneIsNoUser DEF TypeOK
<1>1. ASSUME NEW q \in Requests, q # r
      PROVE  req'[q].pc = req[q].pc /\ req'[q].sid = req[q].sid /\ req'[q].prior = req[q].prior
  BY <1>1, OthersKeep
<1>2. CASE Login(r)
  <2>1. PICK u \in accounts \cap actives, s \in Sids \ spent :
          /\ spent' = spent \cup {s}
          /\ req' = [req EXCEPT ![r] = [Idle EXCEPT !.sid = s, !.target = u,
                       !.pc = IF req[r].actor = None THEN "insert" ELSE "replace",
                       !.prior = IF req[r].actor = None THEN None ELSE req[r].sid]]
    BY <1>2 DEF Login
  <2>2. /\ req'[r].sid = s /\ req'[r].prior \in {None, req[r].sid} /\ UNCHANGED sessions
        /\ At(r, "handler")
    BY <1>0, <1>2, <2>1 DEF Login, Idle
  <2>3. s # None BY <1>0
  <2>4. SidsIssued'
    BY <1>1, <2>1, <2>2 DEF SidInv, SidsIssued
  <2>5. ASSUME NEW q \in Requests PROVE req[q].sid # s /\ req[q].prior # s
    BY <2>1, <2>3 DEF SidInv, SidsIssued
  <2>6. ASSUME NEW t \in sessions PROVE t.sid # s
    BY <2>1 DEF SidInv, SidsIssued
  <2>7. ASSUME NEW q \in Requests, q # r, req[q].pc \in LoginPcs
        PROVE  req[q].sid # None /\ req[q].sid # req[r].sid
    BY <2>7 DEF SidInv, LoginsFresh
  <2>8. ASSUME NEW q \in Requests, req'[q].pc \in LoginPcs
        PROVE  /\ req'[q].sid # None
               /\ \A t \in sessions' : t.sid # req'[q].sid
               /\ \A p \in Requests : req'[p].prior # req'[q].sid /\ (p # q => req'[p].sid # req'[q].sid)
    <3>1. CASE q = r
      <4>1. ASSUME NEW p \in Requests, p # r PROVE req'[p].prior # s /\ req'[p].sid # s
        BY <1>1, <2>5, <4>1
      <4>2. req'[r].prior # s BY <2>2, <2>3, <2>5
      <4>. QED BY <2>2, <2>3, <2>6, <3>1, <4>1, <4>2
    <3>2. CASE q # r
      <4>1. req[q].pc \in LoginPcs /\ req'[q].sid = req[q].sid BY <1>1, <2>8, <3>2
      <4>2. /\ req[q].sid # None /\ \A t \in sessions : t.sid # req[q].sid
            /\ \A p \in Requests : req[p].prior # req[q].sid /\ (p # q => req[p].sid # req[q].sid)
        BY <4>1 DEF SidInv, LoginsFresh
      <4>3. ASSUME NEW p \in Requests, p # r
            PROVE  req'[p].prior # req[q].sid /\ (p # q => req'[p].sid # req[q].sid)
        BY <1>1, <4>2, <4>3
      <4>4. req'[r].prior # req[q].sid /\ req'[r].sid # req[q].sid
        BY <2>2, <2>5, <2>7, <3>2, <4>1
      <4>. QED BY <2>2, <4>1, <4>2, <4>3, <4>4
    <3>. QED BY <3>1, <3>2
  <2>9. LoginsFresh' BY <2>8 DEF LoginsFresh, LoginPcs
  <2>. QED BY <2>4, <2>9
<1>3. CASE ~Login(r)
  <2>1. spent' = spent BY <1>3, SpentGrows
  <2>2. /\ \/ req'[r].sid = None \/ req'[r].sid = req[r].sid
           \/ req'[r].pc \notin LoginPcs /\ \E s \in sessions : req'[r].sid = s.sid
        /\ req'[r].prior \in {None, req[r].prior}
        /\ req'[r].pc \in LoginPcs =>
             /\ req[r].pc \in LoginPcs /\ req'[r].sid = req[r].sid
             /\ req'[r].prior = req[r].prior
    BY <1>3, SidsCarried
  <2>3. ASSUME NEW t \in sessions'
        PROVE  \/ \E s \in sessions : t.sid = s.sid
               \/ At(r, "commit") /\ LoginCommit(r) /\ t.sid = req[r].sid /\ req'[r].pc = "idle"
    <3>1. CASE LoginCommit(r)
      BY <1>0, <2>3, <3>1 DEF LoginCommit, Done, Idle
    <3>2. CASE ~LoginCommit(r)
      BY <2>3, <3>2, NoNewRows
    <3>. QED BY <3>1, <3>2
  <2>4. SidsIssued'
    <3>1. ASSUME NEW t \in sessions' PROVE t.sid \in spent
      <4>1. ASSUME At(r, "commit"), t.sid = req[r].sid PROVE t.sid \in spent
        BY <4>1 DEF SidInv, SidsIssued, LoginsFresh, LoginPcs, At
      <4>. QED BY <2>3, <4>1 DEF SidInv, SidsIssued
    <3>2. ASSUME NEW q \in Requests PROVE {req'[q].sid, req'[q].prior} \subseteq spent \cup {None}
      BY <1>1, <2>2 DEF SidInv, SidsIssued
    <3>. QED BY <2>1, <3>1, <3>2 DEF SidsIssued
  <2>5. ASSUME NEW q \in Requests, req'[q].pc \in LoginPcs
        PROVE  /\ req'[q].sid # None
               /\ \A t \in sessions' : t.sid # req'[q].sid
               /\ \A p \in Requests : req'[p].prior # req'[q].sid /\ (p # q => req'[p].sid # req'[q].sid)
    <3>1. req[q].pc \in LoginPcs /\ req'[q].sid = req[q].sid BY <1>1, <2>2, <2>5
    <3>2. /\ req[q].sid # None /\ \A t \in sessions : t.sid # req[q].sid
          /\ \A p \in Requests : req[p].prior # req[q].sid /\ (p # q => req[p].sid # req[q].sid)
      BY <3>1 DEF SidInv, LoginsFresh
    <3>3. ASSUME NEW t \in sessions' PROVE t.sid # req[q].sid
      <4>1. ASSUME At(r, "commit"), t.sid = req[r].sid, req'[r].pc = "idle" PROVE t.sid # req[q].sid
        BY <2>5, <3>2, <4>1 DEF LoginPcs
      <4>. QED BY <2>3, <3>2, <4>1
    <3>4. ASSUME NEW p \in Requests
          PROVE  req'[p].prior # req[q].sid /\ (p # q => req'[p].sid # req[q].sid)
      BY <1>1, <2>2, <3>2
    <3>. QED BY <3>1, <3>2, <3>3, <3>4
  <2>6. LoginsFresh' BY <2>5 DEF LoginsFresh, LoginPcs
  <2>. QED BY <2>4, <2>6
<1>. QED BY <1>2, <1>3

\* A suspended login, replacing a row or inserting one, has one step to take if its
\* statement does not fail, and so has a delete that awaits its eviction.
LEMMA SuspendedSteps ==
  ASSUME NEW r \in Requests, Unforced(r) \/ Step(r) \/ Block(r), ~Fail(r)
  PROVE  /\ At(r, "replace") => DeletePrior(r)
         /\ At(r, "insert") => LoginInsert(r)
         /\ At(r, "delEvict") => DeleteEvict(r)
<1>. SUFFICES ASSUME req[r].pc \in {"replace", "insert", "delEvict"}
              PROVE  DeletePrior(r) \/ LoginInsert(r) \/ DeleteEvict(r)
  BY DEF At, DeletePrior, LoginInsert, DeleteEvict
<1>1. ~Block(r)
  BY DEF Block, MustWait, Guarded, Writes, At
<1>2. ~Refuse(r) /\ ~Reject(r)
  BY DEF Refuse, Reject, Guarded, AdminOps
<1>3. /\ ~Unforced(r) /\ ~ResolveUser(r) /\ ~DropSession(r) /\ ~Login(r) /\ ~LoginCommit(r)
      /\ ~Logout(r) /\ ~Finish(r) /\ ~CreateUser(r) /\ ~Dispatch(r) /\ ~LoadForUpdate(r)
  BY DEF Unforced, At, ArriveAnonymous, ArriveWithSession, ResolveUser, DropSession, Login,
     LoginCommit, Logout, Finish, CreateUser, Dispatch, LoadForUpdate
<1>4. /\ ~ToggleAdmin(r) /\ ~UpdateUser(r) /\ ~UpdateConflict(r) /\ ~DeactivateUser(r)
      /\ ~ReactivateUser(r) /\ ~Evict(r) /\ ~DeleteGuard(r) /\ ~DeleteCommit(r)
  BY DEF At, ToggleAdmin, UpdateUser, UpdateConflict, DeactivateUser, ReactivateUser,
     Evict, DeleteGuard, DeleteCommit
<1>5. ~Respond(r) /\ ~CloseSession(r) /\ ~DispatchBrew(r) /\ ~CreateBrew(r)
  BY DEF At, Respond, CloseSession, DispatchBrew, CreateBrew
<1>. QED
  BY <1>1, <1>2, <1>3, <1>4, <1>5 DEF Step

\* Whoever comes to hold the row it replaces ran the DELETE that waits for others.
LEMMA HoldsByDelete ==
  ASSUME TypeOK, NEW r \in Requests, Unforced(r) \/ Step(r) \/ Block(r),
         req'[r].pc \in {"insert", "commit"}
  PROVE  \/ req'[r].prior = None
         \/ /\ req'[r].prior = req[r].prior
            /\ req[r].pc \in {"insert", "commit"} \/ DeletePrior(r)
<1>1. CASE Login(r)
  <2>1. PICK u \in accounts \cap actives, s \in Sids \ spent :
          req' = [req EXCEPT ![r] = [Idle EXCEPT !.sid = s, !.target = u,
                       !.pc = IF req[r].actor = None THEN "insert" ELSE "replace",
                       !.prior = IF req[r].actor = None THEN None ELSE req[r].sid]]
    BY <1>1 DEF Login
  <2>2. r \in DOMAIN req BY DEF TypeOK
  <2>. QED BY <2>1, <2>2 DEF Idle
<1>2. CASE ~Login(r)
  <2>1. req[r].pc \in LoginPcs /\ req'[r].prior = req[r].prior
    BY <1>2, SidsCarried DEF LoginPcs
  <2>2. ~Fail(r) BY FailReads
  <2>. QED BY <2>1, <2>2, SuspendedSteps DEF LoginPcs, At
<1>. QED BY <1>1, <1>2

\* One transaction at most holds a row of sessions, and no id is used twice.
LEMMA HoldersApart ==
  ASSUME TypeOK, RequestKnows, SidInv, NEW r \in Requests,
         Unforced(r) \/ Step(r) \/ Block(r)
  PROVE  PriorsApart' /\ OneRowPerSid'
<1>0. r \in DOMAIN req BY DEF TypeOK
<1>1. ASSUME NEW q \in Requests, q # r
      PROVE  req'[q].pc = req[q].pc /\ req'[q].prior = req[q].prior
  BY <1>1, OthersKeep
<1>2. ASSUME NEW t \in sessions', NEW p \in Requests, req'[p].prior = t.sid,
             req'[p].pc \in {"insert", "commit"}
      PROVE  \E s \in sessions : s.sid = t.sid
  <2>1. CASE LoginCommit(r)
    <3>1. At(r, "commit") /\ req'[r].pc = "idle" BY <1>0, <2>1 DEF LoginCommit, Done, Idle
    <3>2. p # r BY <1>2, <3>1
    <3>3. req[p].prior # req[r].sid
      BY <3>1 DEF SidInv, LoginsFresh, LoginPcs, At
    <3>4. t \in sessions \/ t.sid = req[r].sid BY <2>1 DEF LoginCommit
    <3>. QED BY <1>1, <1>2, <3>2, <3>3, <3>4
  <2>2. CASE ~LoginCommit(r)
    BY <2>2, NoNewRows
  <2>. QED BY <2>1, <2>2
<1>3. ASSUME NEW s \in sessions PROVE s.sid # None
  BY NoneIsNoUser DEF TypeOK, SessionRow
<1>4. ASSUME NEW q \in Requests, q # r, NEW t \in sessions',
             req'[r].pc \in {"insert", "commit"}, req'[r].prior = t.sid,
             req'[q].pc \in {"insert", "commit"}, req'[q].prior = t.sid
      PROVE  FALSE
  <2>1. PICK s \in sessions : s.sid = t.sid BY <1>2, <1>4
  <2>2. req[q].pc \in {"insert", "commit"} /\ req[q].prior = s.sid BY <1>1, <1>4, <2>1
  <2>3. req'[r].prior = s.sid /\ s.sid # None BY <1>3, <1>4, <2>1
  <2>4. /\ req[r].prior = s.sid
        /\ req[r].pc \in {"insert", "commit"} \/ DeletePrior(r)
    BY <1>4, <2>3, HoldsByDelete
  <2>5. CASE DeletePrior(r)
    BY <1>4, <2>2, <2>4, <2>5 DEF DeletePrior, HeldByOther
  <2>6. CASE req[r].pc \in {"insert", "commit"}
    BY <1>4, <2>2, <2>4, <2>6 DEF SidInv, PriorsApart
  <2>. QED BY <2>4, <2>5, <2>6
<1>5. ASSUME NEW p \in Requests, NEW q \in Requests, p # q, p # r, q # r, NEW t \in sessions',
             req'[p].pc \in {"insert", "commit"}, req'[p].prior = t.sid,
             req'[q].pc \in {"insert", "commit"}, req'[q].prior = t.sid
      PROVE  FALSE
  <2>1. PICK s \in sessions : s.sid = t.sid BY <1>2, <1>5
  <2>. QED BY <1>1, <1>5, <2>1 DEF SidInv, PriorsApart
<1>6. PriorsApart' BY <1>4, <1>5 DEF PriorsApart
<1>7. OneRowPerSid'
  <2>1. CASE LoginCommit(r)
    <3>1. \A s \in sessions : s.sid # req[r].sid
      BY <2>1 DEF LoginCommit, At, SidInv, LoginsFresh, LoginPcs
    <3> DEFINE new == [sid |-> req[r].sid, user |-> req[r].target, outdated |-> FALSE,
                       raced |-> req[r].raced]
    <3>2. new.sid = req[r].sid OBVIOUS
    <3>3. ASSUME NEW t \in sessions' PROVE t \in sessions \/ t = new
      BY <2>1 DEF LoginCommit
    <3>. HIDE DEF new
    <3>. QED BY <3>1, <3>2, <3>3 DEF SidInv, OneRowPerSid
  <2>2. CASE ~LoginCommit(r)
    BY <2>2, NoNewRows DEF SidInv
  <2>. QED BY <2>1, <2>2
<1>. QED BY <1>6, <1>7

\* SidInv is inductive.
LEMMA SidsApartStep ==
  ASSUME TypeOK, RequestKnows, SidInv, [Next]_vars PROVE SidInv'
<1>1. CASE UNCHANGED <<req, sessions, spent>>
  BY <1>1 DEF SidInv, SidsIssued, LoginsFresh, PriorsApart, OneRowPerSid
<1>2. CASE ExpireSession
  BY <1>2 DEF ExpireSession, SidInv, SidsIssued, LoginsFresh, PriorsApart, OneRowPerSid
<1>3. CASE Restart
  BY <1>3 DEF Restart, Idle, SidInv, SidsIssued, LoginsFresh, PriorsApart, OneRowPerSid,
     LoginPcs
<1>4. ASSUME NEW r \in Requests, Unforced(r) \/ Step(r) \/ Block(r) PROVE SidInv'
  BY <1>4, SidsStep, HoldersApart DEF SidInv
<1>. QED BY <1>1, <1>2, <1>3, <1>4 DEF Next, vars

LEMMA SidsInit == Init => SidInv
  BY DEF Init, Idle, SidInv, SidsIssued, LoginsFresh, PriorsApart, OneRowPerSid, LoginPcs

\* A row of sessions that a login holds stays until that login ends it.
LEMMA HeldRowStays ==
  ASSUME TypeOK, SidInv, NEW r \in Requests, Unforced(r) \/ Step(r) \/ Block(r),
         NEW l \in Requests, l # r, req[l].pc \in {"insert", "commit"},
         NEW s \in sessions, s.sid = req[l].prior
  PROVE  \E t \in sessions' : t.sid = s.sid /\ t.user = s.user
<1>1. ASSUME NEW S, s \in S PROVE HeldByOther(r, S)
  BY <1>1 DEF HeldByOther
<1>2. CASE s \in sessions' BY <1>2
<1>3. CASE SecurityChange(r, req[r].target, "evict")
  <2> DEFINE Out(x) == IF x.user = req[r].target THEN [x EXCEPT !.outdated = TRUE] ELSE x
  <2>1. Out(s).sid = s.sid /\ Out(s).user = s.user
    BY DEF TypeOK, SessionRow
  <2>2. sessions' = {Out(x) : x \in sessions}
    BY <1>3 DEF SecurityChange
  <2>3. Out(s) \in sessions' BY <2>2
  <2>. QED BY <2>1, <2>3
<1>4. CASE DropSession(r) \/ Logout(r)
  <2>1. s.sid # req[r].sid BY <1>1, <1>4 DEF DropSession, Logout
  <2>. QED BY <1>2, <1>4, <2>1 DEF DropSession, Logout
<1>5. CASE LoginCommit(r)
  <2>1. s.sid # req[r].prior BY <1>5 DEF LoginCommit, At, SidInv, PriorsApart
  <2>. QED BY <1>2, <1>5, <2>1 DEF LoginCommit
<1>6. CASE Evict(r) \/ DeleteEvict(r)
  <2>1. s \notin SessionsOf(req[r].target) BY <1>1, <1>6 DEF Evict, DeleteEvict
  <2>. QED BY <1>2, <1>6, <2>1 DEF Evict, DeleteEvict
<1>7. CASE DeleteCommit(r)
  <2>1. ~HeldByOther(r, SessionsOf(req[r].target)) BY <1>7 DEF DeleteCommit, Runs, MustWait
  <2>2. s \notin SessionsOf(req[r].target) BY <1>1, <2>1
  <2>. QED BY <1>2, <1>7, <2>2 DEF DeleteCommit
<1>8. CASE UpdateUser(r)
  BY <1>2, <1>3, <1>8 DEF UpdateUser
<1>. QED
  BY <1>2, <1>3, <1>4, <1>5, <1>6, <1>7, <1>8 DEF Unforced, Step, Block, Fail, StatementFails, EvictFails, DeleteEvictFails,
     ArriveAnonymous,
     ArriveWithSession, ResolveUser, Login, DeletePrior, LoginInsert, Finish, CreateUser,
     Dispatch, LoadForUpdate, Refuse, Reject, ToggleAdmin, UpdateConflict,
     DeactivateUser, ReactivateUser, DeleteGuard, Respond, CloseSession,
     DispatchBrew, CreateBrew

\* Each of two that embrace can only fail or take the step that waits for the
\* other, and nobody else touches the row and the lock.
LEMMA EmbraceStep ==
  ASSUME LockInv, SidInv, NEW d \in Requests, NEW l \in Requests, Embraced(d, l),
         [Next]_vars, restarts' = restarts
  PROVE  Embraced(d, l)' \/ Fail(d) \/ Fail(l)
<1>. SUFFICES ASSUME ~Fail(d), ~Fail(l) PROVE Embraced(d, l)'
  OBVIOUS
<1>1. /\ At(d, "delEvict") /\ At(l, "insert") /\ req[l].target \in xlock[d]
      /\ \E s \in SessionsOf(req[d].target) : s.sid = req[l].prior
  BY DEF Embraced
<1>2. PICK s \in SessionsOf(req[d].target) : s.sid = req[l].prior BY <1>1
<1>3. d # l /\ s \in sessions /\ s.user = req[d].target BY <1>1, <1>2 DEF At, SessionsOf
<1>4. ASSUME NEW t \in sessions', t.sid = s.sid, t.user = s.user,
             req'[d].pc = req[d].pc, req'[d].target = req[d].target, xlock'[d] = xlock[d],
             req'[l].pc = req[l].pc, req'[l].target = req[l].target,
             req'[l].prior = req[l].prior
      PROVE  Embraced(d, l)'
  BY <1>1, <1>2, <1>3, <1>4 DEF Embraced, At, SessionsOf
<1>5. CASE UNCHANGED <<req, xlock, sessions>>
  BY <1>3, <1>4, <1>5
<1>6. CASE ExpireSession
  <2>1. UNCHANGED <<req, xlock>> BY <1>6 DEF ExpireSession, locks
  <2>2. PICK t \in sessions : sessions' = sessions \ {t} /\ \A p \in Requests : ~HeldByOther(p, {t})
    BY <1>6 DEF ExpireSession
  <2>3. s # t BY <1>1, <1>2, <1>3, <2>2 DEF HeldByOther, At
  <2>. QED BY <1>3, <1>4, <2>1, <2>2, <2>3
<1>7. CASE Restart
  BY <1>7 DEF Restart, LockInv, TypeOK
<1>8. ASSUME NEW r \in Requests, Unforced(r) \/ Step(r) \/ Block(r)
      PROVE  Embraced(d, l)'
  <2>1. r # d
    <3>1. SUFFICES ASSUME DeleteEvict(d) PROVE FALSE BY <1>1, <1>8, SuspendedSteps
    <3>. QED BY <1>1, <1>2, <1>3, <3>1 DEF DeleteEvict, HeldByOther, At
  <2>2. r # l
    <3>1. SUFFICES ASSUME LoginInsert(l) PROVE FALSE BY <1>1, <1>8, SuspendedSteps
    <3>. QED BY <1>1, <1>3, <3>1 DEF LoginInsert, XHeldByOther
  <2>3. \E t \in sessions' : t.sid = s.sid /\ t.user = s.user
    BY <1>1, <1>2, <1>3, <1>8, <2>2, HeldRowStays DEF LockInv, At
  <2>4. /\ req'[d].pc = req[d].pc /\ req'[d].target = req[d].target /\ xlock'[d] = xlock[d]
        /\ req'[l].pc = req[l].pc /\ req'[l].target = req[l].target
        /\ req'[l].prior = req[l].prior
    BY <1>8, <2>1, <2>2, OthersKeep DEF LockInv
  <2>. QED BY <1>4, <2>3, <2>4
<1>. QED BY <1>5, <1>6, <1>7, <1>8 DEF Next, vars, locks

\* A wedged loop lasts until the process dies, and an embrace until that or the
\* failure of one of its two statements, for any users, requests and sessions.
THEOREM StuckUntilRestart == Spec => StuckForGood
<1> DEFINE Inv == LockInv /\ SidInv
<1>1. Init => Inv
  <2>1. Init => LockPhase /\ LockedAreAdmins /\ LocksExclusive
    BY DEF Init, LockPhase, LockedAreAdmins, LocksExclusive, Idle
  <2>. QED BY <2>1, TypeInit, SidsInit DEF LockInv
<1>2. Inv /\ [Next]_vars => Inv'
  BY LocksStep, SidsApartStep DEF LockInv
<1>3. Inv /\ [Next]_vars =>
        [restarts' = restarts =>
           /\ Wedged => Wedged'
           /\ \A d, l \in Requests :
                Embraced(d, l) => Embraced(d, l)' \/ Fail(d) \/ Fail(l)]_vars
  BY WedgedStep, EmbraceStep
<1>4. QED
  BY <1>1, <1>2, <1>3, PTL DEF Spec, StuckForGood
-----------------------------------------------------------------------------
(* There is no third way to get stuck.                                        *)

\* The loop is stopped by a statement of a handler only.
StopperPhase ==
  blocked \in Requests => req[blocked].pc \in AdminOps \cup {"delCommit", "brew"}

LEMMA StopperStep ==
  ASSUME TypeOK, StopperPhase, [Next]_vars PROVE StopperPhase'
<1>1. CASE UNCHANGED <<req, blocked>> BY <1>1 DEF StopperPhase
<1>2. CASE Restart BY <1>2, NoneIsNoUser DEF Restart, StopperPhase
<1>3. ASSUME NEW r \in Requests, Block(r) PROVE StopperPhase'
  <2>1. req[r].pc \in AdminOps \cup {"delCommit", "brew"}
    BY <1>3 DEF Block, MustWait, Guarded, Writes, At, AdminOps
  <2>. QED BY <1>3, <2>1 DEF Block, StopperPhase
<1>4. ASSUME NEW r \in Requests, Unforced(r) \/ Step(r), blocked' \in Requests
      PROVE  StopperPhase'
  <2>1. CASE blocked \in Requests
    <3>1. DeletePrior(r) \/ LoginInsert(r) \/ CloseSession(r)
      BY <1>4, <2>1, StoppedLoop, NoneIsNoUser
    <3>2. /\ UNCHANGED blocked /\ req[r].pc \in {"replace", "insert", "closing"}
      BY <3>1, ServerSide
    <3>3. r # blocked BY <2>1, <3>2 DEF StopperPhase, AdminOps
    <3>4. req'[blocked].pc = req[blocked].pc BY <1>4, <2>1, <3>3, OthersKeep
    <3>. QED BY <2>1, <3>2, <3>4 DEF StopperPhase
  <2>2. CASE blocked \notin Requests
    <3>1. blocked' = None \/ blocked' = blocked
      BY <1>4 DEF Unforced, Step, Fail, StatementFails, EvictFails, DeleteEvictFails,
     ArriveAnonymous, ArriveWithSession, ResolveUser,
         DropSession, Login, DeletePrior, LoginInsert, LoginCommit, Logout, Finish,
         CreateUser, Dispatch, LoadForUpdate, Refuse, Reject, Allowed, Runs, ToggleAdmin,
         UpdateUser, UpdateConflict, DeactivateUser, ReactivateUser, Evict, DeleteGuard,
         DeleteEvict, DeleteCommit, Respond, CloseSession, DispatchBrew, CreateBrew
    <3>. QED BY <1>4, <2>2, <3>1, NoneIsNoUser
  <2>. QED BY <2>1, <2>2
<1>. QED
  BY <1>1, <1>2, <1>3, <1>4 DEF Next, vars, ExpireSession, StopperPhase

\* A suspended request waits for an open one.
LEMMA WaitsForOpen ==
  ASSUME LockInv, NEW r \in Requests, NEW q \in Requests, WaitsFor(r, q)
  PROVE  /\ ~At(q, "idle")
         /\ req[r].pc \in {"insert", "replace", "drop", "evict", "delEvict"}
  BY DEF WaitsFor, LockInv, LockPhase, At, ToDelete

\* If the loop runs, the requests that are open are no circle, so one of them
\* waits for none; if it is stopped and not wedged, what stops it has been
\* granted, or its holder is closing or about to fail.
LEMMA Unstuck ==
  ASSUME LockInv, OnlyEmbraceCycles, StopperPhase PROVE SomeoneMoves
<1>. SUFFICES ASSUME ~Embrace, ~Wedged, NEW o \in Requests, ~At(o, "idle")
              PROVE  \E r \in Requests : Moves(r)
  BY DEF SomeoneMoves
<1>1. CASE LoopFree
  <2> DEFINE open == {r \in Requests : ~At(r, "idle")}
  <2>1. PICK r \in open : \A q \in open : ~WaitsFor(r, q)
    BY DEF OnlyEmbraceCycles
  <2>2. \A q \in Requests : ~WaitsFor(r, q) BY <2>1, WaitsForOpen
  <2>. QED BY <1>1, <2>1, <2>2 DEF Moves
<1>2. CASE ~LoopFree
  <2>1. PICK b \in Requests : blocked = b
    BY <1>2 DEF LoopFree, LockInv, TypeOK
  <2>2. req[b].pc \in AdminOps \cup {"delCommit", "brew"} BY <2>1 DEF StopperPhase
  <2>3. CASE ~MustWait(b)
    <3>1. \A q \in Requests : ~WaitsFor(b, q) BY <2>2, WaitsForOpen DEF AdminOps
    <3>. QED BY <2>1, <2>2, <2>3, <3>1 DEF Moves, At, AdminOps
  <2>4. CASE MustWait(b)
    <3>1. PICK q \in Requests : StopsAt(b, q) BY <2>4, WaitsAreStopped
    <3>2. ~NeedsLoop(q) BY <2>1, <3>1 DEF Wedged
    <3>3. \/ xlock[q] # {} \/ slock[q] # {} \/ req[q].pc \in {"insert", "commit"}
      BY <3>1 DEF StopsAt
    <3>4. At(q, "closing") \/ At(q, "insert")
      BY <3>2, <3>3 DEF LockInv, LockPhase, NeedsLoop, At
    <3>5. ASSUME NEW p \in Requests PROVE ~WaitsFor(q, p)
      <4>1. CASE At(q, "closing") BY <4>1, WaitsForOpen DEF At
      <4>2. CASE At(q, "insert")
        <5>1. req[q].target \notin accounts BY <3>2, <4>2 DEF NeedsLoop
        <5>2. xlock[p] \subseteq accounts
          BY DEF LockInv, LockedAreAdmins, TypeOK, ActiveAdmins
        <5>. QED BY <4>2, <5>1, <5>2 DEF WaitsFor, ToDelete, At
      <4>. QED BY <3>4, <4>1, <4>2
    <3>. QED BY <3>4, <3>5 DEF Moves, At
  <2>. QED BY <2>3, <2>4
<1>. QED BY <1>1, <1>2

\* Some open request moves unless the loop is wedged or two requests embrace,
\* for any number of users, requests and sessions.
THEOREM NoThirdWay == Spec => []SomeoneMoves
<1> DEFINE Inv == LockInv /\ OneHolder /\ StopperPhase
<1>1. Init => Inv
  <2>1. Init => LockPhase /\ LockedAreAdmins /\ LocksExclusive /\ OneHolder /\ StopperPhase
    BY NoneIsNoUser DEF Init, LockPhase, LockedAreAdmins, LocksExclusive, OneHolder, Idle,
       StopperPhase
  <2>. QED BY <2>1, TypeInit DEF LockInv
<1>2. Inv /\ [Next]_vars => Inv'
  BY LocksStep, HolderStep, StopperStep DEF LockInv
<1>3. Inv => SomeoneMoves BY CirclesEmbrace, Unstuck
<1>. QED BY <1>1, <1>2, <1>3, PTL DEF Spec
=============================================================================
