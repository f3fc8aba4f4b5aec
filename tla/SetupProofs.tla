---------------------------- MODULE SetupProofs -----------------------------
(* Proofs about Setup: one first admin, for any number of requests.         *)
EXTENDS Setup, TLAPS

\* The row lock is held by exactly the request past its SELECT FOR UPDATE,
\* what it found there still holds, and it commits both writes or none.
LockedPhase ==
  \A r \in Requests :
    /\ pc[r] \in {"check", "update", "commit"} => lock = r
    /\ pc[r] \in {"update", "commit"} => ~completed
    /\ pc[r] = "update" => "admin" \in staged[r]
    /\ pc[r] = "commit" => staged[r] = Writes

\* What the requests past the commit, and the redirected ones, know.
Known ==
  \A r \in Requests :
    /\ pc[r] = "session" => r \in firstAdmins
    /\ pc[r] = "toLogin" => completed

Inv == TypeOK /\ LockedPhase /\ Known /\ OneFirstAdmin /\ sessions \subseteq firstAdmins

-----------------------------------------------------------------------------
\* The initial state satisfies the invariant.
LEMMA InvInit == Init => Inv
<1> SUFFICES ASSUME Init PROVE Inv
  OBVIOUS
<1>1. TypeOK
  <2>1. restarts \in 0..MaxRestarts
    BY SetupAssumption DEF Init, SetupAssumption
  <2>2. pc \in [Requests -> Pcs]
    BY DEF Init, Pcs
  <2> QED
    BY <2>1, <2>2 DEF Init, TypeOK
<1>2. LockedPhase /\ Known /\ OneFirstAdmin /\ sessions \subseteq firstAdmins
  BY DEF Init, LockedPhase, Known, OneFirstAdmin
<1> QED
  BY <1>1, <1>2 DEF Inv

\* Every step keeps the invariant.
LEMMA InvStep == Inv /\ [Next]_vars => Inv'
<1> SUFFICES ASSUME Inv, [Next]_vars PROVE Inv'
  OBVIOUS
<1> USE SetupAssumption DEF SetupAssumption, Inv, TypeOK, LockedPhase, Known,
        OneFirstAdmin, At, Goto, Pcs, Answers
<1>1. ASSUME NEW r \in Requests, Post(r) PROVE Inv'
  BY <1>1 DEF Post
<1>2. ASSUME NEW r \in Requests, Preflight(r) PROVE Inv'
  BY <1>2 DEF Preflight
<1>3. ASSUME NEW r \in Requests, SelectForUpdate(r) PROVE Inv'
  BY <1>3 DEF SelectForUpdate
<1>4. ASSUME NEW r \in Requests, LoseRace(r) PROVE Inv'
  BY <1>4 DEF LoseRace, Release
<1>5. ASSUME NEW r \in Requests, InsertAdmin(r) PROVE Inv'
  BY <1>5 DEF InsertAdmin, Writes
<1>6. ASSUME NEW r \in Requests, UpdateFlag(r) PROVE Inv'
  BY <1>6 DEF UpdateFlag, Writes
<1>7. ASSUME NEW r \in Requests, Commit(r) PROVE Inv'
  BY <1>7 DEF Commit, Release, Writes
<1>8. ASSUME NEW r \in Requests, CreateSession(r) PROVE Inv'
  BY <1>8 DEF CreateSession
<1>9. ASSUME NEW r \in Requests, Fail(r) PROVE Inv'
  BY <1>9 DEF Fail, Release
<1>10. CASE Restart
  BY <1>10 DEF Restart
<1>11. CASE UNCHANGED vars
  BY <1>11 DEF vars
<1> QED
  BY <1>1, <1>2, <1>3, <1>4, <1>5, <1>6, <1>7, <1>8, <1>9, <1>10, <1>11
     DEF Next, Step

\* Every reachable state of the set-up is well typed.
THEOREM TypeCorrect == Spec => []TypeOK
<1>1. Inv => TypeOK
  BY DEF Inv
<1> QED
  BY <1>1, InvInit, InvStep, PTL DEF Spec

\* AUTH-02: at most one first admin, and the flag never lies about it.
THEOREM OneAdmin == Spec => []OneFirstAdmin
<1>1. Inv => OneFirstAdmin
  BY DEF Inv
<1> QED
  BY <1>1, InvInit, InvStep, PTL DEF Spec

\* Only the winner is logged in; the others find an account at /login.
THEOREM LoginsFindAccounts == Spec => []LoginsHaveAccounts
<1>1. Inv => LoginsHaveAccounts
  BY DEF Inv, Known, OneFirstAdmin, LoginsHaveAccounts, At
<1> QED
  BY <1>1, InvInit, InvStep, PTL DEF Spec

\* Every behaviour of /setup is an election: the accounts change only once,
\* from none to the winner's.
THEOREM SetupElects == Spec => Elects
<1> DEFINE won == IF firstAdmins = {} THEN None ELSE CHOOSE r \in firstAdmins : TRUE
<1>1. Init => Winner!Init
  BY DEF Init, Winner!Init
<1>2. Inv /\ [Next]_vars => [Winner!Next]_won
  <2> SUFFICES ASSUME Inv, [Next]_vars PROVE [Winner!Next]_won
    OBVIOUS
  <2>1. CASE firstAdmins' = firstAdmins
    BY <2>1
  <2>2. ASSUME NEW r \in Requests, Commit(r), firstAdmins' # firstAdmins
        PROVE  Winner!Elect(r)
    <3>1. firstAdmins = {}
      BY <2>2 DEF Commit, At, Inv, LockedPhase, OneFirstAdmin
    <3>2. firstAdmins' = {r}
      BY <2>2, <3>1 DEF Commit
    <3>3. won = None /\ won' = r
      BY <3>1, <3>2
    <3> QED
      BY <3>3 DEF Winner!Elect
  <2>3. firstAdmins' = firstAdmins \/ \E r \in Requests : Commit(r)
    BY DEF Next, Step, vars, Post, Preflight, SelectForUpdate, LoseRace,
       InsertAdmin, UpdateFlag, CreateSession, Fail, Restart
  <2> QED
    BY <2>1, <2>2, <2>3 DEF Winner!Next
<1> QED
  BY <1>1, <1>2, InvInit, InvStep, PTL DEF Spec, Elects, Winner!Spec
=============================================================================
