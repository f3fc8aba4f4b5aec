------------------------------- MODULE Setup --------------------------------
(***************************************************************************)
(* POST /setup: create the first admin exactly once.  Every request runs   *)
(* on its own AsyncSession, so requests interleave at each statement; the  *)
(* row setup_completed of app_settings, locked FOR UPDATE, serializes them.*)
(***************************************************************************)
EXTENDS Naturals, FiniteSets

CONSTANTS
  Requests,     \* POSTs to /setup that are open at the same time
  MaxRestarts,  \* bound on process restarts
  None

ASSUME SetupAssumption ==
  /\ None \notin Requests
  /\ MaxRestarts \in Nat

VARIABLES
  completed,   \* setup_completed = 'true', as committed
  firstAdmins, \* committed users rows, named by the request that made them
  sessions,    \* committed sessions rows, named likewise
  lock,        \* the transaction that holds the setup_completed row
  staged,      \* uncommitted writes of each open transaction
  pc,          \* where each request stands, or how it was answered
  restarts

vars == <<completed, firstAdmins, sessions, lock, staged, pc, restarts>>

Answers == {"toLogin", "form", "home", "error"}
Writes == {"admin", "flag"}
Pcs == {"idle", "preflight", "select", "check", "update", "commit", "session"} \cup Answers

At(r, p) == pc[r] = p
Goto(r, p) == pc' = [pc EXCEPT ![r] = p]

\* Mutant: the transaction ends for the program, but stays open in Postgres.
ReleaseLeaked(r) == UNCHANGED lock /\ staged' = [staged EXCEPT ![r] = {}]

\* Commit or rollback: the row lock is free, nothing is pending any more.
Release(r) == /\ lock' = IF lock = r THEN None ELSE lock
              /\ staged' = [staged EXCEPT ![r] = {}]

Init ==
  /\ completed = FALSE /\ firstAdmins = {} /\ sessions = {}
  /\ lock = None
  /\ staged = [r \in Requests |-> {}]
  /\ pc = [r \in Requests |-> "idle"]
  /\ restarts = 0

-----------------------------------------------------------------------------
\* A visitor posts the form, for the first time or again after an answer.
Post(r) ==
  /\ pc[r] \in {"idle"} \cup Answers
  /\ Goto(r, "preflight")
  /\ UNCHANGED <<completed, firstAdmins, sessions, lock, staged, restarts>>

\* Guard 1, an unlocked read of the flag; then the shape of the form.
Preflight(r) ==
  /\ At(r, "preflight")
  /\ \/ completed /\ Goto(r, "toLogin")
     \/ ~completed /\ Goto(r, "form")
     \/ ~completed /\ Goto(r, "select")
  /\ UNCHANGED <<completed, firstAdmins, sessions, lock, staged, restarts>>

\* Mutant: the row is read without FOR UPDATE.
SelectUnlocked(r) ==
  /\ At(r, "select")
  /\ Goto(r, "check")
  /\ UNCHANGED <<completed, firstAdmins, sessions, lock, staged, restarts>>

\* SELECT ... FOR UPDATE is granted.
SelectForUpdate(r) ==
  /\ At(r, "select") /\ lock = None
  /\ lock' = r
  /\ Goto(r, "check")
  /\ UNCHANGED <<completed, firstAdmins, sessions, staged, restarts>>

\* Mutant: whoever finds the row taken or free is sent away.
LoseRaceAlways(r) ==
  /\ At(r, "check")
  /\ Release(r)
  /\ Goto(r, "toLogin")
  /\ UNCHANGED <<completed, firstAdmins, sessions, restarts>>

\* Another request has won: roll back and redirect.
LoseRace(r) ==
  /\ At(r, "check") /\ completed
  /\ Release(r)
  /\ Goto(r, "toLogin")
  /\ UNCHANGED <<completed, firstAdmins, sessions, restarts>>

\* Mutant: the session row is written along with the account.
InsertAdminAndSession(r) ==
  /\ At(r, "check") /\ ~completed
  /\ staged' = [staged EXCEPT ![r] = {"admin", "session"}]
  /\ Goto(r, "update")
  /\ UNCHANGED <<completed, firstAdmins, sessions, lock, restarts>>

\* The password is hashed and the users row flushed.
InsertAdmin(r) ==
  /\ At(r, "check") /\ ~completed
  /\ staged' = [staged EXCEPT ![r] = @ \cup {"admin"}]
  /\ Goto(r, "update")
  /\ UNCHANGED <<completed, firstAdmins, sessions, lock, restarts>>

\* Mutant: the users row is committed before the flag is written.
CommitTwice(r) ==
  /\ At(r, "update")
  /\ firstAdmins' = firstAdmins \cup {r}
  /\ staged' = [staged EXCEPT ![r] = {"flag"}]
  /\ lock' = None
  /\ Goto(r, "commit")
  /\ UNCHANGED <<completed, sessions, restarts>>

UpdateFlag(r) ==
  /\ At(r, "update")
  /\ staged' = [staged EXCEPT ![r] = @ \cup {"flag"}]
  /\ Goto(r, "commit")
  /\ UNCHANGED <<completed, firstAdmins, sessions, lock, restarts>>

\* One COMMIT publishes both writes and frees the lock.
Commit(r) ==
  /\ At(r, "commit")
  /\ firstAdmins' = IF "admin" \in staged[r] THEN firstAdmins \cup {r} ELSE firstAdmins
  /\ completed' = (completed \/ "flag" \in staged[r])
  /\ Release(r)
  /\ Goto(r, "session")
  /\ UNCHANGED <<sessions, restarts>>

\* Auto-login: regenerate_session, without a row to replace.
CreateSession(r) ==
  /\ At(r, "session")
  /\ sessions' = sessions \cup {r}
  /\ Goto(r, "home")
  /\ UNCHANGED <<completed, firstAdmins, lock, staged, restarts>>

\* A statement fails: a 500, and the dependency's session rolls back.
Fail(r) ==
  /\ pc[r] \in {"preflight", "select", "check", "update", "commit", "session"}
  /\ Release(r)
  /\ Goto(r, "error")
  /\ UNCHANGED <<completed, firstAdmins, sessions, restarts>>

\* The process dies; Postgres rolls the open transactions back.
Restart ==
  /\ restarts < MaxRestarts
  /\ restarts' = restarts + 1
  /\ pc' = [r \in Requests |-> "idle"]
  /\ lock' = None
  /\ staged' = [r \in Requests |-> {}]
  /\ UNCHANGED <<completed, firstAdmins, sessions>>

\* What an open request does next when nothing fails.
Step(r) ==
  \/ Preflight(r) \/ SelectForUpdate(r) \/ LoseRace(r) \/ InsertAdmin(r)
  \/ UpdateFlag(r) \/ Commit(r) \/ CreateSession(r)

Next == (\E r \in Requests : Post(r) \/ Step(r) \/ Fail(r)) \/ Restart

Spec == Init /\ [][Next]_vars

\* Postgres grants the row lock in order of arrival.
FairSpec == Spec /\ \A r \in Requests : SF_vars(Step(r))
-----------------------------------------------------------------------------
\* Every variable stays within the values the code can give it.
TypeOK ==
  /\ completed \in BOOLEAN
  /\ firstAdmins \subseteq Requests /\ sessions \subseteq Requests
  /\ lock \in Requests \cup {None}
  /\ staged \in [Requests -> SUBSET Writes]
  /\ pc \in [Requests -> Pcs]
  /\ restarts \in 0..MaxRestarts

\* AUTH-02: however the posts interleave, fail or die, one admin at most is
\* created, and setup_completed says exactly whether one was.
OneFirstAdmin ==
  /\ \A q, r \in firstAdmins : q = r
  /\ completed <=> firstAdmins # {}

\* Only the winner is logged in, and nobody is sent to /login before there
\* is an account to log in with.
LoginsHaveAccounts ==
  /\ sessions \subseteq firstAdmins
  /\ \A r \in Requests : At(r, "toLogin") => firstAdmins # {}

\* Every post is answered: waiters for the lock get it when the holder
\* commits, rolls back or fails.
Answered == \A r \in Requests : At(r, "preflight") ~> pc[r] \in Answers \cup {"idle"}

\* The abstract specification: the winner is the request behind the account.
Winner == INSTANCE FirstAdmin WITH
  winner <- IF firstAdmins = {} THEN None ELSE CHOOSE r \in firstAdmins : TRUE

\* /setup implements the election.
Elects == Winner!Spec
=============================================================================
