------------------------------ MODULE Accounts ------------------------------
(***************************************************************************)
(* User accounts, login sessions and the admin user-management handlers.   *)
(*                                                                         *)
(* One uvicorn worker runs every request as a coroutine on one event loop. *)
(* A step of a request is the code between two awaits.  The admin handlers *)
(* talk to Postgres through a blocking Session: a statement that waits for *)
(* a row lock stops the loop itself (variable blocked).  Login, logout and *)
(* session eviction use the async engine and only suspend their coroutine. *)
(***************************************************************************)
EXTENDS Naturals, FiniteSets

CONSTANTS
  Users,        \* every user id the database will ever issue
  Root,         \* the admin created by /setup
  Requests,     \* slots for HTTP requests that are open at the same time
  Sids,         \* session ids; a uuid4 is never issued twice
  MaxRestarts,  \* bound on process restarts
  MaxUnevicted, \* bound on the users whose eviction failed
  None

ASSUME AccountsAssumption ==
  /\ IsFiniteSet(Users)
  /\ Root \in Users
  /\ None \notin Users \cup Requests \cup Sids
  /\ MaxRestarts \in Nat /\ MaxUnevicted \in Nat

VARIABLES
  accounts,   \* ids with a row in users
  deleted,    \* ids whose row was hard-deleted; an Identity id is not reissued
  admins,     \* ids whose row has is_admin
  actives,    \* ids whose row has is_active
  brewed,     \* ids referenced by brew_sessions (ondelete RESTRICT)
  sessions,   \* committed rows of sessions
  spent,      \* session ids issued so far
  req,        \* the coroutine of each request slot
  xlock,      \* users rows each open transaction holds FOR UPDATE
  slock,      \* users rows each open transaction holds FOR KEY SHARE
  blocked,    \* the request whose blocking statement stopped the loop
  restarts,
  unevicted,  \* history: users whose eviction failed or died with the process
  unguarded   \* history: an active admin was deleted without the count guard

rows == <<accounts, deleted, admins, actives, brewed>>
locks == <<xlock, slock>>
history == <<restarts, unevicted, unguarded>>
vars == <<rows, sessions, spent, req, locks, blocked, history>>

(***************************************************************************)
(* outdated: a password reset, admin flip or deactivation of the owner     *)
(* committed after the row did.  raced: one committed while the login that *)
(* produced the row was between its password check and its commit.         *)
(***************************************************************************)
SessionRow == [sid : Sids, user : Users, outdated : BOOLEAN, raced : BOOLEAN]

AdminOps == {"update", "toggle", "deactivate", "reactivate", "delete"}

Pcs == {"idle", "resolve", "drop", "handler", "brew", "evict",
        "delEvict", "delCommit", "replace", "insert", "commit", "respond",
        "closing"}
          \cup AdminOps

RequestState ==
  [pc : Pcs,
   sid : Sids \cup {None},       \* row read by the middleware; new id of a login
   actor : Users \cup {None},    \* request.state.user
   adm : BOOLEAN,                \* is_admin of that captured User
   prior : Sids \cup {None},     \* prior_session_id of a login
   target : Users \cup {None},
   was : BOOLEAN,                \* target.is_admin as update_user loaded it
   newAdmin : BOOLEAN,           \* the is_admin box of the edit form
   newPw : BOOLEAN,              \* the edit form carries a password
   newName : BOOLEAN,            \* the edit form changes the username
   raced : BOOLEAN]

Idle == [pc |-> "idle", sid |-> None, actor |-> None, adm |-> FALSE,
         prior |-> None, target |-> None, was |-> FALSE, newAdmin |-> FALSE,
         newPw |-> FALSE, newName |-> FALSE, raced |-> FALSE]

At(r, pc) == req[r].pc = pc
Done(r) == req' = [req EXCEPT ![r] = Idle]
Goto(r, pc) == req' = [req EXCEPT ![r].pc = pc]

\* The request goes on to pc and needs no more than its target.
Targeting(pc, u) == [Idle EXCEPT !.pc = pc, !.target = u]

ActiveAdmins == admins \cap actives
SessionsOf(u) == {s \in sessions : s.user = u}
Evicting(u) == \E r \in Requests : At(r, "evict") /\ req[r].target = u

Init ==
  /\ accounts = {Root} /\ admins = {Root} /\ actives = {Root}
  /\ deleted = {} /\ brewed = {}
  /\ sessions = {} /\ spent = {}
  /\ req = [r \in Requests |-> Idle]
  /\ xlock = [r \in Requests |-> {}]
  /\ slock = [r \in Requests |-> {}]
  /\ blocked = None
  /\ restarts = 0 /\ unevicted = {} /\ unguarded = FALSE

-----------------------------------------------------------------------------
(* Row locks and the event loop.                                           *)

LoopFree == blocked = None

\* A login holds the row it replaces from its DELETE to its COMMIT.
HeldByOther(r, S) ==
  \E q \in Requests \ {r}, s \in S : req[q].pc \in {"insert", "commit"} /\ req[q].prior = s.sid

XHeldByOther(r, U) == \E q \in Requests \ {r} : xlock[q] \cap U # {}
SHeldByOther(r, U) == \E q \in Requests \ {r} : slock[q] \cap U # {}

\* The handler runs _count_active_admins, which locks every active admin.
Guarded(r) ==
  LET q == req[r] IN
  \/ q.pc = "toggle" /\ q.target \in admins
  \/ q.pc = "update" /\ q.was /\ ~q.newAdmin
  \/ q.pc \in {"deactivate", "delete"} /\ q.target # q.actor /\ q.target \in admins

\* The handler's flush emits an UPDATE of the target row.
Writes(r) ==
  LET q == req[r] IN
  \/ q.pc = "toggle"
  \/ q.pc = "update" /\ (q.newPw \/ q.newName \/ q.was # q.newAdmin)
  \/ q.pc = "deactivate" /\ q.target \in actives
  \/ q.pc = "reactivate" /\ q.target \notin actives

\* Mutant: the count takes FOR NO KEY UPDATE, which tolerates FOR KEY SHARE.
MustWaitNoKey(r) ==
  \/ Guarded(r) /\ XHeldByOther(r, ActiveAdmins)
  \/ Writes(r) /\ XHeldByOther(r, {req[r].target})
  \/ At(r, "update") /\ req[r].newName /\ SHeldByOther(r, {req[r].target})
  \/ At(r, "brew") /\ XHeldByOther(r, {req[r].actor})

\* Some statement of the request's next blocking step has to wait for a lock.
MustWait(r) ==
  \/ /\ Guarded(r)
     /\ XHeldByOther(r, ActiveAdmins) \/ SHeldByOther(r, ActiveAdmins)
  \/ Writes(r) /\ XHeldByOther(r, {req[r].target})
  \/ At(r, "update") /\ req[r].newName /\ SHeldByOther(r, {req[r].target})
  \/ /\ At(r, "delCommit")
     /\ \/ XHeldByOther(r, {req[r].target})
        \/ SHeldByOther(r, {req[r].target})
        \/ HeldByOther(r, SessionsOf(req[r].target))
  \/ At(r, "brew") /\ XHeldByOther(r, {req[r].actor})

\* The statement waits, and with it the only thread that runs coroutines.
Block(r) ==
  /\ LoopFree /\ MustWait(r)
  /\ blocked' = r
  /\ UNCHANGED <<rows, sessions, spent, req, locks, history>>

\* The request runs a blocking step: first time, or once its lock is granted.
Runs(r) == blocked \in {None, r} /\ ~MustWait(r) /\ blocked' = None

-----------------------------------------------------------------------------
(* SessionMiddleware: two awaited reads before the handler.                *)

\* A request without a session cookie, or whose cookie names no row.
ArriveAnonymous(r) ==
  /\ LoopFree /\ At(r, "idle")
  /\ Goto(r, "handler")
  /\ UNCHANGED <<rows, sessions, spent, locks, blocked, history>>

ArriveWithSession(r) ==
  /\ LoopFree /\ At(r, "idle")
  /\ \E s \in sessions :
       req' = [req EXCEPT ![r] = [Idle EXCEPT !.pc = "resolve", !.sid = s.sid,
                                              !.target = s.user]]
  /\ UNCHANGED <<rows, sessions, spent, locks, blocked, history>>

\* An absent or inactive user fails closed: the session row is dropped.
ResolveUser(r) ==
  LET u == req[r].target IN
  /\ LoopFree /\ At(r, "resolve")
  /\ req' = [req EXCEPT ![r] =
       IF u \in accounts \cap actives
         THEN [Idle EXCEPT !.pc = "handler", !.sid = req[r].sid, !.actor = u,
                           !.adm = u \in admins]
         ELSE [Idle EXCEPT !.pc = "drop", !.sid = req[r].sid]]
  /\ UNCHANGED <<rows, sessions, spent, locks, blocked, history>>

DropSession(r) ==
  /\ LoopFree /\ At(r, "drop")
  /\ ~HeldByOther(r, {s \in sessions : s.sid = req[r].sid})
  /\ sessions' = {s \in sessions : s.sid # req[r].sid}
  /\ req' = [req EXCEPT ![r] = [Idle EXCEPT !.pc = "handler"]]
  /\ UNCHANGED <<rows, spent, locks, blocked, history>>

\* expires_at passed: removed by the nightly sweep or by the middleware.
ExpireSession ==
  /\ \E s \in sessions :
       /\ sessions' = sessions \ {s}
       /\ \A r \in Requests : ~HeldByOther(r, {s})
  /\ UNCHANGED <<rows, spent, req, locks, blocked, history>>

-----------------------------------------------------------------------------
(* Login and logout, on the async engine.                                  *)

\* The password check passed; regenerate_session has picked the new id.
Login(r) ==
  /\ LoopFree /\ At(r, "handler")
  /\ \E u \in accounts \cap actives, s \in Sids \ spent :
       /\ spent' = spent \cup {s}
       /\ req' = [req EXCEPT ![r] = [Idle EXCEPT !.sid = s, !.target = u,
                     !.pc = IF req[r].actor = None THEN "insert" ELSE "replace",
                     !.prior = IF req[r].actor = None THEN None ELSE req[r].sid]]
  /\ UNCHANGED <<rows, sessions, locks, blocked, history>>

\* The server runs the DELETE of the session the browser came with.
DeletePrior(r) ==
  /\ At(r, "replace")
  /\ ~HeldByOther(r, {s \in sessions : s.sid = req[r].prior})
  /\ Goto(r, "insert")
  /\ UNCHANGED <<rows, sessions, spent, locks, blocked, history>>

\* Mutant: the row is inserted without the foreign key's lock on its user.
LoginInsertUnlocked(r) ==
  /\ At(r, "insert") /\ ~XHeldByOther(r, {req[r].target})
  /\ IF req[r].target \in accounts THEN Goto(r, "commit") ELSE Done(r)
  /\ UNCHANGED <<rows, sessions, spent, locks, blocked, history>>

\* The server runs the INSERT: its foreign key takes FOR KEY SHARE on the
\* user, and fails if the user is gone.  Needs no turn of the loop.
LoginInsert(r) ==
  LET u == req[r].target IN
  /\ At(r, "insert") /\ ~XHeldByOther(r, {u})
  /\ IF u \in accounts
       THEN Goto(r, "commit") /\ slock' = [slock EXCEPT ![r] = {u}]
       ELSE Done(r) /\ UNCHANGED slock
  /\ UNCHANGED <<rows, sessions, spent, xlock, blocked, history>>

LoginCommit(r) ==
  LET q == req[r] IN
  /\ LoopFree /\ At(r, "commit")
  /\ sessions' = {s \in sessions : s.sid # q.prior} \cup
                   {[sid |-> q.sid, user |-> q.target, outdated |-> FALSE,
                     raced |-> q.raced]}
  /\ slock' = [slock EXCEPT ![r] = {}]
  /\ Done(r)
  /\ UNCHANGED <<rows, spent, xlock, blocked, history>>

Logout(r) ==
  /\ LoopFree /\ At(r, "handler") /\ req[r].actor # None
  /\ ~HeldByOther(r, {s \in sessions : s.sid = req[r].sid})
  /\ sessions' = {s \in sessions : s.sid # req[r].sid}
  /\ Done(r)
  /\ UNCHANGED <<rows, spent, locks, blocked, history>>

\* Reads, 403s, 404s and failed logins: the request ends with no change.
Finish(r) ==
  /\ LoopFree /\ At(r, "handler")
  /\ Done(r)
  /\ UNCHANGED <<rows, sessions, spent, locks, blocked, history>>

-----------------------------------------------------------------------------
(* Admin handlers.  require_admin reads the User the middleware captured.  *)

CreateUser(r) ==
  /\ LoopFree /\ At(r, "handler") /\ req[r].adm
  /\ \E u \in Users \ (accounts \cup deleted), asAdmin \in BOOLEAN :
       /\ accounts' = accounts \cup {u}
       /\ actives' = actives \cup {u}
       /\ admins' = IF asAdmin THEN admins \cup {u} ELSE admins
  /\ Done(r)
  /\ UNCHANGED <<deleted, brewed, sessions, spent, locks, blocked, history>>

\* The handler starts and suspends in await request.form().
Dispatch(r) ==
  /\ LoopFree /\ At(r, "handler") /\ req[r].adm
  /\ \E op \in AdminOps \ {"update"}, u \in accounts :
       req' = [req EXCEPT ![r] = [Targeting(op, u) EXCEPT !.actor = req[r].actor]]
  /\ UNCHANGED <<rows, sessions, spent, locks, blocked, history>>

\* update_user loads the target before it awaits the form.
LoadForUpdate(r) ==
  /\ LoopFree /\ At(r, "handler") /\ req[r].adm
  /\ \E u \in accounts, newAdmin \in BOOLEAN, newPw \in BOOLEAN, newName \in BOOLEAN :
       req' = [req EXCEPT ![r] =
         [Targeting("update", u) EXCEPT !.actor = req[r].actor, !.was = u \in admins,
            !.newAdmin = newAdmin, !.newPw = newPw, !.newName = newName]]
  /\ UNCHANGED <<rows, sessions, spent, locks, blocked, history>>

\* A committed change of u's password, is_admin or is_active by request r.
\* Only the history fields record it; r goes on to pc.
SecurityChange(r, u, pc) ==
  /\ sessions' = {IF s.user = u THEN [s EXCEPT !.outdated = TRUE] ELSE s : s \in sessions}
  /\ req' = [q \in Requests |->
       IF q = r THEN Targeting(pc, u)
       ELSE IF req[q].pc \in {"replace", "insert", "commit"} /\ req[q].target = u
              THEN [req[q] EXCEPT !.raced = TRUE]
              ELSE req[q]]

\* Mutant: off by one in the guard.
NoAdminLeft == Cardinality(ActiveAdmins) < 1

LastAdmin == Cardinality(ActiveAdmins) <= 1

\* The 409 of the count guard: the rows it locked stay locked until the
\* session dependency is closed, after the response.
Refuse(r) ==
  /\ Runs(r) /\ Guarded(r)
  /\ LastAdmin \/ req[r].target = req[r].actor
  /\ xlock' = [xlock EXCEPT ![r] = ActiveAdmins]
  /\ req' = [req EXCEPT ![r] = Targeting("respond", None)]
  /\ UNCHANGED <<rows, sessions, spent, slock, history>>

\* Mutant: the self-lockout guard is dropped.
AllowedSelf(r) ==
  /\ Runs(r) /\ req[r].target \in accounts
  /\ Guarded(r) => ~LastAdmin

\* The guards of the handler let it through.
Allowed(r) ==
  /\ Runs(r)
  /\ req[r].target \in accounts
  /\ Guarded(r) => ~LastAdmin /\ req[r].target # req[r].actor

\* Deactivate or delete aimed at oneself; or the target is gone: a 404, and for
\* update_user, which loaded it before its await, a StaleDataError at the flush.
Reject(r) ==
  /\ Runs(r) /\ req[r].pc \in AdminOps
  /\ \/ /\ req[r].target \notin accounts
        /\ Guarded(r) => ~LastAdmin /\ req[r].target # req[r].actor
     \/ req[r].pc \in {"deactivate", "delete"} /\ req[r].target = req[r].actor
  /\ Done(r)
  /\ UNCHANGED <<rows, sessions, spent, locks, history>>

\* Mutant: the rows that the guard locked stay locked during the eviction.
ToggleAdminLate(r) ==
  LET u == req[r].target IN
  /\ At(r, "toggle") /\ Allowed(r)
  /\ admins' = IF u \in admins THEN admins \ {u} ELSE admins \cup {u}
  /\ SecurityChange(r, u, "evict")
  /\ xlock' = [xlock EXCEPT ![r] = IF Guarded(r) THEN ActiveAdmins ELSE {}]
  /\ UNCHANGED <<accounts, deleted, actives, brewed, spent, slock, history>>

ToggleAdmin(r) ==
  LET u == req[r].target IN
  /\ At(r, "toggle") /\ Allowed(r)
  /\ admins' = IF u \in admins THEN admins \ {u} ELSE admins \cup {u}
  /\ SecurityChange(r, u, "evict")
  /\ UNCHANGED <<accounts, deleted, actives, brewed, spent, locks, history>>

\* Mutant: a password reset alone does not evict.
UpdateUserNoEvict(r) ==
  LET q == req[r]  u == q.target  flip == q.was # q.newAdmin IN
  /\ At(r, "update") /\ Allowed(r)
  /\ admins' = IF ~flip THEN admins
               ELSE IF q.newAdmin THEN admins \cup {u} ELSE admins \ {u}
  /\ IF flip \/ q.newPw
       THEN SecurityChange(r, u, IF flip THEN "evict" ELSE "idle")
       ELSE Done(r) /\ UNCHANGED sessions
  /\ UNCHANGED <<accounts, deleted, actives, brewed, spent, locks, history>>

\* Only attributes that differ from the loaded row are written.
UpdateUser(r) ==
  LET q == req[r]  u == q.target  flip == q.was # q.newAdmin IN
  /\ At(r, "update") /\ Allowed(r)
  /\ admins' = IF ~flip THEN admins
               ELSE IF q.newAdmin THEN admins \cup {u} ELSE admins \ {u}
  /\ IF flip \/ q.newPw
       THEN SecurityChange(r, u, "evict")
       ELSE Done(r) /\ UNCHANGED sessions
  /\ UNCHANGED <<accounts, deleted, actives, brewed, spent, locks, history>>

\* The new username is taken: IntegrityError, and the whole edit is undone.
UpdateConflict(r) ==
  /\ At(r, "update") /\ Allowed(r) /\ req[r].newName
  /\ Done(r)
  /\ UNCHANGED <<rows, sessions, spent, locks, history>>

DeactivateUser(r) ==
  LET u == req[r].target IN
  /\ At(r, "deactivate") /\ Allowed(r) /\ u # req[r].actor
  /\ actives' = actives \ {u}
  /\ SecurityChange(r, u, "evict")
  /\ UNCHANGED <<accounts, deleted, admins, brewed, spent, locks, history>>

ReactivateUser(r) ==
  LET u == req[r].target IN
  /\ At(r, "reactivate") /\ Allowed(r)
  /\ actives' = actives \cup {u}
  /\ Done(r)
  /\ UNCHANGED <<accounts, deleted, admins, brewed, sessions, spent, locks, history>>

\* A row of u may be younger than r's eviction: no change of u outdated it, or
\* the eviction that belongs to the change has yet to run, or failed.
MayBeLate(r, s) ==
  \/ ~s.outdated \/ s.user \in unevicted
  \/ \E q \in Requests \ {r} : At(q, "evict") /\ req[q].target = s.user

\* _delete_user_sessions: one transaction of its own, after the commit.  Rows
\* that commit after its DELETE took its snapshot survive it.
Evict(r) ==
  LET gone == SessionsOf(req[r].target) IN
  /\ LoopFree /\ At(r, "evict") /\ ~HeldByOther(r, gone)
  /\ \E late \in SUBSET {s \in gone : MayBeLate(r, s)} :
       sessions' = (sessions \ gone) \cup late
  /\ Done(r)
  /\ UNCHANGED <<rows, spent, locks, blocked, history>>

\* delete_user up to its await: the rows the guard locked stay locked.
DeleteGuard(r) ==
  LET u == req[r].target IN
  /\ At(r, "delete") /\ Allowed(r) /\ u # req[r].actor
  /\ xlock' = [xlock EXCEPT ![r] = IF Guarded(r) THEN ActiveAdmins ELSE {}]
  /\ req' = [req EXCEPT ![r] =
       IF u \in brewed THEN Targeting("respond", None)
                       ELSE [Targeting("delEvict", u) EXCEPT !.actor = req[r].actor]]
  /\ UNCHANGED <<rows, sessions, spent, slock, history>>

\* Mutant: the eviction also writes the users row, on its own connection.
DeleteEvictTouchesUser(r) ==
  /\ LoopFree /\ At(r, "delEvict") /\ ~HeldByOther(r, SessionsOf(req[r].target))
  /\ \A q \in Requests : req[r].target \notin xlock[q]
  /\ sessions' = sessions \ SessionsOf(req[r].target)
  /\ Goto(r, "delCommit")
  /\ UNCHANGED <<rows, spent, locks, blocked, history>>

DeleteEvict(r) ==
  /\ LoopFree /\ At(r, "delEvict") /\ ~HeldByOther(r, SessionsOf(req[r].target))
  /\ sessions' = sessions \ SessionsOf(req[r].target)
  /\ Goto(r, "delCommit")
  /\ UNCHANGED <<rows, spent, locks, blocked, history>>

\* db.delete and commit; the RESTRICT foreign key turns it into a rollback.
DeleteCommit(r) ==
  LET u == req[r].target IN
  /\ At(r, "delCommit") /\ Runs(r)
  /\ IF u \in brewed
       THEN UNCHANGED <<rows, sessions, unguarded>>
       ELSE /\ accounts' = accounts \ {u}
            /\ deleted' = deleted \cup {u}
            /\ admins' = admins \ {u}
            /\ actives' = actives \ {u}
            /\ sessions' = sessions \ SessionsOf(u)
            /\ unguarded' = (unguarded \/ (u \in ActiveAdmins /\ xlock[r] = {}))
            /\ UNCHANGED brewed
  /\ xlock' = [xlock EXCEPT ![r] = {}]
  /\ Done(r)
  /\ UNCHANGED <<spent, slock, restarts, unevicted>>

\* The response leaves the loop; then a pool thread closes the Session.
Respond(r) ==
  /\ LoopFree /\ At(r, "respond")
  /\ Goto(r, "closing")
  /\ UNCHANGED <<rows, sessions, spent, locks, blocked, history>>

CloseSession(r) ==
  /\ At(r, "closing")
  /\ xlock' = [xlock EXCEPT ![r] = {}]
  /\ Done(r)
  /\ UNCHANGED <<rows, sessions, spent, slock, blocked, history>>

-----------------------------------------------------------------------------
(* create_brew, reduced to the reference it takes on its author's row.     *)

DispatchBrew(r) ==
  /\ LoopFree /\ At(r, "handler") /\ req[r].actor # None
  /\ req' = [req EXCEPT ![r] = [Idle EXCEPT !.pc = "brew", !.actor = req[r].actor]]
  /\ UNCHANGED <<rows, sessions, spent, locks, blocked, history>>

\* Mutant: brew_sessions.user_id is not a foreign key.
CreateBrewUnchecked(r) ==
  /\ At(r, "brew") /\ Runs(r)
  /\ brewed' = brewed \cup {req[r].actor}
  /\ Done(r)
  /\ UNCHANGED <<accounts, deleted, admins, actives, sessions, spent, locks, history>>

CreateBrew(r) ==
  /\ At(r, "brew") /\ Runs(r)
  /\ brewed' = brewed \cup ({req[r].actor} \cap accounts)
  /\ Done(r)
  /\ UNCHANGED <<accounts, deleted, admins, actives, sessions, spent, locks, history>>

-----------------------------------------------------------------------------
(* An awaited statement raises (no connection within pool_timeout, or one    *)
(* that was lost): its transaction is rolled back and the answer is a 500.   *)

\* Of the middleware or of a login: nothing was committed.  A connection whose
\* locks have stopped the loop is taken to stay up.
StatementFails(r) ==
  /\ LoopFree /\ req[r].pc \in {"drop", "replace", "insert", "commit"}
  /\ slock' = [slock EXCEPT ![r] = {}]
  /\ Done(r)
  /\ UNCHANGED <<rows, sessions, spent, xlock, blocked, history>>

\* Of the eviction: the security change before it stays committed.
EvictFails(r) ==
  /\ LoopFree /\ At(r, "evict")
  /\ Cardinality(unevicted \cup {req[r].target}) <= MaxUnevicted
  /\ unevicted' = unevicted \cup {req[r].target}
  /\ Done(r)
  /\ UNCHANGED <<rows, sessions, spent, locks, blocked, restarts, unguarded>>

\* Of delete_user's eviction: its own transaction ends as the Session closes.
DeleteEvictFails(r) ==
  /\ LoopFree /\ At(r, "delEvict")
  /\ req' = [req EXCEPT ![r] = Targeting("closing", None)]
  /\ UNCHANGED <<rows, sessions, spent, locks, blocked, history>>

Fail(r) == StatementFails(r) \/ EvictFails(r) \/ DeleteEvictFails(r)

\* The process dies: coroutines vanish, Postgres rolls their transactions back.
Restart ==
  /\ restarts < MaxRestarts
  /\ restarts' = restarts + 1
  /\ unevicted' = unevicted \cup {u \in Users : Evicting(u)}
  /\ req' = [r \in Requests |-> Idle]
  /\ xlock' = [r \in Requests |-> {}]
  /\ slock' = [r \in Requests |-> {}]
  /\ blocked' = None
  /\ UNCHANGED <<rows, sessions, spent, unguarded>>

\* What nothing obliges to happen: a user starts a request, a statement fails.
Unforced(r) == ArriveAnonymous(r) \/ ArriveWithSession(r) \/ Fail(r)

\* What an open request does next.
Step(r) ==
  \/ ResolveUser(r) \/ DropSession(r)
  \/ Login(r) \/ DeletePrior(r) \/ LoginInsert(r) \/ LoginCommit(r) \/ Logout(r) \/ Finish(r)
  \/ CreateUser(r) \/ Dispatch(r) \/ LoadForUpdate(r)
  \/ Refuse(r) \/ Reject(r)
  \/ ToggleAdmin(r) \/ UpdateUser(r) \/ UpdateConflict(r)
  \/ DeactivateUser(r) \/ ReactivateUser(r) \/ Evict(r)
  \/ DeleteGuard(r) \/ DeleteEvict(r) \/ DeleteCommit(r)
  \/ Respond(r) \/ CloseSession(r)
  \/ DispatchBrew(r) \/ CreateBrew(r)

Next ==
  \/ \E r \in Requests : Unforced(r) \/ Step(r) \/ Block(r)
  \/ ExpireSession
  \/ Restart

Spec == Init /\ [][Next]_vars

\* asyncio's ready queue is FIFO and Postgres grants row locks in order of
\* arrival, so a step that is possible again and again is taken.  Arrivals,
\* failures, crashes and expiry are never forced.
Fairness == \A r \in Requests : SF_vars(Step(r)) /\ WF_vars(Block(r))
FairSpec == Spec /\ Fairness

-----------------------------------------------------------------------------
\* Every variable stays within the values the tables and handlers can hold.
TypeOK ==
  /\ accounts \subseteq Users /\ deleted \subseteq Users
  /\ admins \subseteq accounts /\ actives \subseteq accounts
  /\ brewed \subseteq accounts
  /\ accounts \cap deleted = {}
  /\ sessions \subseteq SessionRow
  /\ spent \subseteq Sids
  /\ req \in [Requests -> RequestState]
  /\ xlock \in [Requests -> SUBSET Users]
  /\ slock \in [Requests -> SUBSET Users]
  /\ blocked \in Requests \cup {None}
  /\ restarts \in 0..MaxRestarts
  /\ unevicted \subseteq Users
  /\ unguarded \in BOOLEAN

\* D-16 as the module docstring of admin/users.py states it: demoting,
\* deactivating or deleting the last active admin is refused.
AdminRemains == ActiveAdmins # {}

\* What the handlers do guarantee of D-16: the installation loses its last
\* active admin only through a delete whose target was promoted while the
\* delete, having skipped the count guard, was awaiting the eviction.
AdminRemainsIfGuarded == AdminRemains \/ unguarded

\* A committed session belongs to a row of users: the login that was let in
\* before its user was deleted cannot leave an orphan behind.
SessionHasOwner == \A s \in sessions : s.user \in accounts

\* T-09-04: a password reset, demotion or deactivation leaves no session that
\* existed when it committed, once the eviction that follows it has run.  The
\* change is committed first, so two things cut the eviction off: the process
\* dies between the two commits, or the eviction raises (admin/users.py,
\* _delete_user_sessions and its three calls after a commit).
RevokedUnlessCutOff ==
  \A s \in sessions : s.outdated => Evicting(s.user) \/ s.user \in unevicted

\* The comment in update_user: a reset must force re-auth everywhere, also for
\* a login that passed its password check before the reset.
ForcesReauthEverywhere ==
  \A s \in sessions : s.outdated \/ s.raced => Evicting(s.user) \/ s.user \in unevicted

\* D-16: no handler takes an active admin's rights away at his own request,
\* whatever was loaded before the form was awaited.
NoSelfLockout ==
  [][\A u \in ActiveAdmins : u \notin ActiveAdmins' =>
       \E r \in Requests : req[r].target = u /\ req[r].actor # u /\ req'[r] # req[r]]_vars

\* A row locked FOR UPDATE across an await stays an active admin until its
\* transaction ends, and no two transactions hold incompatible locks on it.
LockedRowsStable ==
  \A r \in Requests :
    /\ At(r, "delCommit") \/ At(r, "delEvict") \/ At(r, "respond") \/ At(r, "closing")
         \/ xlock[r] = {}
    /\ xlock[r] \subseteq ActiveAdmins
    /\ ~XHeldByOther(r, xlock[r]) /\ ~SHeldByOther(r, xlock[r])

\* A delete that awaits the eviction and a login that replaces a session of the
\* delete's target, as a user the delete has locked, wait for each other.
Embraced(d, l) ==
  /\ At(d, "delEvict") /\ At(l, "insert")
  /\ req[l].target \in xlock[d]
  /\ \E s \in SessionsOf(req[d].target) : s.sid = req[l].prior

Embrace == \E d, l \in Requests : Embraced(d, l)

\* The committed sessions that the next DELETE of r is about to remove.
ToDelete(r) ==
  {s \in sessions : \/ (At(r, "replace") /\ s.sid = req[r].prior)
                    \/ (At(r, "drop") /\ s.sid = req[r].sid)
                    \/ (req[r].pc \in {"evict", "delEvict"} /\ s.user = req[r].target)}

\* Postgres lets the statement of r wait for the transaction of q, and only the
\* coroutine of r is suspended.
WaitsFor(r, q) ==
  /\ q # r
  /\ \/ At(r, "insert") /\ req[r].target \in xlock[q]
     \/ req[q].pc \in {"insert", "commit"} /\ \E s \in ToDelete(r) : s.sid = req[q].prior

\* Deadlocks that Postgres cannot see: of the requests that a lock suspends, no
\* group waits for each other in a circle of any length, the embrace aside.
\* (Code: the transactions that admin/users.py, auth.py, sessions.py and
\* middleware/session.py hold across an await.)
OnlyEmbraceCycles ==
  Embrace \/ \A S \in (SUBSET Requests) \ {{}} : \E r \in S : \A q \in S : ~WaitsFor(r, q)

\* The transaction of q holds a lock that a blocking statement of r needs.
StopsAt(r, q) ==
  /\ q # r
  /\ \/ Guarded(r) /\ (xlock[q] \cup slock[q]) \cap ActiveAdmins # {}
     \/ Writes(r) /\ req[r].target \in xlock[q]
     \/ At(r, "update") /\ req[r].newName /\ req[r].target \in slock[q]
     \/ /\ At(r, "delCommit")
        /\ \/ req[r].target \in xlock[q] \cup slock[q]
           \/ req[q].pc \in {"insert", "commit"}
                /\ \E s \in SessionsOf(req[r].target) : s.sid = req[q].prior
     \/ At(r, "brew") /\ req[r].actor \in xlock[q]

\* A request that cannot end without another turn of the loop.
NeedsLoop(q) ==
  \/ req[q].pc \in {"delEvict", "delCommit", "respond", "commit"}
  \/ At(q, "insert") /\ req[q].target \in accounts

\* The statement that has stopped the loop waits for a coroutine of the loop.
Wedged == \E r, q \in Requests : blocked = r /\ StopsAt(r, q) /\ NeedsLoop(q)

\* Nothing gets a wedged loop going again but the death of the process, and
\* nothing ends an embrace but that or the failure of one of the two statements
\* that wait: no other statement, expiry or closing session does.  (Code: the
\* blocking sessions of admin/users.py and brew.py; no lock_timeout is set.)
StuckForGood ==
  [][restarts' = restarts =>
       /\ Wedged => Wedged'
       /\ \A d, l \in Requests :
            Embraced(d, l) => Embraced(d, l)' \/ Fail(d) \/ Fail(l)]_vars

\* Every request is answered in the end, unless the loop is stopped for good or
\* a delete and a login embrace.
AnsweredOrWedged ==
  \A r \in Requests : []<>At(r, "idle") \/ <>[]Wedged \/ <>[]Embrace

\* The next step of r waits for no lock, and has the loop or does not need it.
Moves(r) ==
  /\ ~At(r, "idle")
  /\ \A q \in Requests : ~WaitsFor(r, q)
  /\ \/ LoopFree \/ req[r].pc \in {"replace", "insert", "closing"}
     \/ blocked = r /\ ~MustWait(r)

\* Some open request moves, unless the loop is wedged or two requests embrace:
\* there is no third way to get stuck.  (Code: every wait for a row lock in
\* admin/users.py, auth.py, sessions.py and middleware/session.py.)
SomeoneMoves ==
  \/ \A r \in Requests : At(r, "idle")
  \/ Wedged \/ Embrace
  \/ \E r \in Requests : Moves(r)

\* The same of the steps themselves: a request that moves has a step to take.
SomeoneCanGoOn ==
  /\ SomeoneMoves
  /\ \A r \in Requests : Moves(r) => ENABLED Step(r) \/ ENABLED Block(r)

\* The docstring of _count_active_admins: the row locks serialize concurrent
\* demotions, so one that waits for another's rows gets its turn.
DemotionsSerialize ==
  \A r \in Requests :
    (blocked = r /\ XHeldByOther(r, ActiveAdmins)) ~> (blocked # r)
=============================================================================
