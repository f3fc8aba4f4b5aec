----------------------------- MODULE Regenerate -----------------------------
(***************************************************************************)
(* The coffee recommendation of each user: the nightly job, the manual     *)
(* refresh and the admin's refresh of everybody all go through             *)
(* ai_service.regenerate.                                                  *)
(*                                                                         *)
(* Requests are coroutines of the main event loop.  The providers' clients *)
(* are blocking, so a request keeps the loop (variable running) while it   *)
(* generates and yields only where it awaits: the check of the buy link, a *)
(* wait for the asyncio lock, its response.  The nightly job is a thread   *)
(* with a fresh loop per user, and its steps fall between any two steps of *)
(* a request.  The asyncio lock is shared by both and was made for one.    *)
(***************************************************************************)
EXTENDS Naturals, Sequences

CONSTANTS
  Users,
  Sigs,       \* values of compute_input_signature
  Requests,   \* slots for HTTP requests
  Job,        \* the nightly run; max_instances=1
  None

ASSUME RegenerateAssumption ==
  /\ Job \notin Requests
  /\ None \notin Users \cup Sigs \cup Requests \cup {Job}

Runs == Requests \cup {Job}

VARIABLES
  sigs,       \* what compute_input_signature would return now
  coffee,     \* signature of the row get_latest_recommendation returns
  held,       \* _locked of the asyncio.Lock of each user
  queue,      \* its _waiters
  woken,      \* the first waiter's future is done
  bound,      \* the event loop the lock was bound to by its first waiter
  advisory,   \* the transaction that has pg_try_advisory_xact_lock
  older,      \* older[r]: the open transactions begun no later than r's own
  overtaken,  \* users with a row of a transaction begun after r's
  running,    \* the request that has the main loop
  run,
  throttled   \* users with a _THROTTLE entry younger than five minutes

lock == <<held, queue, woken, bound>>
tx == <<advisory, older, overtaken>>
vars == <<sigs, coffee, lock, tx, running, run, throttled>>

Pcs == {"idle", "next", "check", "acquire", "take", "enqueue", "waiting",
        "advisory", "signature", "coffee", "verify", "judged", "sweet",
        "release", "left", "closing"}

RunState ==
  [pc : Pcs,
   user : Users \cup {None},
   todo : SUBSET Users,          \* users that the caller's loop has left
   force : BOOLEAN,
   sig : Sigs \cup {None}]       \* current_sig

Idle == [pc |-> "idle", user |-> None, todo |-> {}, force |-> FALSE, sig |-> None]

At(r, pc) == run[r].pc = pc
Goto(r, pc) == run' = [run EXCEPT ![r].pc = pc]
User(r) == run[r].user

\* A request runs only while it has the loop, the job's thread at any time.
OnLoop(r) == r = Job \/ running = r
Yield(r) == running' = IF r = Job THEN running ELSE None
\* Mutant: the job awaits on the main loop.
RegainMain(r) == running = None /\ running' = r

Regain(r) == /\ r # Job => running = None
             /\ running' = IF r = Job THEN running ELSE r

Init ==
  /\ sigs \in [Users -> Sigs]
  /\ coffee = [u \in Users |-> None]
  /\ held = [u \in Users |-> FALSE] /\ queue = [u \in Users |-> <<>>]
  /\ woken = [u \in Users |-> FALSE] /\ bound = [u \in Users |-> None]
  /\ advisory = [u \in Users |-> None]
  /\ older = [r \in Runs |-> {}] /\ overtaken = [r \in Runs |-> {}]
  /\ running = None
  /\ run = [r \in Runs |-> Idle]
  /\ throttled = {}

-----------------------------------------------------------------------------
(* Transactions.  generated_at is now(), the start of the transaction.     *)

InTx(r) == r \in older[r]

\* The first statement of a session opens its transaction.
Begun(r) == IF InTx(r) THEN older
            ELSE [older EXCEPT ![r] = {q \in Runs : InTx(q)} \cup {r}]
Begin(r) == older' = Begun(r) /\ UNCHANGED <<advisory, overtaken>>

Ended(r) == [q \in Runs |-> older[q] \ (IF q = r THEN older[q] ELSE {r})]
Freed(r) == [u \in Users |-> IF advisory[u] = r THEN None ELSE advisory[u]]

\* A commit or rollback frees every advisory lock of the transaction.
End(r) ==
  /\ older' = Ended(r)
  /\ overtaken' = [overtaken EXCEPT ![r] = {}]
  /\ advisory' = Freed(r)

-----------------------------------------------------------------------------
(* The three callers.                                                      *)

\* post_ai_refresh past its two 429 answers.
Refresh(r, u) ==
  /\ At(r, "idle") /\ running = None
  /\ u \notin throttled /\ ~held[u]
  /\ throttled' = throttled \cup {u}
  /\ running' = r
  /\ run' = [run EXCEPT ![r] = [Idle EXCEPT !.pc = "next", !.todo = {u}, !.force = TRUE]]
  /\ UNCHANGED <<sigs, coffee, lock, tx>>

\* run_ai_refresh: one session, and so maybe one transaction, for everybody.
RefreshAll(r, S, force) ==
  /\ At(r, "idle") /\ running = None
  /\ running' = r
  /\ run' = [run EXCEPT ![r] = [Idle EXCEPT !.pc = "next", !.todo = S, !.force = force]]
  /\ Begin(r)
  /\ UNCHANGED <<sigs, coffee, lock, throttled>>

\* run_nightly_ai_refresh: the eligible users are read in a session of its own.
Nightly(S) ==
  /\ At(Job, "idle")
  /\ run' = [run EXCEPT ![Job] = [Idle EXCEPT !.pc = "next", !.todo = S]]
  /\ UNCHANGED <<sigs, coffee, lock, tx, running, throttled>>

Respond(r) ==
  /\ OnLoop(r) /\ r \in Requests
  /\ At(r, "next") /\ run[r].todo = {}
  /\ Goto(r, "closing")
  /\ Yield(r)
  /\ UNCHANGED <<sigs, coffee, lock, tx, throttled>>

\* get_session leaves its with block in a pool thread, after the response.
CloseSession(r) ==
  /\ At(r, "closing")
  /\ run' = [run EXCEPT ![r] = Idle]
  /\ End(r)
  /\ UNCHANGED <<sigs, coffee, lock, running, throttled>>

\* The job has a session per user.
CloseJobSession ==
  /\ At(Job, "left")
  /\ Goto(Job, "next")
  /\ End(Job)
  /\ UNCHANGED <<sigs, coffee, lock, running, throttled>>

JobDone ==
  /\ At(Job, "next") /\ run[Job].todo = {}
  /\ run' = [run EXCEPT ![Job] = Idle]
  /\ UNCHANGED <<sigs, coffee, lock, tx, running, throttled>>

\* The end of a call of regenerate, whose locals die.
Leave(r, pc) == run' = [run EXCEPT ![r].pc = pc, ![r].user = None, ![r].sig = None]

\* It returns a status to its caller.
Return(r) == Leave(r, IF r = Job THEN "left" ELSE "next") /\ UNCHANGED running

\* It raises: the job counts an error, a request ends with a 500.
Raise(r) == Leave(r, IF r = Job THEN "left" ELSE "closing") /\ Yield(r)

-----------------------------------------------------------------------------
(* regenerate: the cold-start gate and the two locks.                      *)

Gate(r) ==
  /\ OnLoop(r) /\ At(r, "next")
  /\ Begin(r)
  /\ \E u \in run[r].todo :
       \/ run' = [run EXCEPT ![r].pc = "check", ![r].user = u, ![r].todo = @ \ {u}]
       \/ run' = [run EXCEPT ![r].pc = IF r = Job THEN "left" ELSE "next",    \* closed
                             ![r].todo = @ \ {u}]
  /\ UNCHANGED <<sigs, coffee, lock, running, throttled>>

\* lock.locked()
Check(r) ==
  /\ OnLoop(r) /\ At(r, "check")
  /\ \/ held[User(r)] /\ Return(r)
     \/ ~held[User(r)] /\ Goto(r, "acquire") /\ UNCHANGED running
  /\ UNCHANGED <<sigs, coffee, lock, tx, throttled>>

\* The fast path of Lock.acquire.  A lock that has never had a waiter is tested
\* and set at once; later the test iterates the deque, where threads may switch.
Acquire(r) ==
  LET u == User(r)
      free == ~held[u] /\ queue[u] = <<>> IN
  /\ OnLoop(r) /\ At(r, "acquire")
  /\ \/ /\ free /\ bound[u] = None
        /\ held' = [held EXCEPT ![u] = TRUE]
        /\ Goto(r, "advisory")
     \/ free /\ bound[u] # None /\ Goto(r, "take") /\ UNCHANGED held
     \/ ~free /\ Goto(r, "enqueue") /\ UNCHANGED held
  /\ UNCHANGED <<sigs, coffee, queue, woken, bound, tx, running, throttled>>

Take(r) ==
  /\ OnLoop(r) /\ At(r, "take")
  /\ held' = [held EXCEPT ![User(r)] = TRUE]
  /\ Goto(r, "advisory")
  /\ UNCHANGED <<sigs, coffee, queue, woken, bound, tx, running, throttled>>

LoopOf(r) == IF r = Job THEN "job" ELSE "main"

\* Every user of the job has a loop of its own, so the job never finds its own.
OtherLoop(r) == bound[User(r)] # None /\ (r = Job \/ bound[User(r)] = "job")

\* The slow path: a waiter of the loop that the lock is bound to, or an error.
Enqueue(r) ==
  LET u == User(r) IN
  /\ OnLoop(r) /\ At(r, "enqueue")
  /\ \/ /\ ~OtherLoop(r)
        /\ bound' = [bound EXCEPT ![u] = LoopOf(r)]
        /\ queue' = [queue EXCEPT ![u] = Append(@, r)]
        /\ Goto(r, "waiting") /\ Yield(r)
     \/ OtherLoop(r) /\ Raise(r) /\ UNCHANGED <<bound, queue>>
  /\ UNCHANGED <<sigs, coffee, held, woken, tx, throttled>>

\* The waiter sets _locked without looking at it.
Resume(r) ==
  LET u == User(r) IN
  /\ At(r, "waiting") /\ queue[u] # <<>> /\ Head(queue[u]) = r /\ woken[u]
  /\ Regain(r)
  /\ queue' = [queue EXCEPT ![u] = Tail(@)]
  /\ woken' = [woken EXCEPT ![u] = FALSE]
  /\ held' = [held EXCEPT ![u] = TRUE]
  /\ Goto(r, "advisory")
  /\ UNCHANGED <<sigs, coffee, bound, tx, throttled>>

\* The end of async with.  A lock that somebody else has released raises.
Release(r) ==
  LET u == User(r) IN
  /\ OnLoop(r) /\ At(r, "release")
  /\ \/ /\ held[u]
        /\ held' = [held EXCEPT ![u] = FALSE]
        /\ woken' = [woken EXCEPT ![u] = queue[u] # <<>>]
        /\ Return(r)
     \/ ~held[u] /\ Raise(r) /\ UNCHANGED <<held, woken>>
  /\ UNCHANGED <<sigs, coffee, queue, bound, tx, throttled>>

\* Mutant: the answer of pg_try_advisory_xact_lock is not looked at.
TryAdvisoryLockIgnored(r) ==
  /\ OnLoop(r) /\ At(r, "advisory")
  /\ advisory' = [advisory EXCEPT ![User(r)] = IF @ = None THEN r ELSE @]
  /\ Goto(r, "signature")
  /\ UNCHANGED <<sigs, coffee, lock, older, overtaken, running, throttled>>

TryAdvisoryLock(r) ==
  LET u == User(r) IN
  /\ OnLoop(r) /\ At(r, "advisory")
  /\ \/ /\ advisory[u] \in {None, r}
        /\ advisory' = [advisory EXCEPT ![u] = r]
        /\ Goto(r, "signature")
     \/ advisory[u] \notin {None, r} /\ Goto(r, "release") /\ UNCHANGED advisory
  /\ UNCHANGED <<sigs, coffee, lock, older, overtaken, running, throttled>>

-----------------------------------------------------------------------------
(* regenerate: the signature, the coffee row and the prose.                *)

CheckSignature(r) ==
  LET u == User(r) IN
  /\ OnLoop(r) /\ At(r, "signature")
  /\ run' = IF coffee[u] = sigs[u] /\ ~run[r].force
            THEN [run EXCEPT ![r].pc = "release"]
            ELSE [run EXCEPT ![r].pc = "coffee", ![r].sig = sigs[u]]
  /\ UNCHANGED <<sigs, coffee, lock, tx, running, throttled>>

Generating(r) == OnLoop(r) /\ run[r].pc \in {"coffee", "judged"}

\* Mutant: acquire and release by hand, with no release on this way out.
GiveUpLocked(r) ==
  /\ Generating(r)
  /\ Return(r)
  /\ UNCHANGED <<sigs, coffee, lock, tx, throttled>>

\* No credential, or an exception that is no reason to try the next tier.
GiveUp(r) ==
  /\ Generating(r)
  /\ Goto(r, "release")
  /\ UNCHANGED <<sigs, coffee, lock, tx, running, throttled>>

\* Mutant: no session across an await, so a commit comes first.
VerifyUrlCommitted(r) ==
  /\ OnLoop(r) /\ At(r, "coffee")
  /\ End(r)
  /\ Goto(r, "verify")
  /\ Yield(r)
  /\ UNCHANGED <<sigs, coffee, lock, throttled>>

\* The first tier's candidate has a link to check, once per generation.
VerifyUrl(r) ==
  /\ OnLoop(r) /\ At(r, "coffee")
  /\ Goto(r, "verify")
  /\ Yield(r)
  /\ UNCHANGED <<sigs, coffee, lock, tx, throttled>>

\* Mutant: without _archived_retry_attempted the new candidate is verified too.
UrlVerifiedAgain(r) ==
  /\ At(r, "verify")
  /\ Regain(r)
  /\ Goto(r, "coffee")
  /\ UNCHANGED <<sigs, coffee, lock, tx, throttled>>

UrlVerified(r) ==
  /\ At(r, "verify")
  /\ Regain(r)
  /\ Goto(r, "judged")
  /\ UNCHANGED <<sigs, coffee, lock, tx, throttled>>

\* Every tier failed: an error row, which no reader of coffee rows sees.
AllTiersFail(r) ==
  /\ Generating(r)
  /\ End(r)
  /\ Goto(r, "release")
  /\ UNCHANGED <<sigs, coffee, lock, running, throttled>>

\* Mutant: the signature is computed when the row is written.
PublishResigned(r) ==
  LET u == User(r) IN
  /\ Generating(r)
  /\ coffee' = IF u \in overtaken[r] THEN coffee ELSE [coffee EXCEPT ![u] = sigs[u]]
  /\ older' = Ended(r) /\ advisory' = Freed(r)
  /\ overtaken' = [q \in Runs |-> IF q = r THEN {}
                                  ELSE IF q \in older[r] THEN overtaken[q] \cup {u}
                                  ELSE overtaken[q]]
  /\ Goto(r, "sweet")
  /\ UNCHANGED <<sigs, lock, running, throttled>>

\* The row is the one served unless a younger transaction has committed its own.
Publish(r) ==
  LET u == User(r) IN
  /\ Generating(r)
  /\ coffee' = IF u \in overtaken[r] THEN coffee ELSE [coffee EXCEPT ![u] = run[r].sig]
  /\ older' = Ended(r) /\ advisory' = Freed(r)
  /\ overtaken' = [q \in Runs |-> IF q = r THEN {}
                                  ELSE IF q \in older[r] THEN overtaken[q] \cup {u}
                                  ELSE overtaken[q]]
  /\ Goto(r, "sweet")
  /\ UNCHANGED <<sigs, lock, running, throttled>>

\* Prose written in a transaction of its own, or not: no data, or an exception.
SweetSpots(r) ==
  /\ OnLoop(r) /\ At(r, "sweet")
  /\ Goto(r, "release")
  /\ Begin(r) \/ UNCHANGED tx
  /\ UNCHANGED <<sigs, coffee, lock, running, throttled>>

-----------------------------------------------------------------------------
(* The environment.                                                        *)

\* Brews and cafe logs are saved by coroutines of the main loop.
SaveRating(u) ==
  /\ running = None
  /\ \E s \in Sigs : sigs' = [sigs EXCEPT ![u] = s]
  /\ UNCHANGED <<coffee, lock, tx, running, run, throttled>>

ThrottleExpires(u) ==
  /\ throttled' = throttled \ {u}
  /\ UNCHANGED <<sigs, coffee, lock, tx, running, run>>

Restart ==
  /\ held' = [u \in Users |-> FALSE] /\ queue' = [u \in Users |-> <<>>]
  /\ woken' = [u \in Users |-> FALSE] /\ bound' = [u \in Users |-> None]
  /\ advisory' = [u \in Users |-> None]
  /\ older' = [r \in Runs |-> {}] /\ overtaken' = [r \in Runs |-> {}]
  /\ running' = None
  /\ run' = [r \in Runs |-> Idle]
  /\ throttled' = {}
  /\ UNCHANGED <<sigs, coffee>>

LockStep(r) ==
  \/ Gate(r) \/ Check(r) \/ Acquire(r) \/ Take(r) \/ Enqueue(r)
  \/ Release(r) \/ TryAdvisoryLock(r)

GenerateStep(r) ==
  \/ CheckSignature(r) \/ GiveUp(r) \/ VerifyUrl(r) \/ UrlVerified(r)
  \/ AllTiersFail(r) \/ Publish(r) \/ SweetSpots(r)

RequestStep(r) ==
  LockStep(r) \/ GenerateStep(r) \/ Resume(r) \/ Respond(r) \/ CloseSession(r)

JobStep == LockStep(Job) \/ GenerateStep(Job) \/ CloseJobSession \/ JobDone

Start ==
  \/ \E r \in Requests, u \in Users : Refresh(r, u)
  \/ \E r \in Requests, S \in SUBSET Users, force \in BOOLEAN : RefreshAll(r, S, force)
  \/ \E S \in SUBSET Users : Nightly(S)

Next ==
  \/ Start
  \/ \E r \in Requests : RequestStep(r)
  \/ JobStep
  \/ Resume(Job)
  \/ \E u \in Users : SaveRating(u) \/ ThrottleExpires(u)
  \/ Restart

Spec == Init /\ [][Next]_vars

\* The main loop runs what is ready in order, and every provider call ends.  A
\* release by the main loop sets the job's future without waking the job's loop.
Fairness == /\ \A r \in Requests : SF_vars(RequestStep(r))
            /\ WF_vars(JobStep)
FairSpec == Spec /\ Fairness

-----------------------------------------------------------------------------
(* Properties.                                                             *)

TypeOK ==
  /\ sigs \in [Users -> Sigs]
  /\ coffee \in [Users -> Sigs \cup {None}]
  /\ held \in [Users -> BOOLEAN] /\ queue \in [Users -> Seq(Runs)]
  /\ woken \in [Users -> BOOLEAN] /\ bound \in [Users -> {"main", "job", None}]
  /\ advisory \in [Users -> Runs \cup {None}]
  /\ older \in [Runs -> SUBSET Runs] /\ overtaken \in [Runs -> SUBSET Users]
  /\ running \in Requests \cup {None}
  /\ run \in [Runs -> RunState]
  /\ throttled \subseteq Users

InCoffee(r) == run[r].pc \in {"coffee", "verify", "judged"}

\* Whatever becomes of the asyncio lock, two runs never generate a coffee for
\* one user at the same time: the advisory lock is kept until the row commits.
OneCoffeeAtATime ==
  \A q, r \in Runs : InCoffee(q) /\ InCoffee(r) /\ User(q) = User(r) => q = r

\* A nightly or unforced admin run never pays for a signature that the row in
\* force when it commits already has, although the check lies an await earlier.
NeverPaidTwice ==
  [][\A r \in Runs : Publish(r) /\ ~run[r].force => run[r].sig # coffee[User(r)]]_vars

\* The deal a run has from its signature check to the commit of its row.
Deal(r) == [by |-> r, sig |-> run[r].sig, forced |-> run[r].force]

Shop == INSTANCE OneBuyer WITH
          Buyers <- Runs, served <- coffee,
          deal <- [u \in Users |-> {Deal(r) : r \in {q \in Runs : InCoffee(q) /\ User(q) = u}}]

\* Threads, loops and both locks seen from outside: to each user the runs are
\* one buyer after the other, whose coffee is the one whose signature he
\* checked. (Code: ai_service.regenerate and _generate_coffee_rec.)
BoughtOneByOne == Shop!Spec

\* The home card's spinner, which shows the asyncio lock, always stops.
SpinnerStops == \A u \in Users : held[u] ~> ~held[u]

\* Inside async with lock.
InLock(r, u) ==
  User(r) = u /\ run[r].pc \in {"advisory", "signature", "coffee", "verify", "judged",
                                "sweet", "release"}
Woken(r) == At(r, "waiting") /\ Head(queue[User(r)]) = r /\ woken[User(r)]

\* A lock that is free and has waiters, none of them woken, and nobody who is
\* about to take it: the release fell between a test of the lock and the entry
\* in its queue.
Stranded(u) ==
  /\ queue[u] # <<>> /\ ~held[u] /\ ~woken[u]
  /\ \A r \in Runs : User(r) = u => ~At(r, "take")

\* Such a lock is lost until the process ends: whoever waits for it waits on,
\* and nobody gets a new coffee through it. (Code: ai_service.regenerate and the
\* asyncio.Lock that the job's thread shares with the main loop.)
StrandedForGood ==
  [][\A u \in Users : Stranded(u) /\ ~Restart =>
       /\ Stranded(u)'
       /\ \A r \in Runs : /\ At(r, "waiting") /\ User(r) = u => At(r, "waiting")'
                          /\ InLock(r, u)' => InLock(r, u)]_vars

\* The job has been woken by a release on the main loop, which does not wake the
\* selector of the job's own loop.
Asleep(u) == User(Job) = u /\ Woken(Job)

\* A run comes to its end, unless it waits for a lock that is stranded, or that
\* is the turn of a job asleep. (Code: regenerate and its three callers.)
EndsOrWaits ==
  \A r \in Runs :
    \/ []<>At(r, "idle")
    \/ <>[](At(r, "waiting") /\ (Stranded(User(r)) \/ Asleep(User(r))))

\* What a run needs for its next step: the loop, if it is no thread of its own,
\* and as a waiter of the lock to be woken.
CanMove(r) ==
  \/ OnLoop(r) /\ run[r].pc \notin {"idle", "waiting", "verify"}
  \/ At(r, "closing")
  \/ (At(r, "verify") \/ Woken(r)) /\ (r = Job \/ running = None)

\* Nothing else hangs: a run that cannot move waits for one that has the loop and
\* moves, or for its turn behind one that has the lock, takes it or is woken.
\* (Code: the awaits of regenerate and of its three callers.)
OnlyStrandedHang ==
  \A r \in Runs :
    \/ At(r, "idle") \/ CanMove(r)
    \/ (At(r, "verify") \/ Woken(r)) /\ running # None /\ CanMove(running)
    \/ /\ At(r, "waiting")
       /\ \/ Stranded(User(r))
          \/ \E q \in Runs \ {r} : /\ User(q) = User(r)
                                   /\ InLock(q, User(r)) \/ At(q, "take") \/ Woken(q)

\* Claimed by get_latest_recommendation: "the newest successful row" is read.
NewestIsServed ==
  [][\A r \in Runs : Publish(r) => coffee'[User(r)] = run[r].sig]_vars
=============================================================================
