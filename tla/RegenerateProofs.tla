-------------------------- MODULE RegenerateProofs --------------------------
(* Proofs about Regenerate: for any users, signatures and requests.        *)
EXTENDS Regenerate, TLAPS

\* A run inside regenerate; with the advisory lock; about to pay.
Inside == {"check", "acquire", "take", "enqueue", "waiting", "advisory",
           "signature", "coffee", "verify", "judged", "sweet", "release"}
Holding == {"signature", "coffee", "verify", "judged"}
Paying == {"coffee", "verify", "judged"}

\* A run inside regenerate works for a user.
Located == \A r \in Runs : run[r].pc \in Inside => User(r) \in Users

\* From the signature check to the coffee row a run has its user's advisory lock.
AdvisoryKept == \A r \in Runs : run[r].pc \in Holding => advisory[User(r)] = r

\* A run about to pay has a signature, and an unforced one a new signature.
SigKept ==
  \A r \in Runs : run[r].pc \in Paying =>
    run[r].sig \in Sigs /\ (~run[r].force => run[r].sig # coffee[User(r)])

Inv == TypeOK /\ Located /\ AdvisoryKept /\ SigKept

\* Nobody but r has lost an advisory lock, or the coffee row it protects.
OthersKeep(r) ==
  \A p \in Runs \ {r}, u \in Users : advisory[u] = p => advisory'[u] = p /\ coffee'[u] = coffee[u]

-----------------------------------------------------------------------------
\* The markers are not runs, users or signatures.
LEMMA Distinct == None \notin Users /\ None \notin Sigs /\ None \notin Runs
                    /\ Job \in Runs /\ Job \notin Requests /\ Requests \subseteq Runs
  BY RegenerateAssumption DEF RegenerateAssumption, Runs

\* The record of a run that does nothing is one of the records.
LEMMA IdleTyped == Idle \in RunState /\ Idle.pc = "idle"
  BY DEF Idle, RunState, Pcs

\* A run that gets a sound record, while the others keep what they rely on.
LEMMA OneRun ==
  ASSUME Inv, NEW r \in Runs, NEW q \in RunState, run' = [run EXCEPT ![r] = q],
         q.pc \in Inside => q.user \in Users,
         q.pc \in Holding => advisory'[q.user] = r,
         q.pc \in Paying =>
           q.sig \in Sigs /\ (~q.force => q.sig # coffee'[q.user]),
         OthersKeep(r)
  PROVE  run' \in [Runs -> RunState] /\ Located' /\ AdvisoryKept' /\ SigKept'
<1>1. run' \in [Runs -> RunState] /\ run'[r] = q /\ \A p \in Runs \ {r} : run'[p] = run[p]
  BY DEF Inv, TypeOK
<1>2. Located'
  BY <1>1 DEF Inv, Located, User
<1>3. Paying \subseteq Holding /\ Holding \subseteq Inside
  BY DEF Paying, Holding, Inside
<1>4. ASSUME NEW p \in Runs \ {r}, run[p].pc \in Holding
      PROVE  advisory'[User(p)] = p /\ coffee'[User(p)] = coffee[User(p)]
  BY <1>3, <1>4 DEF Inv, Located, AdvisoryKept, OthersKeep
<1>5. AdvisoryKept'
  BY <1>1, <1>4 DEF AdvisoryKept, User
<1>6. SigKept'
  BY <1>1, <1>3, <1>4 DEF Inv, SigKept, User
<1>7. QED
  BY <1>1, <1>2, <1>5, <1>6

\* A run outside of regenerate owes nothing.
LEMMA AwayKeeps ==
  ASSUME Inv, NEW r \in Runs, NEW q \in RunState, run' = [run EXCEPT ![r] = q],
         q.pc \notin Inside, OthersKeep(r)
  PROVE  run' \in [Runs -> RunState] /\ Located' /\ AdvisoryKept' /\ SigKept'
<1>1. q.pc \notin Holding /\ q.pc \notin Paying
  BY DEF Inside, Holding, Paying
<1>2. QED
  BY <1>1, OneRun

\* A run that only moves on keeps the rest of its record.
LEMMA GotoTyped ==
  ASSUME Inv, NEW r \in Runs, NEW pc \in Pcs
  PROVE  LET q == [run[r] EXCEPT !.pc = pc] IN
         /\ q \in RunState /\ q.pc = pc
         /\ q.user = run[r].user /\ q.sig = run[r].sig /\ q.force = run[r].force
  BY DEF Inv, TypeOK, RunState

\* A run that moves on, locks and coffee rows unchanged.
LEMMA GotoKeeps ==
  ASSUME Inv, NEW r \in Runs, NEW pc \in Pcs, Goto(r, pc),
         UNCHANGED <<advisory, coffee>>,
         pc \in Inside => run[r].pc \in Inside,
         pc \in Holding => run[r].pc \in Holding,
         pc \in Paying => run[r].pc \in Paying
  PROVE  run' \in [Runs -> RunState] /\ Located' /\ AdvisoryKept' /\ SigKept'
<1> DEFINE q == [run[r] EXCEPT !.pc = pc]
<1>1. /\ q \in RunState /\ q.pc = pc
      /\ q.user = run[r].user /\ q.sig = run[r].sig /\ q.force = run[r].force
  BY GotoTyped
<1>2. run' = [run EXCEPT ![r] = q]
  BY DEF Goto
<1>3. OthersKeep(r)
  BY DEF OthersKeep
<1>4. /\ q.pc \in Inside => q.user \in Users
      /\ q.pc \in Holding => advisory'[q.user] = r
      /\ q.pc \in Paying => q.sig \in Sigs /\ (~q.force => q.sig # coffee'[q.user])
  BY <1>1 DEF Inv, Located, AdvisoryKept, SigKept, User
<1> HIDE DEF q
<1>5. QED
  BY <1>1, <1>2, <1>3, <1>4, OneRun

\* A run past its commit, which needs no lock any more.
LEMMA ToReleaseKeeps ==
  ASSUME Inv, NEW r \in Runs, NEW pc \in {"sweet", "release"}, Goto(r, pc),
         run[r].pc \in Inside, OthersKeep(r)
  PROVE  run' \in [Runs -> RunState] /\ Located' /\ AdvisoryKept' /\ SigKept'
<1> DEFINE q == [run[r] EXCEPT !.pc = pc]
<1>0. pc \in Pcs
  BY DEF Pcs
<1>1. q \in RunState /\ q.pc = pc /\ q.user = run[r].user
  BY <1>0, GotoTyped
<1>2. run' = [run EXCEPT ![r] = q]
  BY DEF Goto
<1>3. q.user \in Users /\ pc \notin Holding /\ pc \notin Paying
  BY <1>1 DEF Inv, Located, User, Holding, Paying
<1> HIDE DEF q
<1>4. QED
  BY <1>1, <1>2, <1>3, OneRun

\* A call of regenerate ends.
LEMMA LeaveKeeps ==
  ASSUME Inv, NEW r \in Runs, NEW pc \in Pcs \ Inside, Leave(r, pc),
         UNCHANGED <<advisory, coffee>>
  PROVE  run' \in [Runs -> RunState] /\ Located' /\ AdvisoryKept' /\ SigKept'
<1> DEFINE q == [run[r] EXCEPT !.pc = pc, !.user = None, !.sig = None]
<1>1. q \in RunState /\ q.pc = pc
  BY DEF Inv, TypeOK, RunState
<1>2. run' = [run EXCEPT ![r] = q]
  BY DEF Leave
<1>3. OthersKeep(r)
  BY DEF OthersKeep
<1> HIDE DEF q
<1>4. QED
  BY <1>1, <1>2, <1>3, AwayKeeps

\* A transaction ends: the variables stay typed and others keep their locks.
LEMMA EndTyped ==
  ASSUME TypeOK, NEW r \in Runs, older' = Ended(r), advisory' = Freed(r)
  PROVE  /\ older' \in [Runs -> SUBSET Runs] /\ advisory' \in [Users -> Runs \cup {None}]
         /\ \A p \in Runs \ {r}, u \in Users : advisory[u] = p => advisory'[u] = p
  BY DEF TypeOK, Ended, Freed

\* A transaction begins.
LEMMA BeginTyped ==
  ASSUME TypeOK, NEW r \in Runs, Begin(r)
  PROVE  older' \in [Runs -> SUBSET Runs] /\ UNCHANGED <<advisory, overtaken>>
  BY DEF TypeOK, Begin, Begun

\* Giving up and taking back the main loop.
LEMMA LoopTyped ==
  ASSUME TypeOK, NEW r \in Runs, Yield(r) \/ Regain(r)
  PROVE  running' \in Requests \cup {None}
  BY DEF TypeOK, Yield, Regain, Runs

-----------------------------------------------------------------------------
\* The initial state satisfies the invariant.
LEMMA InvInit == Init => Inv
<1> SUFFICES ASSUME Init PROVE Inv
  OBVIOUS
<1>1. TypeOK
  BY IdleTyped DEF Init, TypeOK
<1>2. Located /\ AdvisoryKept /\ SigKept
  BY IdleTyped DEF Init, Located, AdvisoryKept, SigKept, Inside, Holding, Paying
<1> QED
  BY <1>1, <1>2 DEF Inv

\* What starts a run keeps the invariant.
LEMMA StartStep == Inv /\ Start => Inv'
<1> SUFFICES ASSUME Inv, Start PROVE Inv'
  OBVIOUS
<1>0. TypeOK
  BY DEF Inv
<1>1. ASSUME NEW S \in SUBSET Users, NEW force \in BOOLEAN
      PROVE  LET q == [Idle EXCEPT !.pc = "next", !.todo = S, !.force = force]
                 n == [Idle EXCEPT !.pc = "next", !.todo = S] IN
             q \in RunState /\ q.pc = "next" /\ n \in RunState /\ n.pc = "next"
  BY DEF Idle, RunState, Pcs
<1>2. ASSUME NEW r \in Requests, NEW u \in Users, Refresh(r, u) PROVE Inv'
  <2>1. run' \in [Runs -> RunState] /\ Located' /\ AdvisoryKept' /\ SigKept'
    BY <1>1, <1>2, AwayKeeps, Distinct DEF Refresh, tx, OthersKeep, Inside
  <2>2. QED
    BY <1>0, <1>2, <2>1 DEF Refresh, Inv, TypeOK, lock, tx
<1>3. ASSUME NEW r \in Requests, NEW S \in SUBSET Users, NEW force \in BOOLEAN,
             RefreshAll(r, S, force)
      PROVE  Inv'
  <2>1. older' \in [Runs -> SUBSET Runs] /\ UNCHANGED <<advisory, overtaken>>
    BY <1>0, <1>3, BeginTyped, Distinct DEF RefreshAll
  <2>2. run' \in [Runs -> RunState] /\ Located' /\ AdvisoryKept' /\ SigKept'
    BY <1>1, <1>3, <2>1, AwayKeeps, Distinct DEF RefreshAll, OthersKeep, Inside
  <2>3. QED
    BY <1>0, <1>3, <2>1, <2>2 DEF RefreshAll, Inv, TypeOK, lock
<1>4. ASSUME NEW S \in SUBSET Users, Nightly(S) PROVE Inv'
  <2>1. run' \in [Runs -> RunState] /\ Located' /\ AdvisoryKept' /\ SigKept'
    BY <1>1, <1>4, AwayKeeps, Distinct DEF Nightly, tx, OthersKeep, Inside
  <2>2. QED
    BY <1>0, <1>4, <2>1 DEF Nightly, Inv, TypeOK, lock, tx
<1>5. QED
  BY <1>2, <1>3, <1>4 DEF Start

\* The callers' own steps keep the invariant.
LEMMA CallerStep ==
  ASSUME Inv, NEW r \in Runs,
         (r \in Requests /\ (Respond(r) \/ CloseSession(r))) \/ CloseJobSession \/ JobDone
  PROVE  Inv'
<1>0. TypeOK
  BY DEF Inv
<1>1. CASE r \in Requests /\ Respond(r)
  <2>1. running' \in Requests \cup {None}
    BY <1>0, <1>1, LoopTyped DEF Respond
  <2>2. run' \in [Runs -> RunState] /\ Located' /\ AdvisoryKept' /\ SigKept'
    BY <1>1, GotoKeeps DEF Respond, Pcs, Inside, Holding, Paying, tx
  <2>3. QED
    BY <1>0, <1>1, <2>1, <2>2 DEF Respond, Inv, TypeOK, lock, tx
<1>2. CASE r \in Requests /\ CloseSession(r)
  <2>1. /\ older' \in [Runs -> SUBSET Runs] /\ advisory' \in [Users -> Runs \cup {None}]
        /\ OthersKeep(r)
    BY <1>0, <1>2, EndTyped DEF CloseSession, End, OthersKeep
  <2>2. run' \in [Runs -> RunState] /\ Located' /\ AdvisoryKept' /\ SigKept'
    BY <1>2, <2>1, AwayKeeps, IdleTyped DEF CloseSession, Inside
  <2>3. QED
    BY <1>0, <1>2, <2>1, <2>2 DEF CloseSession, End, Inv, TypeOK, lock
<1>3. CASE CloseJobSession
  <2> DEFINE q == [run[Job] EXCEPT !.pc = "next"]
  <2>1. /\ older' \in [Runs -> SUBSET Runs] /\ advisory' \in [Users -> Runs \cup {None}]
        /\ OthersKeep(Job)
    BY <1>0, <1>3, EndTyped, Distinct DEF CloseJobSession, End, OthersKeep
  <2>2. q \in RunState /\ q.pc = "next"
    BY GotoTyped, Distinct DEF Pcs
  <2>3. run' = [run EXCEPT ![Job] = q]
    BY <1>3 DEF CloseJobSession, Goto
  <2> HIDE DEF q
  <2>4. run' \in [Runs -> RunState] /\ Located' /\ AdvisoryKept' /\ SigKept'
    BY <2>1, <2>2, <2>3, AwayKeeps, Distinct DEF Inside
  <2>5. QED
    BY <1>0, <1>3, <2>1, <2>4 DEF CloseJobSession, End, Inv, TypeOK, lock
<1>4. CASE JobDone
  <2>1. run' \in [Runs -> RunState] /\ Located' /\ AdvisoryKept' /\ SigKept'
    BY <1>4, AwayKeeps, IdleTyped, Distinct DEF JobDone, Inside, OthersKeep, tx
  <2>2. QED
    BY <1>0, <1>4, <2>1 DEF JobDone, Inv, TypeOK, lock, tx
<1>5. QED
  BY <1>1, <1>2, <1>3, <1>4

\* Returning from regenerate, and raising.
LEMMA ReturnKeeps ==
  ASSUME Inv, NEW r \in Runs, Return(r) \/ Raise(r), UNCHANGED <<advisory, coffee>>
  PROVE  /\ running' \in Requests \cup {None}
         /\ run' \in [Runs -> RunState] /\ Located' /\ AdvisoryKept' /\ SigKept'
<1>1. running' \in Requests \cup {None}
  BY LoopTyped DEF Inv, TypeOK, Return, Raise
<1>2. {"left", "next", "closing"} \subseteq Pcs \ Inside
  BY DEF Pcs, Inside
<1>3. QED
  BY <1>1, <1>2, LeaveKeeps DEF Return, Raise

\* The steps about the two locks keep the invariant.
LEMMA LocksStep ==
  ASSUME Inv, NEW r \in Runs, LockStep(r) \/ Resume(r)
  PROVE  Inv'
<1>0. TypeOK
  BY DEF Inv
<1> DEFINE Kept == run' \in [Runs -> RunState] /\ Located' /\ AdvisoryKept' /\ SigKept'
<1>1. CASE Gate(r)
  <2>1. older' \in [Runs -> SUBSET Runs] /\ UNCHANGED <<advisory, overtaken>>
    BY <1>0, <1>1, BeginTyped DEF Gate
  <2>2. PICK u \in Users, q \in RunState :
          /\ run' = [run EXCEPT ![r] = q]
          /\ \/ q.pc = "check" /\ q.user = u
             \/ q.pc \in {"left", "next"}
    <3>1. PICK u \in run[r].todo :
            \/ run' = [run EXCEPT ![r].pc = "check", ![r].user = u, ![r].todo = @ \ {u}]
            \/ run' = [run EXCEPT ![r].pc = IF r = Job THEN "left" ELSE "next",
                                  ![r].todo = @ \ {u}]
      BY <1>1 DEF Gate
    <3>2. u \in Users /\ run[r] \in RunState
      BY <1>0 DEF TypeOK, RunState
    <3> DEFINE open == [run[r] EXCEPT !.pc = "check", !.user = u, !.todo = @ \ {u}]
               closed == [run[r] EXCEPT !.pc = IF r = Job THEN "left" ELSE "next",
                                        !.todo = @ \ {u}]
    <3>3. open \in RunState /\ open.pc = "check" /\ open.user = u
      BY <3>2 DEF RunState, Pcs
    <3>4. closed \in RunState /\ closed.pc \in {"left", "next"}
      BY <3>2 DEF RunState, Pcs
    <3>5. run' = [run EXCEPT ![r] = open] \/ run' = [run EXCEPT ![r] = closed]
      BY <3>1
    <3> HIDE DEF open, closed
    <3>6. QED
      BY <3>2, <3>3, <3>4, <3>5
  <2>3. q.pc \notin Holding /\ q.pc \notin Paying /\ (q.pc \in Inside => q.user \in Users)
    BY <2>2 DEF Inside, Holding, Paying
  <2>4. OthersKeep(r)
    BY <1>1, <2>1 DEF Gate, OthersKeep
  <2>5. Kept
    BY <2>2, <2>3, <2>4, OneRun
  <2>6. QED
    BY <1>0, <1>1, <2>1, <2>5 DEF Gate, Inv, TypeOK, lock
<1>2. CASE Check(r)
  <2>1. running' \in Requests \cup {None} /\ Kept
    BY <1>0, <1>2, ReturnKeeps, GotoKeeps
       DEF Check, At, Pcs, Inside, Holding, Paying, tx, TypeOK
  <2>2. QED
    BY <1>0, <1>2, <2>1 DEF Check, Inv, TypeOK, lock, tx
<1>3. CASE Acquire(r)
  <2>1. Kept
    BY <1>3, GotoKeeps DEF Acquire, At, Pcs, Inside, Holding, Paying, tx
  <2>2. held' \in [Users -> BOOLEAN]
    BY <1>0, <1>3 DEF Acquire, TypeOK
  <2>3. QED
    BY <1>0, <1>3, <2>1, <2>2 DEF Acquire, Inv, TypeOK, tx
<1>4. CASE Take(r)
  <2>1. Kept
    BY <1>4, GotoKeeps DEF Take, At, Pcs, Inside, Holding, Paying, tx
  <2>2. QED
    BY <1>0, <1>4, <2>1 DEF Take, Inv, TypeOK, tx
<1>5. CASE Enqueue(r)
  <2>1. running' \in Requests \cup {None} /\ Kept
    BY <1>0, <1>5, ReturnKeeps, GotoKeeps, LoopTyped
       DEF Enqueue, At, Pcs, Inside, Holding, Paying, tx
  <2>2. User(r) \in Users
    BY <1>5 DEF Enqueue, Inv, Located, At, Inside
  <2>3. bound' \in [Users -> {"main", "job", None}]
    BY <1>0, <1>5 DEF Enqueue, TypeOK, LoopOf
  <2>4. Append(queue[User(r)], r) \in Seq(Runs)
    BY <1>0, <2>2 DEF TypeOK
  <2>5. queue' \in [Users -> Seq(Runs)]
    BY <1>0, <1>5, <2>4 DEF Enqueue, TypeOK
  <2>6. QED
    BY <1>0, <1>5, <2>1, <2>3, <2>5 DEF Enqueue, Inv, TypeOK, tx
<1>6. CASE Release(r)
  <2>1. running' \in Requests \cup {None} /\ Kept
    BY <1>6, ReturnKeeps DEF Release, tx
  <2>2. held' \in [Users -> BOOLEAN] /\ woken' \in [Users -> BOOLEAN]
    BY <1>0, <1>6 DEF Release, TypeOK
  <2>3. QED
    BY <1>0, <1>6, <2>1, <2>2 DEF Release, Inv, TypeOK, tx
<1>7. CASE TryAdvisoryLock(r)
  <2> DEFINE u == User(r)
  <2>1. u \in Users
    BY <1>7 DEF TryAdvisoryLock, Inv, Located, At, Inside
  <2>2. CASE advisory[u] \in {None, r} /\ advisory' = [advisory EXCEPT ![u] = r]
             /\ Goto(r, "signature")
    <3> DEFINE q == [run[r] EXCEPT !.pc = "signature"]
    <3>1. q \in RunState /\ q.pc = "signature" /\ q.user = u
      BY GotoTyped DEF Pcs, User
    <3>2. run' = [run EXCEPT ![r] = q]
      BY <2>2 DEF Goto
    <3>3. advisory' \in [Users -> Runs \cup {None}] /\ advisory'[u] = r
      BY <1>0, <2>1, <2>2 DEF TypeOK
    <3>4. OthersKeep(r)
      BY <1>0, <1>7, <2>1, <2>2, Distinct DEF TryAdvisoryLock, OthersKeep, TypeOK
    <3> HIDE DEF q
    <3>5. Kept
      BY <2>1, <3>1, <3>2, <3>3, <3>4, OneRun DEF Paying
    <3>6. QED
      BY <1>0, <1>7, <3>3, <3>5 DEF TryAdvisoryLock, Inv, TypeOK, lock
  <2>3. CASE Goto(r, "release") /\ UNCHANGED advisory
    <3>1. Kept
      BY <1>7, <2>3, GotoKeeps DEF TryAdvisoryLock, At, Pcs, Inside, Holding, Paying
    <3>2. QED
      BY <1>0, <1>7, <2>3, <3>1 DEF TryAdvisoryLock, Inv, TypeOK, lock
  <2>4. QED
    BY <1>7, <2>2, <2>3 DEF TryAdvisoryLock
<1>8. CASE Resume(r)
  <2>1. Kept
    BY <1>8, GotoKeeps DEF Resume, At, Pcs, Inside, Holding, Paying, tx
  <2>2. running' \in Requests \cup {None}
    BY <1>0, <1>8, LoopTyped DEF Resume
  <2>3. User(r) \in Users
    BY <1>8 DEF Resume, Inv, Located, At, Inside
  <2>4. Tail(queue[User(r)]) \in Seq(Runs)
    BY <1>0, <1>8, <2>3 DEF Resume, TypeOK
  <2>5. queue' \in [Users -> Seq(Runs)]
    BY <1>0, <1>8, <2>4 DEF Resume, TypeOK
  <2>6. QED
    BY <1>0, <1>8, <2>1, <2>2, <2>5 DEF Resume, Inv, TypeOK, tx
<1>9. QED
  BY <1>1, <1>2, <1>3, <1>4, <1>5, <1>6, <1>7, <1>8 DEF LockStep

\* A generation's steps keep the invariant.
LEMMA GenerationStep ==
  ASSUME Inv, NEW r \in Runs, GenerateStep(r)
  PROVE  Inv'
<1>0. TypeOK
  BY DEF Inv
<1> DEFINE Kept == run' \in [Runs -> RunState] /\ Located' /\ AdvisoryKept' /\ SigKept'
           u == User(r)
<1>1. CASE CheckSignature(r)
  <2>1. u \in Users /\ advisory[u] = r
    BY <1>1 DEF CheckSignature, Inv, Located, AdvisoryKept, At, Inside, Holding
  <2>2. OthersKeep(r)
    BY <1>1 DEF CheckSignature, OthersKeep, tx
  <2>3. CASE run' = [run EXCEPT ![r].pc = "release"]
    <3>1. Goto(r, "release")
      BY <2>3 DEF Goto
    <3>2. QED
      <4>1. Kept
        BY <1>1, <3>1, GotoKeeps DEF CheckSignature, At, Pcs, Inside, Holding, Paying, tx
      <4>2. QED
        BY <1>0, <1>1, <4>1 DEF CheckSignature, Inv, TypeOK, lock, tx
  <2>4. CASE /\ ~(coffee[u] = sigs[u] /\ ~run[r].force)
             /\ run' = [run EXCEPT ![r].pc = "coffee", ![r].sig = sigs[u]]
    <3> DEFINE q == [run[r] EXCEPT !.pc = "coffee", !.sig = sigs[u]]
    <3>1. /\ q \in RunState /\ q.pc = "coffee" /\ q.user = u
          /\ q.sig = sigs[u] /\ q.force = run[r].force
      BY <1>0, <2>1 DEF TypeOK, RunState, Pcs, User
    <3>2. run' = [run EXCEPT ![r] = q]
      BY <2>4
    <3>3. /\ q.sig \in Sigs /\ (~q.force => q.sig # coffee'[q.user])
          /\ advisory'[q.user] = r
      BY <1>0, <1>1, <2>1, <2>4, <3>1 DEF CheckSignature, TypeOK, tx
    <3> HIDE DEF q
    <3>4. Kept
      BY <2>1, <2>2, <3>1, <3>2, <3>3, OneRun
    <3>5. QED
      BY <1>0, <1>1, <3>4 DEF CheckSignature, Inv, TypeOK, lock, tx
  <2>5. QED
    BY <1>1, <2>3, <2>4 DEF CheckSignature
<1>2. CASE GiveUp(r)
  <2>1. Kept
    BY <1>2, GotoKeeps DEF GiveUp, Generating, Pcs, Inside, Holding, Paying, tx
  <2>2. QED
    BY <1>0, <1>2, <2>1 DEF GiveUp, Inv, TypeOK, lock, tx
<1>3. CASE VerifyUrl(r)
  <2>1. Kept
    BY <1>3, GotoKeeps DEF VerifyUrl, At, Pcs, Inside, Holding, Paying, tx
  <2>2. running' \in Requests \cup {None}
    BY <1>0, <1>3, LoopTyped DEF VerifyUrl
  <2>3. QED
    BY <1>0, <1>3, <2>1, <2>2 DEF VerifyUrl, Inv, TypeOK, lock, tx
<1>4. CASE UrlVerified(r)
  <2>1. Kept
    BY <1>4, GotoKeeps DEF UrlVerified, At, Pcs, Inside, Holding, Paying, tx
  <2>2. running' \in Requests \cup {None}
    BY <1>0, <1>4, LoopTyped DEF UrlVerified
  <2>3. QED
    BY <1>0, <1>4, <2>1, <2>2 DEF UrlVerified, Inv, TypeOK, lock, tx
<1>5. CASE AllTiersFail(r)
  <2>1. /\ older' \in [Runs -> SUBSET Runs] /\ advisory' \in [Users -> Runs \cup {None}]
        /\ OthersKeep(r)
    BY <1>0, <1>5, EndTyped DEF AllTiersFail, End, OthersKeep
  <2>2. Kept
    BY <1>5, <2>1, ToReleaseKeeps DEF AllTiersFail, Generating, Inside
  <2>3. QED
    BY <1>0, <1>5, <2>1, <2>2 DEF AllTiersFail, End, Inv, TypeOK, lock
<1>6. CASE Publish(r)
  <2>1. u \in Users /\ advisory[u] = r /\ run[r].sig \in Sigs
    BY <1>6 DEF Publish, Generating, Inv, Located, AdvisoryKept, SigKept, Inside, Holding, Paying
  <2>2. /\ older' \in [Runs -> SUBSET Runs] /\ advisory' \in [Users -> Runs \cup {None}]
        /\ \A p \in Runs \ {r}, v \in Users : advisory[v] = p => advisory'[v] = p
    BY <1>0, <1>6, EndTyped DEF Publish
  <2>3. coffee' \in [Users -> Sigs \cup {None}] /\ \A v \in Users \ {u} : coffee'[v] = coffee[v]
    BY <1>0, <1>6, <2>1 DEF Publish, TypeOK
  <2>4. OthersKeep(r)
    BY <2>1, <2>2, <2>3 DEF OthersKeep
  <2>5. Kept
    BY <1>6, <2>4, ToReleaseKeeps DEF Publish, Generating, Inside
  <2>6. overtaken' \in [Runs -> SUBSET Users]
    BY <1>0, <1>6, <2>1 DEF Publish, TypeOK
  <2>7. QED
    BY <1>0, <1>6, <2>2, <2>3, <2>5, <2>6 DEF Publish, Inv, TypeOK, lock
<1>7. CASE SweetSpots(r)
  <2>1. older' \in [Runs -> SUBSET Runs] /\ UNCHANGED <<advisory, overtaken>>
    BY <1>0, <1>7, BeginTyped DEF SweetSpots, tx, TypeOK
  <2>2. Kept
    BY <1>7, <2>1, GotoKeeps DEF SweetSpots, At, Pcs, Inside, Holding, Paying
  <2>3. QED
    BY <1>0, <1>7, <2>1, <2>2 DEF SweetSpots, Inv, TypeOK, lock
<1>8. QED
  BY <1>1, <1>2, <1>3, <1>4, <1>5, <1>6, <1>7 DEF GenerateStep

\* Every step keeps the invariant.
LEMMA InvStep == Inv /\ [Next]_vars => Inv'
<1> SUFFICES ASSUME Inv, [Next]_vars PROVE Inv'
  OBVIOUS
<1>1. CASE Start
  BY <1>1, StartStep
<1>2. ASSUME NEW r \in Requests, RequestStep(r) PROVE Inv'
  BY <1>2, CallerStep, LocksStep, GenerationStep, Distinct DEF RequestStep
<1>3. CASE JobStep
  BY <1>3, CallerStep, LocksStep, GenerationStep, Distinct DEF JobStep
<1>4. CASE Resume(Job)
  BY <1>4, LocksStep, Distinct
<1>5. ASSUME NEW u \in Users, SaveRating(u) PROVE Inv'
  BY <1>5 DEF SaveRating, Inv, TypeOK, Located, AdvisoryKept, SigKept, User, lock, tx
<1>6. ASSUME NEW u \in Users, ThrottleExpires(u) PROVE Inv'
  BY <1>6 DEF ThrottleExpires, Inv, TypeOK, Located, AdvisoryKept, SigKept, User, lock, tx
<1>7. CASE Restart
  <2>1. TypeOK'
    BY <1>7, IdleTyped DEF Restart, Inv, TypeOK
  <2>2. Located' /\ AdvisoryKept' /\ SigKept'
    BY <1>7, IdleTyped DEF Restart, Located, AdvisoryKept, SigKept, Inside, Holding, Paying
  <2>3. QED
    BY <2>1, <2>2 DEF Inv
<1>8. CASE UNCHANGED vars
  BY <1>8 DEF vars, Inv, TypeOK, Located, AdvisoryKept, SigKept, User, lock, tx
<1>9. QED
  BY <1>1, <1>2, <1>3, <1>4, <1>5, <1>6, <1>7, <1>8 DEF Next

-----------------------------------------------------------------------------
\* The invariant holds in every reachable state.
LEMMA InvAlways == Spec => []Inv
<1>1. QED
  BY InvInit, InvStep, PTL DEF Spec

\* Every run, lock and transaction is always a record of its type.
THEOREM TypeCorrect == Spec => []TypeOK
<1>1. Inv => TypeOK
  BY DEF Inv
<1>2. QED
  BY <1>1, InvAlways, PTL

\* However the thread and the loop break the asyncio lock between them, there
\* is one generation per user at a time: two runs cannot both have the
\* advisory lock of one user.
THEOREM OneGeneration == Spec => []OneCoffeeAtATime
<1>1. Inv => OneCoffeeAtATime
  BY DEF Inv, AdvisoryKept, OneCoffeeAtATime, InCoffee, Holding
<1>2. QED
  BY <1>1, InvAlways, PTL

\* What the signature check of an unforced run found is still so when its row
\* commits, because whoever would publish in between needs the same lock.
THEOREM PaysOnce == Spec => NeverPaidTwice
<1>1. Inv => \A r \in Runs : Publish(r) /\ ~run[r].force => run[r].sig # coffee[User(r)]
  BY DEF Inv, SigKept, Publish, Generating, Paying
<1>2. QED
  BY <1>1, InvAlways, PTL DEF NeverPaidTwice

-----------------------------------------------------------------------------
(* That the runs are one buyer after the other.  The deals of the abstract   *)
(* shop are computed from all runs at once, so the proof first says when a   *)
(* step leaves them alone, opens one, or ends one.                           *)

Deals == [u \in Users |-> {Deal(r) : r \in {q \in Runs : InCoffee(q) /\ User(q) = u}}]

\* A paying run has its user's advisory lock, so it is the only one.
LEMMA OnlyDeal ==
  ASSUME Inv, NEW r \in Runs, InCoffee(r)
  PROVE  User(r) \in Users /\ Deals[User(r)] = {Deal(r)}
<1>1. User(r) \in Users BY DEF Inv, Located, InCoffee, Inside
<1>2. ASSUME NEW q \in Runs, InCoffee(q), User(q) = User(r) PROVE q = r
  BY <1>2 DEF Inv, AdvisoryKept, InCoffee, Holding
<1>. QED BY <1>1, <1>2 DEF Deals

\* A run that is not about to pay has no deal.
LEMMA NoDealYet ==
  ASSUME NEW r \in Runs, ~InCoffee(r)
  PROVE  \A v \in Users : \A d \in Deals[v] : d.by # r
  BY DEF Deals, Deal

\* A step of one run that neither starts to pay nor stops.
LEMMA DealsStay ==
  ASSUME NEW r \in Runs, \A q \in Runs \ {r} : run'[q] = run[q],
         InCoffee(r)' <=> InCoffee(r),
         InCoffee(r) => /\ run'[r].user = run[r].user /\ run'[r].sig = run[r].sig
                        /\ run'[r].force = run[r].force
  PROVE  Deals' = Deals
<1>1. ASSUME NEW q \in Runs PROVE InCoffee(q)' <=> InCoffee(q)
  BY <1>1 DEF InCoffee
<1>2. ASSUME NEW q \in Runs, InCoffee(q) PROVE User(q)' = User(q) /\ Deal(q)' = Deal(q)
  BY <1>2 DEF User, Deal, InCoffee
<1>3. ASSUME NEW u \in Users
      PROVE  {Deal(q)' : q \in {p \in Runs : InCoffee(p)' /\ User(p)' = u}}
               = {Deal(q) : q \in {p \in Runs : InCoffee(p) /\ User(p) = u}}
  BY <1>1, <1>2
<1>. QED BY <1>3 DEF Deals

\* A run that moves on, away from the generation or within it.
LEMMA DealsStayAt ==
  ASSUME TypeOK, NEW r \in Runs, NEW pc, Goto(r, pc),
         pc \in Paying <=> run[r].pc \in Paying
  PROVE  Deals' = Deals
<1>1. /\ run'[r].pc = pc /\ run'[r].user = run[r].user /\ run'[r].sig = run[r].sig
      /\ run'[r].force = run[r].force /\ \A q \in Runs \ {r} : run'[q] = run[q]
  BY DEF TypeOK, Goto, RunState
<1>. QED BY <1>1, DealsStay DEF InCoffee, Paying

\* A run that gets a new record outside of the generation.
LEMMA DealsStayAway ==
  ASSUME TypeOK, NEW r \in Runs, run[r].pc \notin Paying, run'[r].pc \notin Paying,
         \A q \in Runs \ {r} : run'[q] = run[q]
  PROVE  Deals' = Deals
  BY DealsStay DEF InCoffee, Paying

LEMMA DealsStayReturned ==
  ASSUME TypeOK, NEW r \in Runs, run[r].pc \notin Paying, Return(r) \/ Raise(r)
  PROVE  Deals' = Deals
<1>1. PICK pc \in {"left", "next", "closing"} : Leave(r, pc) BY DEF Return, Raise
<1>2. run'[r].pc = pc /\ \A q \in Runs \ {r} : run'[q] = run[q]
  BY <1>1 DEF TypeOK, Leave, RunState
<1>. QED BY <1>2, DealsStayAway DEF Paying

\* A run that leaves the generation ends its deal.
LEMMA DealEnds ==
  ASSUME Inv, NEW r \in Runs, InCoffee(r), NEW pc \in {"release", "sweet"}, Goto(r, pc)
  PROVE  Deals' = [Deals EXCEPT ![User(r)] = {}]
<1>1. run'[r].pc = pc /\ \A q \in Runs \ {r} : run'[q] = run[q]
  BY DEF Inv, TypeOK, Goto, RunState
<1>2. ~InCoffee(r)' BY <1>1 DEF InCoffee
<1>3. ASSUME NEW q \in Runs \ {r}
      PROVE  /\ InCoffee(q)' <=> InCoffee(q)
             /\ User(q)' = User(q) /\ Deal(q)' = Deal(q)
             /\ InCoffee(q) => User(q) # User(r)
  BY <1>1 DEF InCoffee, User, Deal, Inv, AdvisoryKept, Holding
<1>4. ASSUME NEW u \in Users, u # User(r)
      PROVE  {Deal(q)' : q \in {p \in Runs : InCoffee(p)' /\ User(p)' = u}}
               = {Deal(q) : q \in {p \in Runs : InCoffee(p) /\ User(p) = u}}
  BY <1>2, <1>3, <1>4
<1>5. {Deal(q)' : q \in {p \in Runs : InCoffee(p)' /\ User(p)' = User(r)}} = {}
  BY <1>2, <1>3
<1>. QED BY <1>4, <1>5 DEF Deals

\* The signature check opens a deal, under the advisory lock.
LEMMA DealOpens ==
  ASSUME Inv, NEW r \in Runs, CheckSignature(r), InCoffee(r)'
  PROVE  /\ User(r) \in Users /\ Deals[User(r)] = {}
         /\ run[r].force \/ sigs[User(r)] # coffee[User(r)]
         /\ sigs[User(r)] \in Sigs /\ run[r].force \in BOOLEAN
         /\ Deals' = [Deals EXCEPT ![User(r)] =
                        {[by |-> r, sig |-> sigs[User(r)], forced |-> run[r].force]}]
<1>1. run[r].pc = "signature" /\ run[r] \in RunState
  BY DEF CheckSignature, At, Inv, TypeOK
<1>2. User(r) \in Users BY <1>1 DEF Inv, Located, Inside
<1>3. /\ run' = [run EXCEPT ![r].pc = "coffee", ![r].sig = sigs[User(r)]]
      /\ ~(coffee[User(r)] = sigs[User(r)] /\ ~run[r].force)
  <2>1. ASSUME run' = [run EXCEPT ![r].pc = "release"] PROVE FALSE
    BY <2>1 DEF Inv, TypeOK, RunState, InCoffee
  <2>. QED BY <2>1 DEF CheckSignature
<1>4. /\ run'[r].sig = sigs[User(r)] /\ run'[r].user = run[r].user
      /\ run'[r].force = run[r].force /\ run[r].force \in BOOLEAN
      /\ \A q \in Runs \ {r} : run'[q] = run[q]
  BY <1>1, <1>3 DEF Inv, TypeOK, RunState
<1>5. ASSUME NEW q \in Runs \ {r}
      PROVE  /\ InCoffee(q)' <=> InCoffee(q)
             /\ User(q)' = User(q) /\ Deal(q)' = Deal(q)
             /\ InCoffee(q) => User(q) # User(r)
  BY <1>1, <1>4 DEF InCoffee, User, Deal, Inv, AdvisoryKept, Holding
<1>6. ~InCoffee(r) BY <1>1 DEF InCoffee
<1>7. User(r)' = User(r) BY <1>4 DEF User
<1>8. Deal(r)' = [by |-> r, sig |-> sigs[User(r)], forced |-> run[r].force]
  BY <1>4 DEF Deal
<1>9. ASSUME NEW u \in Users, u # User(r)
      PROVE  {Deal(q)' : q \in {p \in Runs : InCoffee(p)' /\ User(p)' = u}}
               = {Deal(q) : q \in {p \in Runs : InCoffee(p) /\ User(p) = u}}
  BY <1>5, <1>6, <1>7, <1>9
<1>10. {Deal(q)' : q \in {p \in Runs : InCoffee(p)' /\ User(p)' = User(r)}} = {Deal(r)'}
  BY <1>5, <1>7
<1>11. Deals[User(r)] = {} BY <1>2, <1>5, <1>6 DEF Deals
<1>12. Deals' = [Deals EXCEPT ![User(r)] = {Deal(r)'}] BY <1>9, <1>10 DEF Deals
<1>. QED BY <1>2, <1>3, <1>4, <1>8, <1>11, <1>12 DEF Inv, TypeOK

\* What a step of one run is to the shop.
LEMMA ShopStep ==
  ASSUME Inv, NEW r \in Runs,
         \/ LockStep(r) \/ GenerateStep(r) \/ Resume(r)
         \/ r \in Requests /\ (Respond(r) \/ CloseSession(r))
         \/ r = Job /\ (CloseJobSession \/ JobDone)
  PROVE  [Shop!Next]_<<Deals, coffee>>
<1>0. TypeOK /\ run[r] \in RunState BY DEF Inv, TypeOK
<1>1. CASE /\ CheckSignature(r) /\ InCoffee(r)'
  <2>1. PICK u \in Users, s \in Sigs, f \in BOOLEAN :
          u = User(r) /\ s = sigs[User(r)] /\ f = run[r].force
    BY <1>1, DealOpens
  <2>2. ~InCoffee(r) BY <1>1 DEF CheckSignature, At, InCoffee
  <2>3. Shop!Buy(r, u, s, f)
    BY <1>1, <2>1, <2>2, DealOpens, NoDealYet DEF Shop!Buy, Deals, CheckSignature
  <2>. QED BY <2>1, <2>3 DEF Shop!Next
<1>2. CASE CheckSignature(r) /\ ~InCoffee(r)'
  <2>1. Goto(r, "release")
    <3>1. ASSUME run' = [run EXCEPT ![r].pc = "coffee", ![r].sig = sigs[User(r)]]
          PROVE  InCoffee(r)'
      BY <1>0, <3>1 DEF TypeOK, InCoffee, RunState
    <3>. QED BY <1>2, <3>1 DEF CheckSignature, Goto
  <2>. QED BY <1>0, <1>2, <2>1, DealsStayAt DEF CheckSignature, At, Paying
<1>3. CASE GiveUp(r) \/ AllTiersFail(r) \/ Publish(r)
  <2>1. InCoffee(r) /\ \E pc \in {"release", "sweet"} : Goto(r, pc)
    BY <1>3 DEF GiveUp, AllTiersFail, Publish, Generating, InCoffee
  <2>2. /\ User(r) \in Users /\ Deals[User(r)] = {Deal(r)}
        /\ Deals' = [Deals EXCEPT ![User(r)] = {}]
    BY <2>1, OnlyDeal, DealEnds
  <2>3. coffee' \in {coffee, [coffee EXCEPT ![User(r)] = Deal(r).sig]}
    BY <1>3 DEF GiveUp, AllTiersFail, Publish, Deal
  <2>4. PICK u \in Users, d \in Deals[User(r)] : u = User(r) /\ d = Deal(r)
    BY <2>2
  <2>5. Shop!End(u, d) BY <2>2, <2>3, <2>4 DEF Shop!End, Deals
  <2>6. \E v \in Users : \E e \in Deals[v] : Shop!End(v, e)
    BY <2>4, <2>5
  <2>. QED BY <2>6 DEF Shop!Next, Deals
<1>4. CASE VerifyUrl(r) \/ UrlVerified(r) \/ SweetSpots(r)
  BY <1>0, <1>4, DealsStayAt DEF VerifyUrl, UrlVerified, SweetSpots, At, Paying
<1>5. CASE Gate(r)
  <2>1. run[r].pc = "next" /\ UNCHANGED coffee /\ \A q \in Runs \ {r} : run'[q] = run[q]
    BY <1>0, <1>5 DEF Gate, At, TypeOK
  <2>2. run'[r].pc \in {"check", "left", "next"}
    BY <1>0, <1>5 DEF Gate, TypeOK, RunState
  <2>. QED BY <1>0, <2>1, <2>2, DealsStayAway DEF Paying
<1>6. CASE Check(r) \/ Release(r) \/ Enqueue(r)
  <2>1. UNCHANGED coffee /\ run[r].pc \notin Paying
    BY <1>6 DEF Check, Release, Enqueue, At, Paying
  <2>2. Return(r) \/ Raise(r) \/ Goto(r, "acquire") \/ Goto(r, "waiting")
    BY <1>6 DEF Check, Release, Enqueue
  <2>. QED BY <1>0, <2>1, <2>2, DealsStayReturned, DealsStayAt DEF Paying
<1>7. CASE Acquire(r) \/ Take(r) \/ TryAdvisoryLock(r) \/ Resume(r)
  <2>1. UNCHANGED coffee /\ run[r].pc \notin Paying
    BY <1>7 DEF Acquire, Take, TryAdvisoryLock, Resume, At, Paying
  <2>2. \E pc \in {"advisory", "take", "enqueue", "signature", "release"} : Goto(r, pc)
    BY <1>7 DEF Acquire, Take, TryAdvisoryLock, Resume
  <2>. QED BY <1>0, <2>1, <2>2, DealsStayAt DEF Paying
<1>8. CASE Respond(r) \/ CloseSession(r) \/ (r = Job /\ (CloseJobSession \/ JobDone))
  <2>1. UNCHANGED coffee /\ run[r].pc \notin Paying
    BY <1>8 DEF Respond, CloseSession, CloseJobSession, JobDone, At, Paying
  <2>2. (\E pc \in {"closing", "next"} : Goto(r, pc)) \/ run' = [run EXCEPT ![r] = Idle]
    BY <1>8 DEF Respond, CloseSession, CloseJobSession, JobDone
  <2>3. CASE run' = [run EXCEPT ![r] = Idle]
    BY <1>0, <2>1, <2>3, IdleTyped, DealsStayAway DEF TypeOK, Paying
  <2>. QED BY <1>0, <2>1, <2>2, <2>3, DealsStayAt DEF Paying
<1>. QED
  BY <1>1, <1>2, <1>3, <1>4, <1>5, <1>6, <1>7, <1>8 DEF LockStep, GenerateStep

\* A run that starts is not paying yet.
LEMMA DealsStayStarted ==
  ASSUME TypeOK, NEW r \in Runs, At(r, "idle"), NEW q, q.pc = "next",
         run' = [run EXCEPT ![r] = q]
  PROVE  Deals' = Deals
<1>1. run'[r].pc = "next" /\ \A p \in Runs \ {r} : run'[p] = run[p]
  BY DEF TypeOK
<1>. QED BY <1>1, DealsStayAway DEF At, Paying

LEMMA ShopStart ==
  ASSUME Inv, Start PROVE Deals' = Deals /\ UNCHANGED coffee
<1>0. TypeOK BY DEF Inv
<1>1. ASSUME NEW r \in Requests, NEW u \in Users, Refresh(r, u)
      PROVE  Deals' = Deals /\ UNCHANGED coffee
  <2>. DEFINE q == [Idle EXCEPT !.pc = "next", !.todo = {u}, !.force = TRUE]
  <2>1. q.pc = "next" BY DEF Idle
  <2>2. At(r, "idle") /\ run' = [run EXCEPT ![r] = q] /\ UNCHANGED coffee
    BY <1>1 DEF Refresh
  <2>. HIDE DEF q
  <2>. QED BY <1>0, <2>1, <2>2, DealsStayStarted, Distinct
<1>2. ASSUME NEW r \in Requests, NEW S \in SUBSET Users, NEW f \in BOOLEAN, RefreshAll(r, S, f)
      PROVE  Deals' = Deals /\ UNCHANGED coffee
  <2>. DEFINE q == [Idle EXCEPT !.pc = "next", !.todo = S, !.force = f]
  <2>1. q.pc = "next" BY DEF Idle
  <2>2. At(r, "idle") /\ run' = [run EXCEPT ![r] = q] /\ UNCHANGED coffee
    BY <1>2 DEF RefreshAll
  <2>. HIDE DEF q
  <2>. QED BY <1>0, <2>1, <2>2, DealsStayStarted, Distinct
<1>3. ASSUME NEW S \in SUBSET Users, Nightly(S)
      PROVE  Deals' = Deals /\ UNCHANGED coffee
  <2>. DEFINE q == [Idle EXCEPT !.pc = "next", !.todo = S]
  <2>1. q.pc = "next" BY DEF Idle
  <2>2. At(Job, "idle") /\ run' = [run EXCEPT ![Job] = q] /\ UNCHANGED coffee
    BY <1>3 DEF Nightly
  <2>. HIDE DEF q
  <2>. QED BY <1>0, <2>1, <2>2, DealsStayStarted, Distinct
<1>. QED BY <1>1, <1>2, <1>3 DEF Start

\* Threads, loops, transactions and both locks implement the shop: to each user
\* the runs are one buyer after the other, and a coffee is shown under the
\* signature that its buyer checked, for any users, signatures and requests.
THEOREM RunsShopInTurn == Spec => BoughtOneByOne
<1>1. Init => Shop!Init
  BY IdleTyped DEF Init, Shop!Init, InCoffee
<1>2. Inv /\ [Next]_vars => [Shop!Next]_<<Deals, coffee>>
  <2>. SUFFICES ASSUME Inv, [Next]_vars PROVE [Shop!Next]_<<Deals, coffee>>
    OBVIOUS
  <2>1. CASE Start BY <2>1, ShopStart
  <2>2. ASSUME NEW r \in Requests, RequestStep(r) PROVE [Shop!Next]_<<Deals, coffee>>
    BY <2>2, ShopStep, Distinct DEF RequestStep
  <2>3. CASE JobStep \/ Resume(Job)
    BY <2>3, ShopStep, Distinct DEF JobStep
  <2>4. CASE UNCHANGED <<run, coffee>>
    BY <2>4 DEF Deals, Deal, InCoffee, User
  <2>5. CASE Restart
    <3>1. Deals' = [u \in Users |-> {}]
      BY <2>5, IdleTyped DEF Restart, Deals, InCoffee
    <3>2. Shop!Crash BY <2>5, <3>1 DEF Restart, Shop!Crash, Deals
    <3>. QED BY <3>2 DEF Shop!Next
  <2>. QED
    BY <2>1, <2>2, <2>3, <2>4, <2>5 DEF Next, SaveRating, ThrottleExpires, vars
<1>. QED
  BY <1>1, <1>2, InvAlways, PTL DEF Spec, BoughtOneByOne, Shop!Spec, Deals

-----------------------------------------------------------------------------
(* Who waits, and for whom. *)

Only(r) == \A q \in Runs \ {r} : run'[q] = run[q]
InLockPcs == {"advisory", "signature", "coffee", "verify", "judged", "sweet", "release"}
Between == Pcs \ {"idle", "waiting", "verify", "left", "closing"}

\* The loop is kept, taken while it is free, or given up, and a request is
\* between two awaits exactly as long as it has it.
LoopMove(r) ==
  IF r = Job THEN running' = running
  ELSE \/ run'[r].pc \in Between /\ running' = r /\ running \in {None, r}
       \/ /\ run'[r].pc \notin Between \cup {"left"}
          /\ running' = IF running = r THEN None ELSE running

\* A step of r that has nothing to do with the asyncio lock.
Quiet(r) ==
  /\ Only(r) /\ LoopMove(r) /\ UNCHANGED <<held, queue, woken>>
  /\ run[r].pc # "waiting" /\ run'[r].pc \notin {"waiting", "take"}
  /\ \A u \in Users : InLock(r, u)' <=> InLock(r, u)

LoopInv ==
  \A r \in Requests : /\ run[r].pc \in Between <=> running = r
                      /\ run[r].pc # "left"

LEMMA LoopStep ==
  ASSUME TypeOK, LoopInv, NEW r \in Runs, Only(r), LoopMove(r) PROVE LoopInv'
<1>. USE DEF LoopInv, LoopMove, Only
<1>1. CASE r = Job BY <1>1, Distinct
<1>2. CASE r # Job
  <2>1. r \in Requests BY <1>2 DEF Runs
  <2>2. ASSUME NEW q \in Requests \ {r}
        PROVE  (run'[q].pc \in Between <=> running' = q) /\ run'[q].pc # "left"
    <3>1. run'[q] = run[q] BY <2>2, Distinct
    <3>. QED BY <1>2, <2>1, <2>2, <3>1, Distinct
  <2>3. (run'[r].pc \in Between <=> running' = r) /\ run'[r].pc # "left"
    <3>1. "left" \notin Between BY DEF Between
    <3>. QED BY <1>2, <2>1, <3>1, Distinct
  <2>. QED BY <2>2, <2>3
<1>. QED BY <1>1, <1>2

\* The record after a Goto, and after a call ends.
LEMMA GotoFacts ==
  ASSUME TypeOK, NEW r \in Runs, NEW pc, Goto(r, pc)
  PROVE  Only(r) /\ run'[r].pc = pc /\ run'[r].user = run[r].user
  BY DEF TypeOK, Goto, RunState, Only

LEMMA LeaveFacts ==
  ASSUME TypeOK, NEW r \in Runs, Return(r) \/ Raise(r)
  PROVE  /\ Only(r) /\ run'[r].pc \in {"left", "next", "closing"} /\ run'[r].user = None
         /\ r # Job => \/ run'[r].pc = "next" /\ running' = running
                       \/ run'[r].pc = "closing" /\ running' = None
         /\ r = Job => running' = running
<1>1. ASSUME NEW pc, Leave(r, pc)
      PROVE  Only(r) /\ run'[r].pc = pc /\ run'[r].user = None
  BY <1>1 DEF TypeOK, Leave, RunState, Only
<1>2. CASE Return(r) BY <1>1, <1>2 DEF Return
<1>3. CASE Raise(r) BY <1>1, <1>3 DEF Raise, Yield
<1>. QED BY <1>2, <1>3

\* A run that gets a new record outside of the lock.
LEMMA QuietAway ==
  ASSUME TypeOK, NEW r \in Runs, Only(r), LoopMove(r), UNCHANGED <<held, queue, woken>>,
         run[r].pc \notin InLockPcs \cup {"waiting"},
         run'[r].pc \notin InLockPcs \cup {"waiting", "take"}
  PROVE  Quiet(r)
  BY DEF Quiet, InLock, InLockPcs

\* A run that stays inside the lock.
LEMMA QuietInside ==
  ASSUME TypeOK, NEW r \in Runs, NEW pc \in InLockPcs, Goto(r, pc), LoopMove(r),
         UNCHANGED <<held, queue, woken>>, run[r].pc \in InLockPcs
  PROVE  Quiet(r)
<1>1. Only(r) /\ run'[r].pc = pc /\ run'[r].user = run[r].user BY GotoFacts
<1>2. \A u \in Users : InLock(r, u)' <=> InLock(r, u) BY <1>1 DEF InLock, InLockPcs, User
<1>. QED BY <1>1, <1>2 DEF Quiet, InLockPcs

\* A run that goes on between two awaits.
LEMMA GoesOn ==
  ASSUME TypeOK, NEW r \in Runs, OnLoop(r), run'[r].pc \in Between, UNCHANGED running
  PROVE  LoopMove(r)
  BY Distinct DEF OnLoop, LoopMove

-----------------------------------------------------------------------------
(* The steps that are quiet. *)

LEMMA QuietStart ==
  ASSUME TypeOK, LoopInv, Start PROVE \E r \in Runs : Quiet(r)
<1>1. ASSUME NEW r \in Runs, NEW q, q.pc = "next", At(r, "idle"), run' = [run EXCEPT ![r] = q],
             UNCHANGED <<held, queue, woken>>,
             IF r = Job THEN UNCHANGED running ELSE running = None /\ running' = r
      PROVE  Quiet(r)
  <2>1. run'[r] = q /\ Only(r) BY <1>1 DEF TypeOK, Only
  <2>2. LoopMove(r) BY <1>1, <2>1 DEF LoopMove, Between, Pcs
  <2>3. run[r].pc = "idle" /\ run'[r].pc = "next" BY <1>1, <2>1 DEF At
  <2>. QED BY <1>1, <2>1, <2>2, <2>3, QuietAway DEF InLockPcs
<1>2. ASSUME NEW r \in Requests, NEW u \in Users, Refresh(r, u) PROVE Quiet(r)
  <2>. DEFINE q == [Idle EXCEPT !.pc = "next", !.todo = {u}, !.force = TRUE]
  <2>1. q.pc = "next" BY DEF Idle
  <2>2. /\ At(r, "idle") /\ run' = [run EXCEPT ![r] = q] /\ UNCHANGED <<held, queue, woken>>
        /\ running = None /\ running' = r
    BY <1>2 DEF Refresh, lock
  <2>. HIDE DEF q
  <2>. QED BY <1>1, <2>1, <2>2, Distinct
<1>3. ASSUME NEW r \in Requests, NEW S \in SUBSET Users, NEW f \in BOOLEAN, RefreshAll(r, S, f)
      PROVE  Quiet(r)
  <2>. DEFINE q == [Idle EXCEPT !.pc = "next", !.todo = S, !.force = f]
  <2>1. q.pc = "next" BY DEF Idle
  <2>2. /\ At(r, "idle") /\ run' = [run EXCEPT ![r] = q] /\ UNCHANGED <<held, queue, woken>>
        /\ running = None /\ running' = r
    BY <1>3 DEF RefreshAll, lock
  <2>. HIDE DEF q
  <2>. QED BY <1>1, <2>1, <2>2, Distinct
<1>4. ASSUME NEW S \in SUBSET Users, Nightly(S) PROVE Quiet(Job)
  <2>. DEFINE q == [Idle EXCEPT !.pc = "next", !.todo = S]
  <2>1. q.pc = "next" BY DEF Idle
  <2>2. /\ At(Job, "idle") /\ run' = [run EXCEPT ![Job] = q] /\ UNCHANGED <<held, queue, woken>>
        /\ UNCHANGED running
    BY <1>4 DEF Nightly, lock
  <2>. HIDE DEF q
  <2>. QED BY <1>1, <2>1, <2>2, Distinct
<1>. QED BY <1>2, <1>3, <1>4, Distinct DEF Start

LEMMA QuietCallers ==
  ASSUME TypeOK, LoopInv, NEW r \in Runs,
         \/ r \in Requests /\ (Respond(r) \/ CloseSession(r))
         \/ r = Job /\ (CloseJobSession \/ JobDone)
  PROVE  Quiet(r)
<1>1. CASE r \in Requests /\ Respond(r)
  <2>1. Only(r) /\ run'[r].pc = "closing" /\ running = r /\ running' = None
    BY <1>1, GotoFacts, Distinct DEF Respond, OnLoop, Yield
  <2>2. LoopMove(r) BY <1>1, <2>1, Distinct DEF LoopMove, Between
  <2>. QED BY <1>1, <2>1, <2>2, QuietAway DEF Respond, At, lock, InLockPcs
<1>2. CASE r \in Requests /\ CloseSession(r)
  <2>1. Only(r) /\ run'[r].pc = "idle" BY <1>2, IdleTyped DEF CloseSession, TypeOK, Only
  <2>2. running # r /\ UNCHANGED running
    BY <1>2 DEF CloseSession, LoopInv, Between, At
  <2>3. LoopMove(r) BY <1>2, <2>1, <2>2, Distinct DEF LoopMove, Between
  <2>. QED BY <1>2, <2>1, <2>3, QuietAway DEF CloseSession, At, lock, InLockPcs
<1>3. CASE r = Job /\ CloseJobSession
  <2>1. Only(r) /\ run'[r].pc = "next" BY <1>3, GotoFacts DEF CloseJobSession
  <2>2. LoopMove(r) BY <1>3 DEF LoopMove, CloseJobSession
  <2>. QED BY <1>3, <2>1, <2>2, QuietAway DEF CloseJobSession, At, lock, InLockPcs
<1>4. CASE r = Job /\ JobDone
  <2>1. Only(r) /\ run'[r].pc = "idle" BY <1>4, IdleTyped DEF JobDone, TypeOK, Only
  <2>2. LoopMove(r) BY <1>4 DEF LoopMove, JobDone
  <2>. QED BY <1>4, <2>1, <2>2, QuietAway DEF JobDone, At, lock, InLockPcs
<1>. QED BY <1>1, <1>2, <1>3, <1>4

LEMMA QuietGate ==
  ASSUME TypeOK, LoopInv, NEW r \in Runs, Gate(r) \/ Check(r) \/ TryAdvisoryLock(r)
  PROVE  Quiet(r)
<1>1. CASE Gate(r)
  <2>1. PICK q : /\ run' = [run EXCEPT ![r] = q] /\ q.pc \in {"check", "left", "next"}
                 /\ r # Job => q.pc # "left"
    <3>1. PICK u \in run[r].todo :
            \/ run' = [run EXCEPT ![r].pc = "check", ![r].user = u, ![r].todo = @ \ {u}]
            \/ run' = [run EXCEPT ![r].pc = IF r = Job THEN "left" ELSE "next",
                                  ![r].todo = @ \ {u}]
      BY <1>1 DEF Gate
    <3>. DEFINE open == [run[r] EXCEPT !.pc = "check", !.user = u, !.todo = @ \ {u}]
                closed == [run[r] EXCEPT !.pc = IF r = Job THEN "left" ELSE "next",
                                         !.todo = @ \ {u}]
    <3>2. run[r] \in RunState BY DEF TypeOK
    <3>3. open.pc = "check" BY <3>2 DEF RunState
    <3>4. closed.pc = IF r = Job THEN "left" ELSE "next" BY <3>2 DEF RunState
    <3>5. run' = [run EXCEPT ![r] = open] \/ run' = [run EXCEPT ![r] = closed]
      BY <3>1
    <3>. HIDE DEF open, closed
    <3>. QED BY <3>3, <3>4, <3>5
  <2>2. Only(r) /\ run'[r].pc = q.pc BY <2>1 DEF TypeOK, Only
  <2>3. LoopMove(r)
    BY <1>1, <2>1, <2>2 DEF Gate, LoopMove, OnLoop, Between, Pcs
  <2>. QED BY <1>1, <2>1, <2>2, <2>3, QuietAway DEF Gate, At, lock, InLockPcs
<1>2. CASE Check(r)
  <2>1. OnLoop(r) /\ run[r].pc = "check" /\ UNCHANGED <<held, queue, woken>>
    BY <1>2 DEF Check, At, lock
  <2>2. CASE Return(r)
    <3>1. Only(r) /\ run'[r].pc \in {"left", "next", "closing"} BY <2>2, LeaveFacts
    <3>2. LoopMove(r)
      <4>1. r = Job => LoopMove(r) BY <2>2, LeaveFacts DEF LoopMove
      <4>2. ASSUME r # Job PROVE LoopMove(r)
        <5>1. run'[r].pc = "next" /\ UNCHANGED running
          BY <2>2, <4>2 DEF Return, Leave, TypeOK, RunState
        <5>. QED BY <2>1, <4>2, <5>1, GoesOn DEF Between, Pcs
      <4>. QED BY <4>1, <4>2
    <3>. QED BY <2>1, <3>1, <3>2, QuietAway DEF InLockPcs
  <2>3. CASE Goto(r, "acquire") /\ UNCHANGED running
    <3>1. Only(r) /\ run'[r].pc = "acquire" BY <2>3, GotoFacts
    <3>2. LoopMove(r) BY <2>1, <2>3, <3>1, GoesOn DEF Between, Pcs
    <3>. QED BY <2>1, <3>1, <3>2, QuietAway DEF InLockPcs
  <2>. QED BY <1>2, <2>2, <2>3 DEF Check
<1>3. CASE TryAdvisoryLock(r)
  <2>1. PICK pc \in {"signature", "release"} : Goto(r, pc) BY <1>3 DEF TryAdvisoryLock
  <2>2. run'[r].pc = pc BY <2>1, GotoFacts
  <2>3. OnLoop(r) /\ run[r].pc = "advisory" /\ UNCHANGED <<held, queue, woken, running>>
    BY <1>3 DEF TryAdvisoryLock, At, lock
  <2>4. LoopMove(r) BY <2>2, <2>3, GoesOn DEF Between, Pcs
  <2>. QED BY <2>1, <2>3, <2>4, QuietInside DEF InLockPcs
<1>. QED BY <1>1, <1>2, <1>3

LEMMA QuietGeneration ==
  ASSUME TypeOK, LoopInv, NEW r \in Runs, GenerateStep(r) PROVE Quiet(r)
<1>1. CASE CheckSignature(r)
  <2>1. OnLoop(r) /\ run[r].pc = "signature" /\ UNCHANGED <<held, queue, woken, running>>
    BY <1>1 DEF CheckSignature, At, lock
  <2>2. /\ Only(r) /\ run'[r].pc \in {"release", "coffee"} /\ run'[r].user = run[r].user
    BY <1>1 DEF CheckSignature, TypeOK, RunState, Only
  <2>3. LoopMove(r) BY <2>1, <2>2, GoesOn DEF Between, Pcs
  <2>4. \A u \in Users : InLock(r, u)' <=> InLock(r, u) BY <2>1, <2>2 DEF InLock, User
  <2>. QED BY <2>1, <2>2, <2>3, <2>4 DEF Quiet
<1>2. ASSUME NEW pc \in {"release", "sweet"}, Goto(r, pc), OnLoop(r), run[r].pc \in InLockPcs,
             UNCHANGED <<held, queue, woken, running>>
      PROVE  Quiet(r)
  <2>1. run'[r].pc = pc BY <1>2, GotoFacts
  <2>2. LoopMove(r) BY <1>2, <2>1, GoesOn DEF Between, Pcs
  <2>. QED BY <1>2, <2>2, QuietInside DEF InLockPcs
<1>3. CASE GiveUp(r) \/ AllTiersFail(r) \/ Publish(r) \/ SweetSpots(r)
  BY <1>2, <1>3
  DEF GiveUp, AllTiersFail, Publish, SweetSpots, Generating, At, lock, InLockPcs
<1>4. CASE VerifyUrl(r)
  <2>1. run'[r].pc = "verify" /\ OnLoop(r) /\ Yield(r) BY <1>4, GotoFacts DEF VerifyUrl
  <2>2. LoopMove(r) BY <2>1 DEF LoopMove, OnLoop, Yield, Between
  <2>. QED BY <1>4, <2>2, QuietInside DEF VerifyUrl, At, lock, InLockPcs
<1>5. CASE UrlVerified(r)
  <2>1. run'[r].pc = "judged" /\ Regain(r) BY <1>5, GotoFacts DEF UrlVerified
  <2>2. LoopMove(r) BY <2>1 DEF LoopMove, Regain, Between, Pcs
  <2>. QED BY <1>5, <2>2, QuietInside DEF UrlVerified, At, lock, InLockPcs
<1>. QED BY <1>1, <1>3, <1>4, <1>5 DEF GenerateStep

-----------------------------------------------------------------------------
(* The asyncio lock: who is in its queue waits, who waits is in its queue,
   only a waiter is woken, and whoever holds it is a run inside. *)

Queued(u) ==
  /\ \A i \in DOMAIN queue[u] : At(queue[u][i], "waiting") /\ User(queue[u][i]) = u
  /\ \A i, j \in DOMAIN queue[u] : i # j => queue[u][i] # queue[u][j]
Held(u) == /\ woken[u] => queue[u] # <<>>
           /\ held[u] => \E r \in Runs : InLock(r, u)
WaitInv ==
  /\ \A u \in Users : Queued(u) /\ Held(u)
  /\ \A r \in Runs : At(r, "waiting") => \E i \in DOMAIN queue[User(r)] : queue[User(r)][i] = r

LEMMA QueuesOfRuns ==
  ASSUME TypeOK, NEW u \in Users PROVE \A i \in DOMAIN queue[u] : queue[u][i] \in Runs
  BY DEF TypeOK

\* A step of a run that waits neither before nor after.
LEMMA QueuesKeep ==
  ASSUME TypeOK, WaitInv, NEW r \in Runs, Only(r), UNCHANGED queue,
         run[r].pc # "waiting", run'[r].pc # "waiting",
         \A u \in Users : Held(u)'
  PROVE  WaitInv'
<1>1. ASSUME NEW u \in Users PROVE Queued(u)'
  <2>1. ASSUME NEW i \in DOMAIN queue[u]
        PROVE  At(queue[u][i], "waiting")' /\ User(queue[u][i])' = u
    <3>1. At(queue[u][i], "waiting") /\ User(queue[u][i]) = u /\ queue[u][i] \in Runs
      BY QueuesOfRuns DEF WaitInv, Queued
    <3>. QED BY <3>1 DEF Only, At, User
  <2>. QED BY <2>1 DEF WaitInv, Queued, At, User
<1>2. ASSUME NEW q \in Runs, At(q, "waiting")'
      PROVE  \E i \in DOMAIN queue'[User(q)'] : queue'[User(q)'][i] = q
  <2>1. q # r /\ run'[q] = run[q] BY <1>2 DEF At, Only
  <2>. QED BY <1>2, <2>1 DEF WaitInv, At, User
<1>. QED BY <1>1, <1>2 DEF WaitInv

LEMMA QuietKeeps ==
  ASSUME TypeOK, WaitInv, NEW r \in Runs, Quiet(r) PROVE WaitInv'
<1>1. ASSUME NEW u \in Users PROVE Held(u)'
  <2>1. \A q \in Runs : InLock(q, u)' <=> InLock(q, u) BY DEF Quiet, Only, InLock, User
  <2>. QED BY <2>1 DEF WaitInv, Held, Quiet
<1>. QED BY <1>1, QueuesKeep DEF Quiet

\* The steps at the lock: what they do to one record and to one lock.
LEMMA AcquireKeeps ==
  ASSUME Inv, WaitInv, NEW r \in Runs, Acquire(r) \/ Take(r)
  PROVE  Only(r) /\ LoopMove(r) /\ WaitInv'
<1>0. TypeOK /\ User(r) \in Users
  BY DEF Inv, Located, Inside, Acquire, Take, At
<1>1. PICK pc \in {"advisory", "take", "enqueue"} : Goto(r, pc) BY DEF Acquire, Take
<1>2. Only(r) /\ run'[r].pc = pc /\ run'[r].user = run[r].user BY <1>0, <1>1, GotoFacts
<1>3. /\ OnLoop(r) /\ run[r].pc \in {"acquire", "take"}
      /\ UNCHANGED <<queue, woken, running>>
  BY DEF Acquire, Take, At
<1>4. LoopMove(r) BY <1>0, <1>2, <1>3, GoesOn DEF Between, Pcs
<1>5. \/ UNCHANGED held
      \/ held' = [held EXCEPT ![User(r)] = TRUE] /\ pc = "advisory"
  <2>1. run'[r].pc = "advisory" => pc = "advisory" BY <1>2
  <2>2. Goto(r, "advisory") => run'[r].pc = "advisory" BY <1>0, GotoFacts
  <2>. QED BY <2>1, <2>2 DEF Acquire, Take
<1>6. ASSUME NEW u \in Users PROVE Held(u)'
  <2>1. ASSUME NEW q \in Runs, InLock(q, u) PROVE InLock(q, u)'
    BY <1>2, <1>3, <2>1 DEF InLock, Only, User
  <2>2. CASE UNCHANGED held BY <1>3, <2>1, <2>2 DEF WaitInv, Held
  <2>3. CASE held' = [held EXCEPT ![User(r)] = TRUE] /\ pc = "advisory"
    <3>1. CASE u = User(r)
      <4>1. InLock(r, u)' BY <1>2, <2>3, <3>1 DEF InLock, User
      <4>. QED BY <1>3, <4>1 DEF WaitInv, Held
    <3>2. CASE u # User(r)
      <4>1. held'[u] = held[u] BY <1>0, <2>3, <3>2 DEF TypeOK
      <4>. QED BY <1>3, <2>1, <4>1 DEF WaitInv, Held
    <3>. QED BY <3>1, <3>2
  <2>. QED BY <1>5, <2>2, <2>3
<1>. QED BY <1>0, <1>2, <1>3, <1>4, <1>6, QueuesKeep

LEMMA EnqueueKeeps ==
  ASSUME Inv, LoopInv, WaitInv, NEW r \in Runs, Enqueue(r)
  PROVE  Only(r) /\ LoopMove(r) /\ WaitInv'
<1>. DEFINE u == User(r)
<1>0. /\ TypeOK /\ u \in Users /\ run[r].pc = "enqueue" /\ OnLoop(r)
      /\ UNCHANGED <<held, woken>>
  BY DEF Inv, Located, Inside, Enqueue, At
<1>1. CASE Raise(r) /\ UNCHANGED queue
  <2>1. Only(r) /\ run'[r].pc = IF r = Job THEN "left" ELSE "closing"
    BY <1>0, <1>1 DEF Raise, Leave, TypeOK, RunState, Only
  <2>2. Quiet(r)
    <3>1. LoopMove(r)
      BY <1>0, <1>1, <2>1 DEF LoopMove, Raise, Leave, Yield, OnLoop, Between, TypeOK, RunState
    <3>. QED BY <1>0, <1>1, <2>1, <3>1, QuietAway DEF InLockPcs
  <2>. QED BY <1>0, <2>1, <2>2, QuietKeeps DEF Quiet
<1>2. CASE queue' = [queue EXCEPT ![u] = Append(@, r)] /\ Goto(r, "waiting") /\ Yield(r)
  <2>1. Only(r) /\ run'[r].pc = "waiting" /\ run'[r].user = run[r].user
    BY <1>0, <1>2, GotoFacts
  <2>2. LoopMove(r) BY <1>0, <1>2, <2>1 DEF LoopMove, Yield, OnLoop, Between
  <2>3. /\ queue'[u] = Append(queue[u], r)
        /\ \A v \in Users \ {u} : queue'[v] = queue[v]
    BY <1>0, <1>2 DEF TypeOK
  <2>4. queue[u] \in Seq(Runs) BY <1>0 DEF TypeOK
  <2>5. /\ DOMAIN queue[u] \subseteq DOMAIN queue'[u] /\ queue'[u] # <<>>
        /\ \A i \in DOMAIN queue[u] : queue'[u][i] = queue[u][i]
        /\ \A i \in DOMAIN queue'[u] \ DOMAIN queue[u] : i = Len(queue[u]) + 1 /\ queue'[u][i] = r
        /\ \E i \in DOMAIN queue'[u] : queue'[u][i] = r
    BY <2>3, <2>4
  <2>6. \A v \in Users : \A i \in DOMAIN queue[v] :
          queue[v][i] # r /\ run'[queue[v][i]].pc = "waiting" /\ run'[queue[v][i]].user = v
    <3>. SUFFICES ASSUME NEW v \in Users, NEW i \in DOMAIN queue[v]
                  PROVE  queue[v][i] # r /\ run'[queue[v][i]].pc = "waiting" /\ run'[queue[v][i]].user = v
      OBVIOUS
    <3>1. At(queue[v][i], "waiting") /\ User(queue[v][i]) = v /\ queue[v][i] \in Runs
      BY <1>0, QueuesOfRuns DEF WaitInv, Queued
    <3>2. queue[v][i] # r BY <1>0, <3>1 DEF At
    <3>3. run'[queue[v][i]] = run[queue[v][i]] BY <2>1, <3>1, <3>2 DEF Only
    <3>. QED BY <3>1, <3>2, <3>3 DEF At, User
  <2>7. ASSUME NEW v \in Users PROVE Queued(v)'
    <3>1. CASE v # u
      <4>1. queue'[v] = queue[v] BY <2>3, <3>1
      <4>. QED BY <2>6, <4>1 DEF WaitInv, Queued, At, User
    <3>2. CASE v = u
      <4>1. run'[r].pc = "waiting" /\ run'[r].user = u BY <2>1 DEF User
      <4>2. \A i \in DOMAIN queue'[u] :
              run'[queue'[u][i]].pc = "waiting" /\ run'[queue'[u][i]].user = u
        <5>. SUFFICES ASSUME NEW i \in DOMAIN queue'[u]
                      PROVE  run'[queue'[u][i]].pc = "waiting" /\ run'[queue'[u][i]].user = u
          OBVIOUS
        <5>1. CASE i \in DOMAIN queue[u]
          <6>1. run'[queue[u][i]].pc = "waiting" /\ run'[queue[u][i]].user = u BY <1>0, <2>6, <5>1
          <6>2. queue'[u][i] = queue[u][i] BY <2>5, <5>1
          <6>. QED BY <6>1, <6>2
        <5>2. CASE i \notin DOMAIN queue[u]
          <6>1. queue'[u][i] = r BY <2>5, <5>2
          <6>. QED BY <4>1, <6>1
        <5>. QED BY <5>1, <5>2
      <4>3. \A i, j \in DOMAIN queue'[u] : i # j => queue'[u][i] # queue'[u][j]
        <5>1. \A i \in DOMAIN queue[u] : queue[u][i] # r BY <1>0, <2>6
        <5>2. \A i, j \in DOMAIN queue[u] : i # j => queue[u][i] # queue[u][j]
          BY <1>0 DEF WaitInv, Queued
        <5>. HIDE DEF u
        <5>. QED BY <2>5, <5>1, <5>2
      <4>. HIDE DEF u
      <4>. QED BY <3>2, <4>2, <4>3 DEF Queued, At, User
    <3>. QED BY <3>1, <3>2
  <2>8. ASSUME NEW v \in Users PROVE Held(v)'
    <3>1. ASSUME NEW q \in Runs, InLock(q, v) PROVE InLock(q, v)'
      BY <1>0, <2>1, <3>1 DEF InLock, Only, User
    <3>2. queue'[v] = queue[v] \/ queue'[v] # <<>> BY <2>3, <2>5
    <3>. QED BY <1>0, <3>1, <3>2 DEF WaitInv, Held
  <2>9. ASSUME NEW q \in Runs, At(q, "waiting")'
        PROVE  \E i \in DOMAIN queue'[User(q)'] : queue'[User(q)'][i] = q
    <3>1. CASE q = r BY <2>1, <2>5, <3>1 DEF User
    <3>2. CASE q # r
      <4>1. run'[q] = run[q] BY <2>1, <3>2 DEF Only
      <4>2. At(q, "waiting") /\ User(q)' = User(q) BY <2>9, <4>1 DEF At, User
      <4>3. User(q) \in Users BY <4>2 DEF Inv, Located, Inside, At
      <4>4. PICK i \in DOMAIN queue[User(q)] : queue[User(q)][i] = q BY <4>2 DEF WaitInv
      <4>5. i \in DOMAIN queue'[User(q)] /\ queue'[User(q)][i] = q
        BY <2>3, <2>5, <4>3, <4>4
      <4>. QED BY <4>2, <4>5
    <3>. QED BY <3>1, <3>2
  <2>. QED BY <2>1, <2>2, <2>7, <2>8, <2>9 DEF WaitInv
<1>. QED BY <1>1, <1>2 DEF Enqueue

LEMMA ResumeKeeps ==
  ASSUME Inv, LoopInv, WaitInv, NEW r \in Runs, Resume(r)
  PROVE  Only(r) /\ LoopMove(r) /\ WaitInv'
<1>. DEFINE u == User(r)
<1>0. /\ TypeOK /\ u \in Users /\ run[r].pc = "waiting" /\ Regain(r)
      /\ queue[u] # <<>> /\ Head(queue[u]) = r
  BY DEF Inv, Located, Inside, Resume, At
<1>1. Only(r) /\ run'[r].pc = "advisory" /\ run'[r].user = run[r].user
  BY <1>0, GotoFacts DEF Resume
<1>2. LoopMove(r) BY <1>0, <1>1 DEF LoopMove, Regain, Between, Pcs
<1>3. /\ queue'[u] = Tail(queue[u]) /\ ~woken'[u]
      /\ \A v \in Users \ {u} : /\ queue'[v] = queue[v] /\ woken'[v] = woken[v]
                                /\ held'[v] = held[v]
  BY <1>0 DEF Resume, TypeOK
<1>4. queue[u] \in Seq(Runs) BY <1>0 DEF TypeOK
<1>5. /\ 1 \in DOMAIN queue[u] /\ queue[u][1] = r
      /\ \A i \in DOMAIN queue'[u] : i + 1 \in DOMAIN queue[u] /\ i \in Nat
                                     /\ queue'[u][i] = queue[u][i + 1] /\ i + 1 # 1
      /\ \A i \in DOMAIN queue[u] : i # 1 => /\ i - 1 \in DOMAIN queue'[u]
                                             /\ queue'[u][i - 1] = queue[u][i]
  BY <1>0, <1>3, <1>4
<1>6. \A i \in DOMAIN queue[u] : i # 1 => queue[u][i] # r
  BY <1>0, <1>5 DEF WaitInv, Queued
<1>7. \A v \in Users : \A i \in DOMAIN queue[v] : queue[v][i] # r =>
        run'[queue[v][i]].pc = "waiting" /\ run'[queue[v][i]].user = v
  BY <1>0, <1>1, QueuesOfRuns DEF WaitInv, Queued, Only, At, User
<1>8. ASSUME NEW v \in Users PROVE Queued(v)'
  <2>1. CASE v # u
    <3>1. \A i \in DOMAIN queue[v] : queue[v][i] # r
      BY <1>0, <2>1 DEF WaitInv, Queued
    <3>2. queue'[v] = queue[v] BY <1>3, <2>1
    <3>. QED BY <1>7, <3>1, <3>2 DEF WaitInv, Queued, At, User
  <2>2. CASE v = u
    <3>1. \A i \in DOMAIN queue'[u] :
            run'[queue'[u][i]].pc = "waiting" /\ run'[queue'[u][i]].user = u
      BY <1>0, <1>5, <1>6, <1>7
    <3>2. \A i, j \in DOMAIN queue'[u] : i # j => queue'[u][i] # queue'[u][j]
      <4>1. \A i, j \in DOMAIN queue[u] : i # j => queue[u][i] # queue[u][j]
        BY <1>0 DEF WaitInv, Queued
      <4>2. \A i, j \in Nat : i # j => i + 1 # j + 1 OBVIOUS
      <4>. HIDE DEF u
      <4>. QED BY <1>5, <4>1, <4>2
    <3>. HIDE DEF u
    <3>. QED BY <2>2, <3>1, <3>2 DEF Queued, At, User
  <2>. QED BY <2>1, <2>2
<1>9. ASSUME NEW v \in Users PROVE Held(v)'
  <2>1. CASE v # u
    <3>1. ASSUME NEW q \in Runs, InLock(q, v) PROVE InLock(q, v)'
      BY <1>0, <1>1, <3>1 DEF InLock, Only, User
    <3>. QED BY <1>3, <2>1, <3>1 DEF WaitInv, Held
  <2>2. CASE v = u
    <3>1. InLock(r, v)' BY <1>1, <2>2 DEF InLock, User
    <3>. QED BY <1>3, <2>2, <3>1 DEF Held
  <2>. QED BY <2>1, <2>2
<1>10. ASSUME NEW q \in Runs, At(q, "waiting")'
       PROVE  \E i \in DOMAIN queue'[User(q)'] : queue'[User(q)'][i] = q
  <2>1. q # r BY <1>1, <1>10 DEF At
  <2>2. run'[q] = run[q] BY <1>1, <2>1 DEF Only
  <2>3. At(q, "waiting") /\ User(q)' = User(q) BY <1>10, <2>2 DEF At, User
  <2>4. User(q) \in Users BY <2>3 DEF Inv, Located, Inside, At
  <2>5. PICK i \in DOMAIN queue[User(q)] : queue[User(q)][i] = q BY <2>3 DEF WaitInv
  <2>6. CASE User(q) # u BY <1>3, <2>3, <2>4, <2>5, <2>6
  <2>7. CASE User(q) = u
    <3>1. i # 1 /\ i \in DOMAIN queue[u] /\ queue[u][i] = q BY <1>5, <2>1, <2>5, <2>7
    <3>. HIDE DEF u
    <3>. QED BY <1>5, <2>3, <2>7, <3>1
  <2>. QED BY <2>6, <2>7
<1>. QED BY <1>1, <1>2, <1>8, <1>9, <1>10 DEF WaitInv

LEMMA ReleaseKeeps ==
  ASSUME Inv, LoopInv, WaitInv, NEW r \in Runs, Release(r)
  PROVE  Only(r) /\ LoopMove(r) /\ WaitInv'
<1>0. /\ TypeOK /\ User(r) \in Users /\ run[r].pc = "release" /\ OnLoop(r) /\ UNCHANGED queue
  BY DEF Inv, Located, Inside, Release, At
<1>1. /\ Only(r) /\ run'[r].pc \in {"left", "next", "closing"}
      /\ r # Job => \/ run'[r].pc = "next" /\ running' = running
                    \/ run'[r].pc = "closing" /\ running' = None
      /\ r = Job => running' = running
  <2>1. Return(r) \/ Raise(r) BY DEF Release
  <2>. QED BY <1>0, <2>1, LeaveFacts
<1>2. LoopMove(r)
  BY <1>0, <1>1, Distinct DEF LoopMove, OnLoop, Between, Pcs
<1>3. \/ /\ held[User(r)] /\ held' = [held EXCEPT ![User(r)] = FALSE]
         /\ woken' = [woken EXCEPT ![User(r)] = queue[User(r)] # <<>>]
      \/ ~held[User(r)] /\ UNCHANGED <<held, woken>>
  BY DEF Release
<1>4. /\ ~held'[User(r)]
      /\ woken'[User(r)] => queue[User(r)] # <<>>
      /\ \A v \in Users : v # User(r) => held'[v] = held[v] /\ woken'[v] = woken[v]
  <2>1. woken[User(r)] => queue[User(r)] # <<>> BY <1>0 DEF WaitInv, Held
  <2>. QED BY <1>0, <1>3, <2>1 DEF TypeOK
<1>5. ASSUME NEW v \in Users PROVE Held(v)'
  <2>1. CASE v = User(r) BY <1>0, <1>4, <2>1 DEF Held
  <2>2. CASE v # User(r)
    <3>1. ASSUME NEW q \in Runs, InLock(q, v) PROVE InLock(q, v)'
      BY <1>1, <2>2, <3>1 DEF InLock, Only, User
    <3>. QED BY <1>0, <1>4, <2>2, <3>1 DEF WaitInv, Held
  <2>. QED BY <2>1, <2>2
<1>. QED BY <1>0, <1>1, <1>2, <1>5, QueuesKeep

\* Every step is quiet or one of the steps at the lock.
StepAtLock(r) == Acquire(r) \/ Take(r) \/ Enqueue(r) \/ Resume(r) \/ Release(r)

LEMMA QuietOrAtLock ==
  ASSUME Inv, LoopInv, Next
  PROVE  \/ \E r \in Runs : Quiet(r) \/ StepAtLock(r)
         \/ UNCHANGED <<run, running, lock>> \/ Restart
<1>0. TypeOK BY DEF Inv
<1>1. ASSUME NEW r \in Runs, LockStep(r) \/ GenerateStep(r) \/ Resume(r)
      PROVE  Quiet(r) \/ StepAtLock(r)
  BY <1>0, <1>1, QuietGate, QuietGeneration DEF LockStep, StepAtLock
<1>2. ASSUME NEW r \in Requests, RequestStep(r)
      PROVE  \E q \in Runs : Quiet(q) \/ StepAtLock(q)
  BY <1>0, <1>1, <1>2, QuietCallers, Distinct DEF RequestStep
<1>3. CASE JobStep \/ Resume(Job)
  BY <1>0, <1>1, <1>3, QuietCallers, Distinct DEF JobStep
<1>4. CASE Start BY <1>0, <1>4, QuietStart
<1>5. ASSUME NEW u \in Users, SaveRating(u) \/ ThrottleExpires(u)
      PROVE  UNCHANGED <<run, running, lock>>
  BY <1>5 DEF SaveRating, ThrottleExpires
<1>. QED BY <1>2, <1>3, <1>4, <1>5 DEF Next

WaitsInv == Inv /\ LoopInv /\ WaitInv

LEMMA WaitsNext == WaitsInv /\ [Next]_vars => WaitsInv'
<1>. SUFFICES ASSUME WaitsInv, [Next]_vars PROVE LoopInv' /\ WaitInv'
  BY InvStep DEF WaitsInv
<1>0. Inv /\ TypeOK /\ LoopInv /\ WaitInv BY DEF WaitsInv, Inv
<1>1. CASE UNCHANGED <<run, running, lock>>
  <2>1. LoopInv' BY <1>0, <1>1 DEF LoopInv
  <2>2. \A q \in Runs, u \in Users : InLock(q, u)' <=> InLock(q, u)
    BY <1>1 DEF InLock, User
  <2>3. \A u \in Users : Queued(u)' /\ Held(u)'
    BY <1>0, <1>1, <2>2 DEF WaitInv, Queued, Held, lock, At, User
  <2>4. WaitInv' BY <1>0, <1>1, <2>3 DEF WaitInv, lock, At, User
  <2>. QED BY <2>1, <2>4
<1>2. CASE Restart
  <2>1. LoopInv' BY <1>2, IdleTyped, Distinct DEF Restart, LoopInv, Between
  <2>2. \A r \in Runs : run'[r].pc = "idle" BY <1>2, IdleTyped DEF Restart
  <2>3. WaitInv' BY <1>2, <2>2 DEF Restart, WaitInv, Queued, Held, At
  <2>. QED BY <2>1, <2>3
<1>3. ASSUME NEW r \in Runs, Quiet(r) PROVE LoopInv' /\ WaitInv'
  BY <1>0, <1>3, LoopStep, QuietKeeps DEF Quiet
<1>4. ASSUME NEW r \in Runs, StepAtLock(r) PROVE LoopInv' /\ WaitInv'
  <2>1. Only(r) /\ LoopMove(r) /\ WaitInv'
    BY <1>0, <1>4, AcquireKeeps, EnqueueKeeps, ResumeKeeps, ReleaseKeeps DEF StepAtLock
  <2>. QED BY <1>0, <2>1, LoopStep
<1>5. CASE UNCHANGED vars BY <1>1, <1>5 DEF vars
<1>. QED BY <1>0, <1>1, <1>2, <1>3, <1>4, <1>5, QuietOrAtLock

LEMMA WaitsAlways == Spec => []WaitsInv
<1>1. Init => LoopInv
  BY IdleTyped, Distinct DEF Init, LoopInv, Between
<1>2. Init => WaitInv
  BY IdleTyped DEF Init, WaitInv, Queued, Held, At
<1>. QED BY <1>1, <1>2, InvInit, WaitsNext, PTL DEF Spec, WaitsInv

-----------------------------------------------------------------------------
(* A stranded lock, and everything else. *)

Unmoved(u) ==
  /\ Stranded(u)'
  /\ \A q \in Runs : /\ At(q, "waiting") /\ User(q) = u => At(q, "waiting")'
                     /\ InLock(q, u)' => InLock(q, u)

LEMMA StrandStays ==
  ASSUME NEW r \in Runs, Only(r), NEW u \in Users, Stranded(u),
         ~held'[u], ~woken'[u], queue'[u] # <<>>,
         User(r)' = u => ~At(r, "take")',
         At(r, "waiting") /\ User(r) = u => At(r, "waiting")',
         InLock(r, u)' => InLock(r, u)
  PROVE  Unmoved(u)
<1>1. \A q \in Runs \ {r} : /\ At(q, "take")' = At(q, "take") /\ User(q)' = User(q)
                            /\ At(q, "waiting")' = At(q, "waiting")
                            /\ InLock(q, u)' = InLock(q, u)
  BY DEF Only, At, User, InLock
<1>2. \A q \in Runs : User(q)' = u => ~At(q, "take")' BY <1>1 DEF Stranded
<1>3. Stranded(u)' BY <1>2 DEF Stranded
<1>. QED BY <1>1, <1>3 DEF Unmoved

LEMMA StrandStep ==
  ASSUME Inv, NEW r \in Runs, StepAtLock(r), NEW u \in Users, Stranded(u) PROVE Unmoved(u)
<1>. DEFINE w == User(r)
<1>0. TypeOK /\ queue[u] # <<>> /\ ~held[u] /\ ~woken[u] BY DEF Inv, Stranded
<1>1. w \in Users BY DEF Inv, Located, Inside, StepAtLock, Acquire, Take, Enqueue, Resume, Release, At
<1>2. CASE Acquire(r)
  <2>1. PICK pc \in {"advisory", "take", "enqueue"} : Goto(r, pc) /\ (w = u => pc = "enqueue")
    BY <1>0, <1>2 DEF Acquire
  <2>2. Only(r) /\ run'[r].pc = pc /\ run'[r].user = w BY <1>0, <2>1, GotoFacts DEF User
  <2>3. ~held'[u] /\ ~woken'[u] /\ queue'[u] # <<>> BY <1>0, <1>1, <1>2 DEF Acquire, TypeOK
  <2>. QED BY <1>2, <2>1, <2>2, <2>3, StrandStays DEF Acquire, At, User, InLock
<1>3. CASE Take(r)
  <2>1. w # u BY <1>3 DEF Take, Stranded
  <2>2. Only(r) /\ run'[r].user = w BY <1>0, <1>3, GotoFacts DEF Take, User
  <2>3. ~held'[u] /\ ~woken'[u] /\ queue'[u] # <<>> BY <1>0, <1>1, <1>3, <2>1 DEF Take, TypeOK
  <2>. QED BY <1>3, <2>1, <2>2, <2>3, StrandStays DEF Take, At, User, InLock
<1>4. CASE Enqueue(r)
  <2>1. Only(r) /\ run'[r].pc \notin InLockPcs \cup {"take"}
    <3>1. Goto(r, "waiting") \/ Return(r) \/ Raise(r) BY <1>4 DEF Enqueue
    <3>. QED BY <1>0, <3>1, GotoFacts, LeaveFacts DEF InLockPcs
  <2>2. ~held'[u] /\ ~woken'[u] BY <1>0, <1>4 DEF Enqueue
  <2>3. queue'[u] # <<>>
    <3>1. queue[u] \in Seq(Runs) BY <1>0 DEF TypeOK
    <3>2. queue' = [queue EXCEPT ![w] = Append(@, r)] \/ queue' = queue BY <1>4 DEF Enqueue
    <3>3. queue'[u] = queue[u] \/ queue'[u] = Append(queue[u], r) BY <1>0, <3>2 DEF TypeOK
    <3>. QED BY <1>0, <3>1, <3>3
  <2>. QED BY <1>4, <2>1, <2>2, <2>3, StrandStays DEF Enqueue, At, InLock, InLockPcs
<1>5. CASE Resume(r)
  <2>1. w # u BY <1>0, <1>5 DEF Resume
  <2>2. Only(r) /\ run'[r].user = w BY <1>0, <1>5, GotoFacts DEF Resume, User
  <2>3. ~held'[u] /\ ~woken'[u] /\ queue'[u] # <<>>
    BY <1>0, <1>1, <1>5, <2>1 DEF Resume, TypeOK
  <2>. QED BY <1>5, <2>1, <2>2, <2>3, StrandStays DEF Resume, At, User, InLock
<1>6. CASE Release(r)
  <2>1. Only(r) /\ run'[r].pc \notin InLockPcs \cup {"take"}
    <3>1. Return(r) \/ Raise(r) BY <1>6 DEF Release
    <3>. QED BY <1>0, <3>1, LeaveFacts DEF InLockPcs
  <2>2. ~held'[u] /\ ~woken'[u] /\ queue'[u] # <<>>
    <3>1. CASE w = u BY <1>0, <1>6, <3>1 DEF Release
    <3>2. CASE w # u BY <1>0, <1>1, <1>6, <3>2 DEF Release, TypeOK
    <3>. QED BY <3>1, <3>2
  <2>. QED BY <1>6, <2>1, <2>2, StrandStays DEF Release, At, InLock, InLockPcs
<1>. QED BY <1>2, <1>3, <1>4, <1>5, <1>6 DEF StepAtLock

\* A waiter that a thread has left asleep in the queue sleeps until the process
\* ends, whatever requests, jobs and releases follow, and the lock lets nobody
\* in any more. (Code: ai_service.regenerate, asyncio.Lock in two threads.)
THEOREM StrandedUntilRestart == Spec => StrandedForGood
<1>1. ASSUME WaitsInv, [Next]_vars, NEW u \in Users, Stranded(u), ~Restart PROVE Unmoved(u)
  <2>0. Inv /\ LoopInv BY <1>1 DEF WaitsInv
  <2>1. CASE UNCHANGED <<run, running, lock>>
    BY <1>1, <2>1 DEF Unmoved, Stranded, At, User, InLock, lock
  <2>2. ASSUME NEW r \in Runs, Quiet(r) PROVE Unmoved(u)
    <3>1. ~held'[u] /\ ~woken'[u] /\ queue'[u] # <<>> BY <1>1, <2>2 DEF Quiet, Stranded
    <3>. QED BY <1>1, <2>2, <3>1, StrandStays DEF Quiet, At
  <2>3. ASSUME NEW r \in Runs, StepAtLock(r) PROVE Unmoved(u) BY <1>1, <2>0, <2>3, StrandStep
  <2>4. CASE UNCHANGED vars BY <2>1, <2>4 DEF vars
  <2>. QED BY <1>1, <2>0, <2>1, <2>2, <2>3, <2>4, QuietOrAtLock
<1>2. WaitsInv /\ [Next]_vars =>
        \A u \in Users : Stranded(u) /\ ~Restart =>
          /\ Stranded(u)'
          /\ \A r \in Runs : /\ At(r, "waiting") /\ User(r) = u => At(r, "waiting")'
                             /\ InLock(r, u)' => InLock(r, u)
  BY <1>1 DEF Unmoved
<1>. QED BY <1>2, WaitsAlways, PTL DEF Spec, StrandedForGood

\* Nothing else makes a run hang: whoever cannot move waits for the loop, whose
\* run can move, or in the queue of a lock that a run is inside of, is about to
\* take or is woken for. (Code: regenerate, its three callers and their awaits.)
THEOREM NothingElseHangs == Spec => []OnlyStrandedHang
<1>1. ASSUME WaitsInv PROVE OnlyStrandedHang
  <2>0. TypeOK /\ Inv /\ LoopInv /\ WaitInv BY <1>1 DEF WaitsInv, Inv
  <2>1. running # None => CanMove(running)
    BY <2>0, Distinct DEF TypeOK, LoopInv, CanMove, OnLoop, Between
  <2>. SUFFICES ASSUME NEW r \in Runs, ~At(r, "idle"), ~CanMove(r),
                       ~((At(r, "verify") \/ Woken(r)) /\ running # None /\ CanMove(running))
                PROVE  /\ At(r, "waiting")
                       /\ \/ Stranded(User(r))
                          \/ \E q \in Runs \ {r} :
                               /\ User(q) = User(r)
                               /\ InLock(q, User(r)) \/ At(q, "take") \/ Woken(q)
    BY DEF OnlyStrandedHang
  <2>2. ~At(r, "verify") /\ ~Woken(r) BY <2>1 DEF CanMove
  <2>3. At(r, "waiting")
    <3>1. r = Job => OnLoop(r) BY DEF OnLoop
    <3>2. r # Job => /\ r \in Requests /\ run[r].pc # "left"
                     /\ run[r].pc \in Between => OnLoop(r)
      BY <2>0 DEF LoopInv, OnLoop, Runs
    <3>3. run[r].pc \in Pcs BY <2>0 DEF TypeOK, RunState
    <3>. QED BY <2>2, <3>1, <3>2, <3>3 DEF CanMove, Between, At
  <2>4. User(r) \in Users BY <2>0, <2>3 DEF Inv, Located, Inside, At
  <2>5. queue[User(r)] # <<>> /\ queue[User(r)] \in Seq(Runs)
    BY <2>0, <2>3, <2>4 DEF WaitInv, TypeOK
  <2>6. CASE woken[User(r)]
    <3>1. PICK q \in Runs : q = Head(queue[User(r)]) /\ q = queue[User(r)][1]
                            /\ 1 \in DOMAIN queue[User(r)]
      BY <2>5
    <3>2. At(q, "waiting") /\ User(q) = User(r) BY <2>0, <2>4, <3>1 DEF WaitInv, Queued
    <3>3. Woken(q) /\ q # r BY <2>2, <2>6, <3>1, <3>2 DEF Woken
    <3>. QED BY <2>3, <3>2, <3>3
  <2>7. CASE held[User(r)]
    <3>1. PICK q \in Runs : InLock(q, User(r)) BY <2>0, <2>4, <2>7 DEF WaitInv, Held
    <3>2. q # r /\ User(q) = User(r) BY <2>3, <3>1 DEF InLock, At
    <3>. QED BY <2>3, <3>1, <3>2
  <2>8. CASE ~woken[User(r)] /\ ~held[User(r)] /\ ~Stranded(User(r))
    <3>1. PICK q \in Runs : User(q) = User(r) /\ At(q, "take")
      BY <2>5, <2>8 DEF Stranded
    <3>2. q # r BY <2>3, <3>1 DEF At
    <3>. QED BY <2>3, <3>1, <3>2
  <2>. QED BY <2>3, <2>6, <2>7, <2>8
<1>. QED BY <1>1, WaitsAlways, PTL
=============================================================================
