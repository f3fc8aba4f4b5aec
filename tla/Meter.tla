-------------------------------- MODULE Meter --------------------------------
(* What the daily quota promises: of each member and bucket one call is under *)
(* way at a time, it begins below a limit that is in force, and what it adds  *)
(* stays within that limit, whatever becomes of the limit meanwhile.          *)
EXTENDS Naturals

CONSTANTS Users, Buckets

VARIABLES
  used,    \* calls of each user and bucket that count today
  under,   \* the limit of the call that is under way, if one is
  limit    \* of each bucket, the limit in force; none before the first boot

Init ==
  /\ used = [u \in Users |-> [b \in Buckets |-> 0]]
  /\ under = [u \in Users |-> [b \in Buckets |-> {}]]
  /\ limit = [b \in Buckets |-> {}]

Begin(u, b, t) ==
  /\ under[u][b] = {} /\ t \in limit[b] /\ used[u][b] < t
  /\ under' = [under EXCEPT ![u][b] = {t}]
  /\ UNCHANGED <<used, limit>>

Charge(u, b, t) ==
  /\ under[u][b] = {t} /\ used[u][b] < t
  /\ used' = [used EXCEPT ![u][b] = @ + 1]
  /\ under' = [under EXCEPT ![u][b] = {}]
  /\ UNCHANGED limit

\* The call fails, or its client goes away: it costs nothing.
GiveUp(u, b) == under' = [under EXCEPT ![u][b] = {}] /\ UNCHANGED <<used, limit>>

\* A call is a day old.
Lapse(u, b) ==
  /\ used[u][b] > 0 /\ used' = [used EXCEPT ![u][b] = @ - 1]
  /\ UNCHANGED <<under, limit>>

Reset == limit' \in [Buckets -> SUBSET Nat] /\ UNCHANGED <<used, under>>

\* The process dies: every call with it, and what it knew of the limits.
Crash ==
  /\ under' = [u \in Users |-> [b \in Buckets |-> {}]]
  /\ limit' = [b \in Buckets |-> {}]
  /\ UNCHANGED used

Next ==
  \/ \E u \in Users, b \in Buckets :
       \/ GiveUp(u, b) \/ Lapse(u, b)
       \/ \E t \in limit[b] : Begin(u, b, t)
       \/ \E t \in under[u][b] : Charge(u, b, t)
  \/ Reset \/ Crash

Spec == Init /\ [][Next]_<<used, under, limit>>
=============================================================================
