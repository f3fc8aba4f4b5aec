------------------------------ MODULE OneBuyer ------------------------------
(* What regenerate promises about the coffees it pays a provider for: a user *)
(* has one deal at a time, an unforced deal is for a signature other than    *)
(* the one served, and what is served changes only when a deal ends, and     *)
(* then to what that deal was for.                                           *)
CONSTANTS Users, Sigs, Buyers, None

VARIABLES deal,    \* of each user: no deal, or the one that is open
          served   \* the signature of the coffee each user is shown

Init == deal = [u \in Users |-> {}] /\ served = [u \in Users |-> None]

Buy(b, u, s, forced) ==
  /\ deal[u] = {}
  /\ \A v \in Users : \A d \in deal[v] : d.by # b
  /\ forced \/ s # served[u]
  /\ deal' = [deal EXCEPT ![u] = {[by |-> b, sig |-> s, forced |-> forced]}]
  /\ UNCHANGED served

\* The coffee is delivered, comes too late to be shown, or never comes.
End(u, d) ==
  /\ deal[u] = {d}
  /\ deal' = [deal EXCEPT ![u] = {}]
  /\ served' \in {served, [served EXCEPT ![u] = d.sig]}

\* The process dies, and every deal with it.
Crash == deal' = [u \in Users |-> {}] /\ UNCHANGED served

Next ==
  \/ \E b \in Buyers, u \in Users, s \in Sigs, forced \in BOOLEAN : Buy(b, u, s, forced)
  \/ \E u \in Users : \E d \in deal[u] : End(u, d)
  \/ Crash

Spec == Init /\ [][Next]_<<deal, served>>
=============================================================================
