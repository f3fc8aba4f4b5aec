----------------------------- MODULE FirstAdmin -----------------------------
(* What /setup promises (AUTH-02): of all who try, at most one is elected   *)
(* the first admin, at one moment, and for good.                            *)
CONSTANTS Requests, None

VARIABLE winner

Init == winner = None

Elect(r) == winner = None /\ winner' = r

Next == \E r \in Requests : Elect(r)

Spec == Init /\ [][Next]_winner
=============================================================================
