------------------------------ MODULE PhotoBook ------------------------------
(* What the photo code promises of the pictures on its pages: a place shows  *)
(* one picture or none, a picture shows in one place and once only, and when *)
(* it is replaced or removed it is gone for good.                            *)
CONSTANTS Places, Pictures

VARIABLES shown,   \* the picture of each place
          past     \* pictures that were taken and will not be shown again

Init == shown = [x \in Places |-> {}] /\ past = {}

Show(x, p) ==
  /\ p \notin past /\ \A y \in Places : p \notin shown[y]
  /\ shown' = [shown EXCEPT ![x] = {p}]
  /\ past' = past \cup shown[x]

Hide(x) == shown' = [shown EXCEPT ![x] = {}] /\ past' = past \cup shown[x]

\* Taken, and never shown: its row was gone, or the process died.
Waste(P) ==
  /\ \A y \in Places : P \cap shown[y] = {}
  /\ past' = past \cup P /\ UNCHANGED shown

Next == \/ \E x \in Places : Hide(x) \/ \E p \in Pictures : Show(x, p)
        \/ \E P \in SUBSET Pictures : Waste(P)

Spec == Init /\ [][Next]_<<shown, past>>
=============================================================================
