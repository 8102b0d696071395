---------------------------- MODULE MCController ----------------------------
(***************************************************************************)
(* Small instances of Controller.  A ticket covers the window [1, 2) and   *)
(* time ends at 2 (the short one covers [0, 1), time ends at 1), so every  *)
(* window is left behind.  With NonceTTL = 0 a challenge is good at the    *)
(* instant it was drawn and stale one tick later, inside the window.       *)
(***************************************************************************)
EXTENDS ControllerInv, TLC

Bandwidth == [start |-> 1, end |-> 2, service |-> 0, mapped |-> TRUE]
Unmapped  == [start |-> 1, end |-> 2, service |-> 1, mapped |-> FALSE]
Undecodable == [start |-> 0, end |-> 2, service |-> 2, mapped |-> TRUE]

Immediate == [start |-> 0, end |-> 1, service |-> 0, mapped |-> TRUE]

OneKind == {Bandwidth}
ShortKind == {Immediate}
AllKinds == {Bandwidth, Unmapped, Undecodable}

Symmetry == Permutations(Nonces) \cup Permutations(Agents) \cup Permutations(Workers)
              \cup Permutations(Ids)
=============================================================================
