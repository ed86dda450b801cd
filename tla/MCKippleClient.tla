---------------------------- MODULE MCKippleClient ----------------------------
(***************************************************************************)
(* KippleClient for TLC: two pages and two uploads of the file, of which a *)
(* quota of 3 units has room for one; or one upload and liveness.          *)
(***************************************************************************)
EXTENDS KippleClient, TLC

CONSTANTS f1, f2, s1, s2, p1, p2, u1

OneFile  == {f1}
TwoFiles == {f1, f2}
TwoSlots == {s1, s2}
OnePage  == {p1}
TwoPages == {p1, p2}
OneUser  == {u1}
NoUser   == {}
Plenty   == {9}
Scarce   == {1, 9}   \* a disk with one unit left is scarce

OwnerOfAll == [f \in Files |-> u1]
TwoUnits   == [f \in Files |-> 2]
ThreeUnits == [f \in Files |-> 3]

PageSymmetry ==
  Permutations(TwoPages) \cup Permutations(TwoSlots) \cup Permutations(TwoFiles)
=============================================================================
