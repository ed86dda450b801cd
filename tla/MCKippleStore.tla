---------------------------- MODULE MCKippleStore ----------------------------
(***************************************************************************)
(* KippleStore for TLC: one upload with all that may happen to it.  Two    *)
(* uploads that compete for quota and disk are in MCKippleClient.          *)
(***************************************************************************)
EXTENDS KippleStore, TLC

CONSTANTS f1, s1, s2, u1

OneFile  == {f1}
TwoSlots == {s1, s2}
OneUser  == {u1}
NoUser   == {}
Plenty   == {9}

OwnerOfAll == [f \in Files |-> u1]
TwoUnits   == [f \in Files |-> 2]
ThreeUnits == [f \in Files |-> 3]

SlotSymmetry == Permutations(TwoSlots)
=============================================================================
