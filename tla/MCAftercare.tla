---------------------------- MODULE MCAftercare ----------------------------
(***************************************************************************)
(* A small instance of what follows a mission: ann's advertisement s1 is of *)
(* type SHIPPING.                                                           *)
(***************************************************************************)
EXTENDS Aftercare, TLC

CONSTANTS ann, s1

MCAdType == [a \in Ads |-> "SHIPPING"]
MCAdAuthor == [a \in Ads |-> ann]
MCPackageOwner == [p \in Packages |-> ann]

\* Slots are interchangeable.
SlotSymmetry == Permutations(Slots)
=============================================================================
