--------------------------- MODULE MCMarketplace ---------------------------
(***************************************************************************)
(* Small instances of the marketplace for TLC.  Advertisement s1 is of type *)
(* SHIPPING and d1 of type DELIVERY; both belong to ann, who also owns the  *)
(* package parcel.                                                          *)
(***************************************************************************)
EXTENDS Claims, TLC

CONSTANTS ann, bob, eve, s1, d1

MCAdType == [a \in Ads |-> IF a = s1 THEN "SHIPPING" ELSE "DELIVERY"]
MCAdAuthor == [a \in Ads |-> ann]
MCPackageOwner == [p \in Packages |-> ann]

\* Rows and slots are interchangeable: sound for the safety runs.
RowSymmetry ==
  Permutations(Missions) \union Permutations(Offers) \union Permutations(Slots)
=============================================================================
