--------------------------- MODULE Advertisements ---------------------------
(***************************************************************************)
(* Advertisements: publication (with the dossier mission of a SHIPPING      *)
(* advertisement) and deletion by the author.  Both are one statement.      *)
(* Expiry only refuses requests and writes nothing, so it has no state.     *)
(***************************************************************************)
EXTENDS Store

\* POST /advertisements/shipping and /delivery.  The packages of a SHIPPING
\* advertisement belong to its author; the dossier is PENDING, no carrier.
PublishAd(a) ==
  /\ "publish" \in Ops
  /\ ad[a] = "absent"
  /\ ad' = [ad EXCEPT ![a] = "OPEN"]
  /\ \/ /\ AdType[a] = "DELIVERY"
        /\ UNCHANGED mission
     \/ /\ AdType[a] = "SHIPPING"
        /\ \E m \in Missions, ps \in SUBSET Owned(AdAuthor[a]) :
             /\ FreshMission(m)
             /\ mission' = [mission EXCEPT ![m] =
                              Mission("PENDING", a, AdAuthor[a], ps)]
  /\ UNCHANGED <<conv, offer, payment, dispute, proof, pkg, kyc, req>>

\* DELETE /advertisements/:id.  Missions go with the advertisement; a
\* conversation of it, or a transaction of one of them, refuses the delete.
DeleteAd(a) ==
  LET D == {m \in Missions : mission[m].ad = a}
  IN /\ "delete_ad" \in Ops
     /\ AdExists(a)
     /\ Erasable(D)
     /\ \A c \in Convs : c[1] = a => ~ConvExists(c)
     /\ ad' = [ad EXCEPT ![a] = "erased"]
     /\ EraseMissions(D)
     /\ UNCHANGED <<payment, pkg, kyc, req>>
=============================================================================
