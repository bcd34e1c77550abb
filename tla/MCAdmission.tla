----------------------------- MODULE MCAdmission ----------------------------
(***************************************************************************)
(* Two workers come and go while hosts enrol and revoke them.  w1 is on    *)
(* the allowlist; w2 is not, and hosts do not agree on whose it is.        *)
(***************************************************************************)
EXTENDS MCCoordinator, Enrollment

MCListed ==
  [w \in Workers |-> [identity_subject |-> IF w = w1 THEN w ELSE NoSubject, tenant_id |-> "t"]]

MCAsked ==
  {[worker |-> w2, identity_subject |-> subject, tenant_id |-> tenant] :
     subject \in {w1, w2}, tenant \in {"t", "u"}} \ 
  {[worker |-> w2, identity_subject |-> w1, tenant_id |-> "t"]}

MCRows == MCOffers \cup {Bare("t"), Bare("u")}

\* Whatever a worker may advertise of itself.
AdmissionCalls == {RegisterCall(offer, FALSE) : offer \in MCOffers}
                    \cup {RegisterCall(Offer("c", "t"), TRUE), LeaseCall, Body("release")}

SlotsSymmetric == Permutations(Slots)
=============================================================================
