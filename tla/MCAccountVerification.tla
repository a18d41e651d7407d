------------------------ MODULE MCAccountVerification ------------------------
(* AccountVerification on a small instance: one vendor, the super admin and  *)
(* an email that is not the super admin's, two verifications.                *)
EXTENDS AccountVerification, TLC

CONSTANTS r1, r2, r3, r4, a1, b1, b2, x1, x2

MCRequests == {r1, r2, r3, r4}
MCVendors == {a1}
MCAdmins == {b1, b2}
MCVerifications == {x1, x2}

Symmetry == Permutations(MCRequests) \cup Permutations(MCVerifications)
==============================================================================
