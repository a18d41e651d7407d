--------------------------- MODULE MCFoodCooking ---------------------------
(* FoodCooking, and the stores under it, on a small instance: two vendors    *)
(* and the super admin race over their stores while food is created and      *)
(* cooked in them.                                                           *)
EXTENDS FoodCooking, TLC

CONSTANTS r1, r2, r3, r4, c1, c2, c3, s1, s2, v1, v2, f1, f2, n1

MCRequests == {r1, r2, r3, r4}
MCChefs == {c1, c2, c3}
MCStores == {s1, s2}
MCVendors == {v1, v2}
MCFoods == {f1, f2}
MCFoodNames == {n1}
MCAmounts == {2, 1, -1}

Symmetry ==
  Permutations(MCRequests) \cup Permutations(Chefs) \cup Permutations(MCStores)
    \cup Permutations(MCVendors) \cup Permutations(MCFoods)
============================================================================
