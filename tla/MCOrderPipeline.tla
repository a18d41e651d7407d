--------------------------- MODULE MCOrderPipeline ---------------------------
(* OrderPipeline on small instances.                                         *)
EXTENDS OrderPipeline, TLC

CONSTANTS r1, r2, r3, r4, d1, d2, o1, o2, s1, s2, v1, f1, f2, g1, lost

MCRequests == {r1, r2, r3}
MCFourRequests == {r1, r2, r3, r4}
MCOrders == {o1, o2}
MCJobs == {d1, d2}
MCPaymentIds == Requests \X (1..MaxRetries)

\* Two stores of one vendor and three foods of one price, two of them from one store.
MCStores == {s1, s2}
MCVendors == {v1}
MCOwnerOf == [s \in MCStores |-> v1]
MCFoods == {f1, f2, g1}
MCStoreOf == [f \in MCFoods |-> IF f = g1 THEN s2 ELSE s1]
MCPrice == [f \in MCFoods |-> 2]

\* Good baskets, and what is wrong with the others: a food named twice, two stores,
\* a food that does not exist.
MCBaskets == {<<f1>>, <<f1, f2>>, <<f1, f1>>, <<f1, g1>>, <<lost>>}
OneBasket == {<<f1>>}

AllRepaired == Faults

Symmetry == Permutations(Requests) \cup Permutations(MCOrders) \cup Permutations(Jobs)
==============================================================================
