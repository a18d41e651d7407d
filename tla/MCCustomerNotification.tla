----------------------- MODULE MCCustomerNotification -----------------------
(* CustomerNotification on small instances: those of MCOrderPipeline, with a *)
(* delivery batch that falls behind the clock.                               *)
EXTENDS CustomerNotification, TLC

CONSTANTS r1, r2, r3, d1, d2, o1, o2, s1, v1, f1

MCTwoRequests == {r1, r2}
MCRequests == {r1, r2, r3}
MCJobs == {d1, d2}
MCPaymentIds == Requests \X (1..MaxRetries)
MCStores == {s1}
MCVendors == {v1}
MCOwnerOf == [s \in MCStores |-> v1]
MCFoods == {f1}
MCStoreOf == [f \in MCFoods |-> s1]
MCPrice == [f \in MCFoods |-> 2]
MCBaskets == {<<f1>>}
AllRepaired == Faults
==============================================================================
