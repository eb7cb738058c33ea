------------------------- MODULE MCCustomerSessions -------------------------
(* Small instances of CustomerSessions for TLC.                              *)
EXTENDS CustomerSessions, TLC

Projection(ref, ord, pay, orderState, paymentState, fulfillment) ==
  [ref |-> ref, correlation |-> "corr", order |-> ord, payment |-> pay,
   orderState |-> orderState, paymentState |-> paymentState,
   fulfillment |-> fulfillment]

\* A paid order and a second, canceled one XBOS might answer with.
TwoOrders ==
  {Projection("e1", "o1", "p1", "confirmed", "paid", None),
   Projection("e2", "o2", "p2", "canceled", "pending", None)}

Symmetry == Permutations(SessionRefs) \cup Permutations(Keys)
=============================================================================
