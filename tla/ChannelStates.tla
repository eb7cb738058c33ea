---------------------------- MODULE ChannelStates ----------------------------
(* The closed transition matrix of the customer conversation, and what an    *)
(* upstream XBOS projection lets the channel say.  Pure operators, used by   *)
(* every module about sessions.                                              *)
CONSTANT None   \* Python's None: an absent reference, epoch or projection

ChannelState ==
  {"start", "merchant_context", "browsing", "cart", "service_mode",
   "customer_details", "review", "order_submitting", "order_created",
   "payment_method", "payment_pending", "paid", "fulfillment", "completed",
   "human_handoff", "canceled"}

Aside == {"human_handoff", "canceled"}

Transitions ==
  [start            |-> {"merchant_context"} \cup Aside,
   merchant_context |-> {"browsing"} \cup Aside,
   browsing         |-> {"cart"} \cup Aside,
   cart             |-> {"browsing", "service_mode"} \cup Aside,
   service_mode     |-> {"customer_details", "review"} \cup Aside,
   customer_details |-> {"review"} \cup Aside,
   review           |-> {"order_submitting", "cart"} \cup Aside,
   order_submitting |-> {"order_created"} \cup Aside,
   order_created    |-> {"payment_method"} \cup Aside,
   payment_method   |-> {"payment_pending"} \cup Aside,
   payment_pending  |-> {"paid", "payment_method"} \cup Aside,
   paid             |-> {"fulfillment", "human_handoff"},
   fulfillment      |-> {"completed"} \cup Aside,
   completed        |-> {},
   human_handoff    |-> {"merchant_context", "browsing", "cart", "review",
                         "order_created", "payment_pending", "paid",
                         "fulfillment", "canceled"},
   canceled         |-> {}]

\* The labels that assert an XBOS fact and so need XBOS evidence to be entered.
EvidenceGated ==
  {"order_created", "payment_pending", "paid", "fulfillment", "completed"}

OrderState       == {"created", "confirmed", "canceled"}
PaymentState     == {"not_requested", "pending", "paid", "failed", "canceled"}
FulfillmentState == {"not_started", "active", "completed", "canceled"}

\* A projection p of XBOS state supports showing the gated label `target`.
Supports(target, p) ==
  /\ target = "order_created"   => p.orderState \in {"created", "confirmed"}
  /\ target = "payment_pending" => p.paymentState = "pending"
  /\ target = "paid"            => p.paymentState = "paid"
  /\ target = "fulfillment"     => p.fulfillment = "active"
  /\ target = "completed"       => p.fulfillment = "completed"

\* Variant: passes XBOS's own word for a payment on as the label.
PaymentStateFromProjection(p) ==
  IF p.fulfillment = "active" THEN "fulfillment" ELSE p.paymentState

\* The label a projection dictates on re-entry, the first line that applies;
\* None when no line applies (the code raises).
StateFromProjection(p) ==
  IF "canceled" \in {p.orderState, p.fulfillment} THEN "canceled"
  ELSE IF p.fulfillment = "completed"             THEN "completed"
  ELSE IF p.fulfillment = "active"                THEN "fulfillment"
  ELSE IF p.paymentState = "paid"                 THEN "paid"
  ELSE IF p.paymentState = "pending"              THEN "payment_pending"
  ELSE IF p.orderState \in {"created", "confirmed"} THEN "order_created"
  ELSE None
=============================================================================
