---------------------------- MODULE OrderPromise -----------------------------
(* What submitting promises the customer, whatever calls overlap or get      *)
(* lost: a confirmation handle is claimed once and for good, and an order    *)
(* is made once, for a client reference that holds a claim, spending an      *)
(* XBOS confirmation nobody spent before.  OrderSubmission implements it.    *)
CONSTANTS Handles, ClientRefs, Confirmations, None

VARIABLES
  claimed,   \* the client reference a handle is claimed for
  ordered    \* the confirmation a client reference's order spent

Init ==
  /\ claimed = [h \in Handles |-> None]
  /\ ordered = [c \in ClientRefs |-> None]

Claim(h, c) ==
  /\ claimed[h] = None
  /\ claimed' = [claimed EXCEPT ![h] = c]
  /\ UNCHANGED ordered

Order(c, conf) ==
  /\ ordered[c] = None
  /\ \E h \in Handles : claimed[h] = c
  /\ \A d \in ClientRefs : ordered[d] # conf
  /\ ordered' = [ordered EXCEPT ![c] = conf]
  /\ UNCHANGED claimed

Next ==
  \/ \E h \in Handles, c \in ClientRefs : Claim(h, c)
  \/ \E c \in ClientRefs, conf \in Confirmations : Order(c, conf)

Spec == Init /\ [][Next]_<<claimed, ordered>>
=============================================================================
