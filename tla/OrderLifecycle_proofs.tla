------------------------ MODULE OrderLifecycle_proofs ------------------------
(* OrderLifecycle for any number of orders, client references, stages and    *)
(* threads: XBOS decides a client reference once, and a cancellation it       *)
(* accepted is final.                                                        *)
EXTENDS OrderLifecycle, TLAPS

-----------------------------------------------------------------------------
(* The inductive invariant.                                                  *)

\* Whoever refers to an order refers to one XBOS has.
OrdersExist ==
  /\ current # None => record[current] # None
  /\ \A t \in Threads : call[t] # None => record[call[t].order] # None

\* An order its merchant cancels is canceled from the start.
MerchantsCancel ==
  \A o \in Orders : record[o] # None => (record[o].merchant => record[o].canceled)

\* A decision is filed under the key of its request, about an order XBOS has,
\* and an accepted cancellation is on that order.
DecisionsAreFiled ==
  \A k \in Keys :
    decided[k] # None =>
      /\ Key(decided[k].request) = k
      /\ record[decided[k].request.order] # None
      /\ k[1] = "cancel" /\ decided[k].decision.accepted =>
           record[decided[k].request.order].canceled

\* What a customer was told is what XBOS decided.
ToldIsDecided == \A d \in answered : decided[Key(d.request)] = d

LifecycleInv == TypeOK /\ OrdersExist /\ MerchantsCancel /\ DecisionsAreFiled

-----------------------------------------------------------------------------
(* Lemmas.                                                                   *)
LEMMA RecordFields ==
  ASSUME TypeOK
  PROVE  /\ \A o \in Orders : record[o] # None => record[o] \in LifecycleRecord
         /\ \A t \in Threads : call[t] # None =>
              call[t] \in Request /\ call[t].order \in Orders
         /\ \A k \in Keys : decided[k] # None =>
              /\ decided[k] \in Decided /\ decided[k].request \in Request
              /\ decided[k].request.order \in Orders
         /\ current # None => current \in Orders
  BY DEF TypeOK, Opt, Decided, Request

LEMMA KeyOfRequest ==
  ASSUME NEW q \in Request
  PROVE  Key(q) \in Keys /\ Key(q)[1] = q.kind
  BY DEF Request, Key, Keys

\* XBOS always has an answer, and never both an acceptance and a refusal after
\* preparation.
LEMMA PolicyDecides ==
  ASSUME NEW q \in Request, NEW r \in LifecycleRecord
  PROVE  /\ [case |-> Case(q, r), accepted |-> Accepted(q, r)] \in Decision
         /\ AfterDecision(q, r) \in LifecycleRecord
         /\ r.canceled => AfterDecision(q, r).canceled
         /\ q.kind = "cancel" /\ Effective(q, r) => AfterDecision(q, r).canceled
         /\ AfterDecision(q, r).merchant => r.merchant
         /\ q.kind = "change" /\ r.canceled => ~ Accepted(q, r)
         /\ q.kind = "cancel" /\ Accepted(q, r) => r.merchant \/ Effective(q, r)
<1>1. r.merchant \in BOOLEAN /\ r.paid \in BOOLEAN /\ r.canceled \in BOOLEAN
      /\ q.kind \in {"change", "cancel"}
  BY DEF LifecycleRecord, Request
<1>2. CancellationCase(r) \in
        {"merchant", "after_preparation", "after_payment", "before_payment"}
  BY <1>1 DEF CancellationCase
<1>3. Accepted(q, r) \in BOOLEAN
  BY <1>1 DEF Accepted
<1>4. \/ Accepted(q, r) = TRUE
         /\ Case(q, r) \in {"before_payment", "after_payment", "merchant", "change"}
      \/ Accepted(q, r) = FALSE /\ Case(q, r) \in {"after_preparation", "change"}
  BY <1>1, <1>2, <1>3 DEF Accepted, Case
<1>5. [case |-> Case(q, r), accepted |-> Accepted(q, r)] \in Decision
  BY <1>4 DEF Decision
<1>6. Effective(q, r) \in BOOLEAN
  BY <1>3 DEF Effective
<1>7. /\ AfterDecision(q, r) \in LifecycleRecord
      /\ r.canceled => AfterDecision(q, r).canceled
      /\ q.kind = "cancel" /\ Effective(q, r) => AfterDecision(q, r).canceled
      /\ AfterDecision(q, r).merchant => r.merchant
  BY <1>1, <1>6 DEF AfterDecision, LifecycleRecord
<1>8. q.kind = "change" /\ r.canceled => ~ Accepted(q, r)
  BY DEF Accepted
<1>9. q.kind = "cancel" /\ Accepted(q, r) => r.merchant \/ Effective(q, r)
  BY <1>1 DEF Effective, Case, CancellationCase
<1> QED BY <1>5, <1>7, <1>8, <1>9

\* What Decide does, told once for all proofs: the request's key gets its first
\* decision, counted if it has an effect, and the order bears a cancellation.
LEMMA DecideEffect ==
  ASSUME LifecycleInv, NEW t \in Threads, Decide(t)
  PROVE  \E q \in Request, d \in Decided, r \in LifecycleRecord :
           /\ q = call[t] /\ d.request = q /\ q.order \in Orders
           /\ Key(q) \in Keys /\ Key(q)[1] = q.kind /\ decided[Key(q)] = None
           /\ record[q.order] \in LifecycleRecord
           /\ record' = [record EXCEPT ![q.order] = r]
           /\ record[q.order].canceled => r.canceled
           /\ r.merchant => r.canceled
           /\ q.kind = "cancel" /\ d.decision.accepted => r.canceled
           /\ q.kind = "change" /\ record[q.order].canceled => ~ d.decision.accepted
           /\ decided' = [decided EXCEPT ![Key(q)] = d]
           /\ effects' = IF d \in Effecting THEN effects + 1 ELSE effects
           /\ answered' = answered \cup {d} \/ UNCHANGED answered
           /\ call' = [call EXCEPT ![t] = None] /\ UNCHANGED current
<1> PICK q : q = call[t]
  OBVIOUS
<1>1. q # None /\ q \in Request /\ q.order \in Orders /\ record[q.order] # None
      /\ record[q.order] \in LifecycleRecord
  BY RecordFields DEF Decide, LifecycleInv, OrdersExist
<1> PICK r0 \in LifecycleRecord : r0 = record[q.order]
  BY <1>1
<1> PICK c : c = [case |-> Case(q, r0), accepted |-> Accepted(q, r0)]
  OBVIOUS
<1> PICK d : d = [request |-> q, decision |-> c]
  OBVIOUS
<1> PICK r : r = AfterDecision(q, r0)
  OBVIOUS
<1>2. c \in Decision /\ r \in LifecycleRecord
  BY <1>1, PolicyDecides
<1>3. /\ r0.canceled => r.canceled
      /\ q.kind = "cancel" /\ Effective(q, r0) => r.canceled
      /\ r.merchant => r0.merchant
      /\ q.kind = "change" /\ r0.canceled => ~ Accepted(q, r0)
      /\ q.kind = "cancel" /\ Accepted(q, r0) => r0.merchant \/ Effective(q, r0)
  BY <1>1, PolicyDecides
<1>4. d \in Decided /\ d.request = q /\ d.decision = c
  BY <1>1, <1>2 DEF Decided
<1>5. c.case = Case(q, r0) /\ c.accepted = Accepted(q, r0)
  OBVIOUS
<1>6. d \in Effecting <=> Effective(q, r0)
  BY <1>4, <1>5 DEF Effecting, Effective
<1>7. Key(q) \in Keys /\ Key(q)[1] = q.kind
  BY <1>1, KeyOfRequest
<1>8. /\ decided[Key(q)] = None
      /\ record' = [record EXCEPT ![q.order] = r]
      /\ decided' = [decided EXCEPT ![Key(q)] = d]
      /\ effects' = IF Effective(q, r0) THEN effects + 1 ELSE effects
      /\ answered' = answered \cup {d} \/ UNCHANGED answered
      /\ call' = [call EXCEPT ![t] = None] /\ UNCHANGED current
  BY DEF Decide, Prior, Return
<1>9. r0.merchant => r0.canceled
  BY <1>1 DEF LifecycleInv, MerchantsCancel
<1>10. d.decision.accepted => Accepted(q, r0)
  BY <1>4, <1>5
<1>11. r.merchant => r.canceled
  BY <1>3, <1>9
<1>12. q.kind = "cancel" /\ d.decision.accepted => r.canceled
  BY <1>3, <1>9, <1>10
<1>13. q.kind = "change" /\ record[q.order].canceled => ~ d.decision.accepted
  BY <1>3, <1>10
<1>14. record[q.order].canceled => r.canceled
  BY <1>3
<1>15. q = call[t] /\ record[q.order] \in LifecycleRecord
      /\ effects' = IF d \in Effecting THEN effects + 1 ELSE effects
  BY <1>6, <1>8
<1> QED BY ONLY <1>1, <1>2, <1>4, <1>7, <1>8, <1>11, <1>12, <1>13, <1>14, <1>15

-----------------------------------------------------------------------------
LEMMA InitInvariant == Init => LifecycleInv
  BY DEF Init, LifecycleInv, TypeOK, Opt, OrdersExist, MerchantsCancel,
         DecisionsAreFiled

\* XBOS's own steps: an order keeps existing and keeps its cancellation.
LEMMA RecordSteps ==
  ASSUME LifecycleInv, NEW o \in Orders, NEW r \in LifecycleRecord,
         record' = [record EXCEPT ![o] = r],
         record[o] # None => (record[o].canceled => r.canceled),
         r.merchant => r.canceled,
         UNCHANGED <<decided, effects, current, call, answered>>
  PROVE  LifecycleInv'
<1>1. r # None
  BY LifecycleAssumption
<1>2. \A p \in Orders : record'[p] = IF p = o THEN r ELSE record[p]
  BY DEF LifecycleInv, TypeOK
<1>3. TypeOK'
  BY DEF LifecycleInv, TypeOK, Opt
<1>4. OrdersExist'
  BY <1>1, <1>2, RecordFields DEF LifecycleInv, OrdersExist
<1>5. DecisionsAreFiled'
  BY <1>1, <1>2, RecordFields DEF LifecycleInv, DecisionsAreFiled, Key
<1>6. MerchantsCancel'
  BY <1>2 DEF LifecycleInv, MerchantsCancel
<1> QED BY <1>3, <1>4, <1>5, <1>6 DEF LifecycleInv

\* A step that changes no order and decides nothing.
LEMMA TalkSteps ==
  ASSUME LifecycleInv, UNCHANGED xbos,
         current' \in Opt(Orders), current' # None => record[current'] # None,
         call' \in [Threads -> Opt(Request)],
         \A t \in Threads : call'[t] # None => record[call'[t].order] # None,
         answered' \subseteq Decided
  PROVE  LifecycleInv'
  BY DEF LifecycleInv, TypeOK, OrdersExist, MerchantsCancel, DecisionsAreFiled, Key,
         xbos

LEMMA DecideStep ==
  ASSUME LifecycleInv, NEW t \in Threads, Decide(t)
  PROVE  LifecycleInv'
<1> PICK q \in Request, d \in Decided, r \in LifecycleRecord :
      /\ q = call[t] /\ d.request = q /\ q.order \in Orders
      /\ Key(q) \in Keys /\ Key(q)[1] = q.kind /\ decided[Key(q)] = None
      /\ record[q.order] \in LifecycleRecord
      /\ record' = [record EXCEPT ![q.order] = r]
      /\ record[q.order].canceled => r.canceled
      /\ r.merchant => r.canceled
      /\ q.kind = "cancel" /\ d.decision.accepted => r.canceled
      /\ decided' = [decided EXCEPT ![Key(q)] = d]
      /\ effects' = IF d \in Effecting THEN effects + 1 ELSE effects
      /\ answered' = answered \cup {d} \/ UNCHANGED answered
      /\ call' = [call EXCEPT ![t] = None] /\ UNCHANGED current
  BY DecideEffect
<1>1. r # None
  BY LifecycleAssumption
<1>2. \A o \in Orders : record'[o] = IF o = q.order THEN r ELSE record[o]
  BY DEF LifecycleInv, TypeOK
<1>3. \A k \in Keys : decided'[k] = IF k = Key(q) THEN d ELSE decided[k]
  BY DEF LifecycleInv, TypeOK
<1>4. \A u \in Threads : call'[u] = IF u = t THEN None ELSE call[u]
  BY DEF LifecycleInv, TypeOK
<1>5. TypeOK'
  <2>1. record' \in [Orders -> Opt(LifecycleRecord)] /\ decided' \in [Keys -> Opt(Decided)]
        /\ call' \in [Threads -> Opt(Request)]
    BY DEF LifecycleInv, TypeOK, Opt
  <2>2. effects' \in Nat /\ answered' \subseteq Decided /\ current' \in Opt(Orders)
    BY DEF LifecycleInv, TypeOK
  <2> QED BY <2>1, <2>2 DEF TypeOK
<1>6. OrdersExist'
  BY <1>1, <1>2, <1>4, RecordFields DEF LifecycleInv, OrdersExist
<1>7. ASSUME NEW k \in Keys, NEW e, e = decided'[k], e # None
      PROVE  /\ Key(e.request) = k
             /\ record'[e.request.order] # None
             /\ k[1] = "cancel" /\ e.decision.accepted =>
                  record'[e.request.order].canceled
  <2>1. CASE k = Key(q)
    BY <1>1, <1>2, <1>3, <1>7, <2>1
  <2>2. CASE k # Key(q)
    BY <1>1, <1>2, <1>3, <1>7, <2>2, RecordFields DEF LifecycleInv, DecisionsAreFiled
  <2> QED BY <2>1, <2>2
<1>8. DecisionsAreFiled'
  BY <1>7 DEF DecisionsAreFiled, Key
<1>9. MerchantsCancel'
  BY <1>2 DEF LifecycleInv, MerchantsCancel
<1> QED BY <1>5, <1>6, <1>8, <1>9 DEF LifecycleInv

LEMMA InvariantStep == LifecycleInv /\ [Next]_vars => LifecycleInv'
<1> SUFFICES ASSUME LifecycleInv, [Next]_vars PROVE LifecycleInv'
  OBVIOUS
<1>1. ASSUME NEW o \in Orders, NEW stage \in Opt(Stages \cup Completions),
             SetFulfillmentStage(o, stage)
      PROVE  LifecycleInv'
  <2> PICK r : r = [record[o] EXCEPT !.stage = stage]
    OBVIOUS
  <2>1. record[o] \in LifecycleRecord
    BY <1>1, RecordFields DEF SetFulfillmentStage, LifecycleInv
  <2>2. r \in LifecycleRecord /\ r.canceled = record[o].canceled
        /\ r.merchant = record[o].merchant
    BY <2>1 DEF LifecycleRecord
  <2>3. r.merchant => r.canceled
    BY <1>1, <2>2 DEF SetFulfillmentStage, LifecycleInv, MerchantsCancel
  <2> QED BY <1>1, <2>2, <2>3, RecordSteps DEF SetFulfillmentStage
<1>2. ASSUME NEW o \in Orders, NEW stage \in Opt(Stages \cup Completions),
             NEW own \in BOOLEAN, NEW paid \in BOOLEAN, NEW merchant \in BOOLEAN,
             RegisterOrder(o, own, paid, stage, merchant)
      PROVE  LifecycleInv'
  <2> PICK r : r = [own |-> own, canceled |-> merchant, paid |-> paid, stage |-> stage,
                    merchant |-> merchant]
    OBVIOUS
  <2>1. r \in LifecycleRecord
    BY DEF LifecycleRecord
  <2> QED BY <1>2, <2>1, RecordSteps DEF RegisterOrder
<1>3. ASSUME NEW o \in Orders, SessionRefersTo(o)
      PROVE  LifecycleInv'
  BY <1>3, TalkSteps DEF SessionRefersTo, LifecycleInv, TypeOK, OrdersExist, Opt
<1>4. ASSUME NEW t \in Threads, NEW kind \in {"change", "cancel"}, NEW ref \in ClientRefs,
             NEW what \in Whats, Begin(t, kind, ref, what)
      PROVE  LifecycleInv'
  <2> PICK q : q = [kind |-> kind, ref |-> ref, order |-> current, what |-> what]
    OBVIOUS
  <2>1. q \in Request /\ record[q.order] # None
    BY <1>4, RecordFields DEF Begin, Request, LifecycleInv, OrdersExist
  <2>2. call' = [call EXCEPT ![t] = q] /\ UNCHANGED <<xbos, current, answered>>
    BY <1>4 DEF Begin
  <2> QED
    BY <2>1, <2>2, TalkSteps DEF LifecycleInv, TypeOK, OrdersExist, Opt
<1>5. ASSUME NEW t \in Threads, Return(t), UNCHANGED <<xbos, current>>,
             answered' \subseteq Decided
      PROVE  LifecycleInv'
  BY <1>5, TalkSteps DEF Return, LifecycleInv, TypeOK, OrdersExist, Opt
<1>6. ASSUME NEW t \in Threads, Repeat(t)
      PROVE  LifecycleInv'
  <2>1. Key(call[t]) \in Keys /\ decided[Key(call[t])] # None
    BY <1>6, RecordFields, KeyOfRequest DEF Repeat, Prior, LifecycleInv
  <2>2. decided[Key(call[t])] \in Decided
    BY <2>1, RecordFields DEF LifecycleInv
  <2> QED BY <1>5, <1>6, <2>2 DEF Repeat, LifecycleInv, TypeOK
<1>7. ASSUME NEW t \in Threads, Mismatch(t)
      PROVE  LifecycleInv'
  BY <1>5, <1>7 DEF Mismatch, LifecycleInv, TypeOK
<1>8. CASE UNCHANGED vars
  BY <1>8, TalkSteps DEF vars, xbos, LifecycleInv, TypeOK, OrdersExist
<1> QED
  BY <1>1, <1>2, <1>3, <1>4, <1>6, <1>7, <1>8, DecideStep DEF Next

LEMMA Invariant == Spec => []LifecycleInv
  BY InitInvariant, InvariantStep, PTL DEF Spec

\* Every reachable state is typed: XBOS's policy has a decision for whatever an
\* order has been through (request_change, request_cancellation).
THEOREM TypeCorrect == Spec => []TypeOK
<1>1. LifecycleInv => TypeOK
  BY DEF LifecycleInv
<1> QED BY <1>1, Invariant, PTL

LEMMA CanceledOrders ==
  ASSUME LifecycleInv, NEW o \in Canceled
  PROVE  record[o] # None /\ record[o].canceled
  BY DEF LifecycleInv, DecisionsAreFiled, Canceled

\* An order keeps its cancellation.
LEMMA StaysCanceled ==
  ASSUME LifecycleInv, [Next]_vars, NEW o \in Orders,
         record[o] # None, record[o].canceled
  PROVE  record'[o].canceled
<1>1. ASSUME NEW p \in Orders, NEW stage, SetFulfillmentStage(p, stage)
      PROVE  record'[o].canceled
  <2>1. record[p] \in LifecycleRecord
    BY <1>1, RecordFields DEF SetFulfillmentStage, LifecycleInv
  <2> PICK r : r = [record[p] EXCEPT !.stage = stage]
    OBVIOUS
  <2>2. r.canceled = record[p].canceled
    BY <2>1 DEF LifecycleRecord
  <2>3. record' = [record EXCEPT ![p] = r]
    BY <1>1 DEF SetFulfillmentStage
  <2> QED BY <2>2, <2>3 DEF LifecycleInv, TypeOK
<1>2. ASSUME NEW p \in Orders, record[p] = None, NEW r, record' = [record EXCEPT ![p] = r]
      PROVE  record'[o].canceled
  BY <1>2 DEF LifecycleInv, TypeOK
<1>3. ASSUME NEW t \in Threads, Decide(t)
      PROVE  record'[o].canceled
  <2> PICK q \in Request, r \in LifecycleRecord :
        /\ record' = [record EXCEPT ![q.order] = r]
        /\ record[q.order].canceled => r.canceled
    BY <1>3, DecideEffect
  <2> QED BY DEF LifecycleInv, TypeOK
<1>4. CASE UNCHANGED record
  BY <1>4
<1> QED
  BY <1>1, <1>2, <1>3, <1>4
     DEF Next, RegisterOrder, SessionRefersTo, Begin, Repeat, Mismatch, vars, xbos

\* An accepted cancellation is final, however requests overlap and whatever the
\* kitchen reports: a reconciliation tells the order canceled, and no change of
\* it is accepted any more (request_order_change, fulfillment_state).
THEOREM CancellationsAreFinal == Spec => CancellationIsFinal
<1> DEFINE Final ==
      \A o \in Canceled :
        /\ FulfillmentState(record'[o]) = "canceled"
        /\ \A k \in Keys :
             decided[k] = None /\ decided'[k] # None =>
               ~ (/\ k[1] = "change" /\ decided'[k].decision.accepted
                  /\ decided'[k].request.order = o)
<1>1. LifecycleInv /\ [Next]_vars => [Final]_vars
  <2> SUFFICES ASSUME LifecycleInv, [Next]_vars, NEW o \in Canceled
               PROVE  /\ FulfillmentState(record'[o]) = "canceled"
                      /\ \A k \in Keys :
                           decided[k] = None /\ decided'[k] # None =>
                             ~ (/\ k[1] = "change" /\ decided'[k].decision.accepted
                                /\ decided'[k].request.order = o)
    OBVIOUS
  <2>1. o \in Orders /\ record[o] # None /\ record[o].canceled
    BY CanceledOrders DEF Canceled
  <2>2. record'[o].canceled
    BY <2>1, StaysCanceled
  <2>3. FulfillmentState(record'[o]) = "canceled"
    BY <2>2 DEF FulfillmentState
  <2>4. ASSUME NEW k \in Keys, decided[k] = None, decided'[k] # None,
               k[1] = "change", decided'[k].decision.accepted,
               decided'[k].request.order = o
        PROVE  FALSE
    <3>1. decided' # decided
      BY <2>4
    <3>2. PICK t \in Threads : Decide(t)
      BY <3>1
         DEF Next, RegisterOrder, SetFulfillmentStage, SessionRefersTo, Begin, Repeat,
             Mismatch, vars, xbos
    <3> PICK q \in Request, d \in Decided :
          /\ d.request = q /\ Key(q) \in Keys /\ Key(q)[1] = q.kind
          /\ decided' = [decided EXCEPT ![Key(q)] = d]
          /\ q.kind = "change" /\ record[q.order].canceled => ~ d.decision.accepted
      BY <3>2, DecideEffect
    <3>3. k = Key(q) /\ decided'[k] = d
      BY <2>4 DEF LifecycleInv, TypeOK
    <3> QED BY <2>1, <2>4, <3>3
  <2> QED BY <2>3, <2>4
<1>2. Spec => [][Final]_vars
  <2> HIDE DEF Final
  <2> QED BY <1>1, Invariant, PTL DEF Spec
<1> QED BY <1>2 DEF CancellationIsFinal

-----------------------------------------------------------------------------
(* The promise.                                                              *)
LEMMA PromiseStep ==
  ASSUME LifecycleInv, Next
  PROVE  Promise!Next \/ UNCHANGED <<decided, effects, answered>>
<1>1. ASSUME NEW t \in Threads, Decide(t)
      PROVE  Promise!Next
  <2> PICK q \in Request, d \in Decided :
        /\ d.request = q /\ Key(q) \in Keys /\ decided[Key(q)] = None
        /\ decided' = [decided EXCEPT ![Key(q)] = d]
        /\ effects' = IF d \in Effecting THEN effects + 1 ELSE effects
        /\ answered' = answered \cup {d} \/ UNCHANGED answered
    BY <1>1, DecideEffect
  <2>1. d \in DecisionsUnder[Key(q)]
    BY DEF DecisionsUnder
  <2>2. Promise!Decide(Key(q), d)
    BY DEF Promise!Decide
  <2> QED BY <2>1, <2>2 DEF Promise!Next
<1>2. ASSUME NEW t \in Threads, Repeat(t)
      PROVE  Promise!Next \/ UNCHANGED <<decided, effects, answered>>
  <2>1. Key(call[t]) \in Keys /\ decided[Key(call[t])] # None
    BY <1>2, RecordFields, KeyOfRequest DEF Repeat, Prior, LifecycleInv
  <2>2. UNCHANGED <<decided, effects>>
    BY <1>2 DEF Repeat, xbos
  <2> QED BY <1>2, <2>1, <2>2 DEF Repeat, Promise!Next, Promise!Tell
<1> QED
  BY <1>1, <1>2
     DEF Next, RegisterOrder, SetFulfillmentStage, SessionRefersTo, Mismatch, Begin, xbos

\* Every run of requests and kitchen reports is a run of DecidedOnce: a client
\* reference is decided once, with its effect, and told as decided.
THEOREM DecisionsAreImplemented == Spec => ImplementsDecisions
<1>1. Init => Promise!Init
  BY DEF Init, Promise!Init
<1>2. LifecycleInv /\ [Next]_vars => [Promise!Next]_<<decided, effects, answered>>
  BY PromiseStep DEF vars
<1> QED BY <1>1, <1>2, Invariant, PTL DEF Spec, ImplementsDecisions, Promise!Spec

\* What a customer was told stays what XBOS decides under her client reference,
\* however requests and their retries overlap.
THEOREM ToldAsDecided == Spec => []ToldIsDecided
<1>1. Init => ToldIsDecided
  BY DEF Init, ToldIsDecided
<1>2. LifecycleInv /\ ToldIsDecided /\ [Next]_vars => ToldIsDecided'
  <2> SUFFICES ASSUME LifecycleInv, ToldIsDecided, [Next]_vars
               PROVE  ToldIsDecided'
    OBVIOUS
  <2>1. CASE UNCHANGED <<decided, answered>>
    BY <2>1 DEF ToldIsDecided, Key
  <2>2. ASSUME NEW t \in Threads, Decide(t)
        PROVE  ToldIsDecided'
    <3> PICK q \in Request, d \in Decided :
          /\ d.request = q /\ Key(q) \in Keys /\ decided[Key(q)] = None
          /\ decided' = [decided EXCEPT ![Key(q)] = d]
          /\ answered' = answered \cup {d} \/ UNCHANGED answered
      BY <2>2, DecideEffect
    <3>1. ASSUME NEW e \in answered
          PROVE  Key(e.request) \in Keys /\ decided'[Key(e.request)] = e
      <4>1. e \in Decided /\ decided[Key(e.request)] = e /\ e # None
        BY LifecycleAssumption DEF ToldIsDecided, LifecycleInv, TypeOK
      <4>2. Key(e.request) \in Keys
        BY <4>1, KeyOfRequest DEF Decided
      <4> QED BY <4>1, <4>2 DEF LifecycleInv, TypeOK
    <3>2. decided'[Key(d.request)] = d
      BY DEF LifecycleInv, TypeOK
    <3>3. \A e \in answered' : decided'[Key(e.request)] = e
      BY <3>1, <3>2
    <3> QED BY <3>3 DEF ToldIsDecided, Key
  <2>3. ASSUME NEW t \in Threads, Repeat(t)
        PROVE  ToldIsDecided'
    <3> PICK d : d = decided[Key(call[t])]
      OBVIOUS
    <3>1. Key(call[t]) \in Keys /\ d # None
      BY <2>3, RecordFields, KeyOfRequest DEF Repeat, Prior, LifecycleInv
    <3>2. decided[Key(d.request)] = d
      BY <3>1 DEF LifecycleInv, DecisionsAreFiled
    <3>3. decided' = decided /\ answered' \subseteq answered \cup {d}
      BY <2>3 DEF Repeat, xbos
    <3> QED BY <3>2, <3>3 DEF ToldIsDecided, Key
  <2> QED
    BY <2>1, <2>2, <2>3
       DEF Next, RegisterOrder, SetFulfillmentStage, SessionRefersTo, Mismatch, Begin,
           xbos, vars
<1> QED BY <1>1, <1>2, Invariant, PTL DEF Spec
=============================================================================
