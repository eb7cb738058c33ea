---------------------------- MODULE OrderLifecycle ----------------------------
(* OrderChangeFulfillmentService and the XBOS lifecycle boundary: customers  *)
(* ask to change or cancel the order their session refers to, and ask again  *)
(* under the same client reference; XBOS decides by policy while the kitchen *)
(* goes on and the session comes to refer to another order.  A request takes *)
(* two steps, reading the session and asking XBOS, which answers atomically. *)
EXTENDS Naturals, FiniteSets

CONSTANTS
  None,
  Orders,
  ClientRefs,     \* client_change_ref, client_cancel_ref
  Whats,          \* requested_change_ref, reason_ref
  Stages,         \* fulfillment stages short of completion
  Completions,    \* served, picked up, delivered
  Threads

Opt(S) == S \cup {None}

\* What XBOS keeps of an order.  "own" says that the order carries the
\* session's correlation reference.
LifecycleRecord ==
  [own : BOOLEAN, canceled : BOOLEAN, paid : BOOLEAN,
   stage : Opt(Stages \cup Completions), merchant : BOOLEAN]

\* An OrderChangeRequest or a CancellationRequest.
Request ==
  [kind : {"change", "cancel"}, ref : ClientRefs, order : Orders, what : Whats]

Key(q) == <<q.kind, q.ref>>

\* A decision is never both an acceptance and a refusal after preparation.
Decision ==
  [case : {"before_payment", "after_payment", "merchant", "change"},
   accepted : {TRUE}]
    \cup [case : {"after_preparation", "change"}, accepted : {FALSE}]

Keys == {"change", "cancel"} \X ClientRefs

Decided == [request : Request, decision : Decision]

ASSUME LifecycleAssumption ==
  /\ None \notin Stages \cup Completions \cup Orders
  /\ None \notin Decided \cup Request \cup LifecycleRecord

VARIABLES
  record,    \* XBOS: the orders
  decided,   \* XBOS: the decision of each client reference
  effects,   \* XBOS: changes and cancellations it carried out
  current,   \* the order the session refers to
  call,      \* the request each thread is about to put to XBOS
  answered   \* the decisions customers were given

xbos == <<record, decided, effects>>
vars == <<record, decided, effects, current, call, answered>>

TypeOK ==
  /\ record \in [Orders -> Opt(LifecycleRecord)]
  /\ decided \in [Keys -> Opt(Decided)]
  /\ effects \in Nat
  /\ current \in Opt(Orders)
  /\ call \in [Threads -> Opt(Request)]
  /\ answered \subseteq Decided

Init ==
  /\ record = [o \in Orders |-> None]
  /\ decided = [k \in Keys |-> None]
  /\ effects = 0
  /\ current = None
  /\ call = [t \in Threads |-> None]
  /\ answered = {}

-----------------------------------------------------------------------------
(* XBOS policy.                                                              *)
CancellationCase(r) ==
  CASE r.merchant                                     -> "merchant"
    [] ~ r.merchant /\ r.stage # None                 -> "after_preparation"
    [] ~ r.merchant /\ r.stage = None /\ r.paid       -> "after_payment"
    [] ~ r.merchant /\ r.stage = None /\ ~ r.paid     -> "before_payment"

Case(q, r) == IF q.kind = "change" THEN "change" ELSE CancellationCase(r)

AcceptedAlways(q, r) == TRUE   \* variant: preparation stops no request

AcceptedUnlessPrepared(q, r) ==   \* variant: a canceled order can be changed
  r.stage = None \/ (q.kind = "cancel" /\ r.merchant)

Accepted(q, r) ==
  IF q.kind = "change" THEN ~ r.canceled /\ r.stage = None
                       ELSE CancellationCase(r) # "after_preparation"

\* A merchant's cancellation is accepted without being carried out again; a
\* second customer cancellation, under another reference, is carried out again.
Effective(q, r) == Accepted(q, r) /\ Case(q, r) # "merchant"

AfterDecision(q, r) ==
  [r EXCEPT !.canceled = @ \/ (q.kind = "cancel" /\ Effective(q, r))]

\* The state reconcile_order_lifecycle tells.  get_fulfillment_projection does
\* not: of a canceled order too it tells the stage as the kitchen reported it.
FulfillmentState(r) ==
  CASE r.canceled -> "canceled"
    [] ~ r.canceled /\ r.stage = None -> "not_started"
    [] ~ r.canceled /\ r.stage \in Stages -> "active"
    [] ~ r.canceled /\ r.stage \in Completions -> "completed"

-----------------------------------------------------------------------------
(* XBOS: an order is registered, once (the fixture would overwrite it), as   *)
(* part of setting it up; its stages come in any order.                      *)
RegisterOrder(o, own, paid, stage, merchant) ==
  /\ record[o] = None
  /\ record' = [record EXCEPT ![o] =
       [own |-> own, canceled |-> merchant, paid |-> paid, stage |-> stage,
        merchant |-> merchant]]
  /\ UNCHANGED <<decided, effects, current, call, answered>>

SetFulfillmentStage(o, stage) ==
  /\ record[o] # None
  /\ record' = [record EXCEPT ![o].stage = stage]
  /\ UNCHANGED <<decided, effects, current, call, answered>>

\* The session service: an order made, or another, is attached to the session.
SessionRefersTo(o) ==
  /\ record[o] # None
  /\ current' = o
  /\ UNCHANGED <<xbos, call, answered>>

\* request_change, request_cancellation: without an order or the customer's
\* explicit confirmation the request ends here.
Begin(t, kind, ref, what) ==
  /\ call[t] = None /\ current # None
  /\ call' = [call EXCEPT ![t] =
       [kind |-> kind, ref |-> ref, order |-> current, what |-> what]]
  /\ UNCHANGED <<xbos, current, answered>>

Return(t) == call' = [call EXCEPT ![t] = None]

PriorNever(q) == FALSE   \* variant: a request is always decided anew

Prior(q) == decided[Key(q)] # None

\* The decision stands; a request with another payload is a conflict.
Repeat(t) ==
  /\ call[t] # None /\ Prior(call[t])
  /\ \/ /\ decided[Key(call[t])].request = call[t]
        /\ answered' = answered \cup {decided[Key(call[t])]}
     \/ /\ decided[Key(call[t])].request # call[t]
        /\ UNCHANGED answered
  /\ Return(t)
  /\ UNCHANGED <<xbos, current>>

Mismatch(t) ==
  /\ call[t] # None /\ ~ Prior(call[t])
  /\ ~ record[call[t].order].own
  /\ Return(t)
  /\ UNCHANGED <<xbos, current, answered>>

\* The answer may be lost on its way, after which the customer asks again.
Decide(t) ==
  LET q == call[t]
      r == record[q.order]
      d == [request  |-> q,
            decision |-> [case |-> Case(q, r), accepted |-> Accepted(q, r)]] IN
  /\ q # None /\ ~ Prior(q) /\ r.own
  /\ record' = [record EXCEPT ![q.order] = AfterDecision(q, r)]
  /\ effects' = IF Effective(q, r) THEN effects + 1 ELSE effects
  /\ decided' = [decided EXCEPT ![Key(q)] = d]
  /\ \/ answered' = answered \cup {d}
     \/ UNCHANGED answered
  /\ Return(t)
  /\ UNCHANGED current

Next ==
  \/ \E o \in Orders, stage \in Opt(Stages \cup Completions) :
       \/ SetFulfillmentStage(o, stage)
       \/ \E own, paid, merchant \in BOOLEAN :
            RegisterOrder(o, own, paid, stage, merchant)
  \/ \E o \in Orders : SessionRefersTo(o)
  \/ \E t \in Threads :
       \/ Repeat(t) \/ Mismatch(t) \/ Decide(t)
       \/ \E kind \in {"change", "cancel"}, ref \in ClientRefs, what \in Whats :
            Begin(t, kind, ref, what)

Spec == Init /\ [][Next]_vars
-----------------------------------------------------------------------------
(* Properties.                                                               *)
Effecting ==
  {d \in Decided : d.decision.accepted /\ d.decision.case # "merchant"}

DecisionsUnder == [k \in Keys |-> {d \in Decided : Key(d.request) = k}]

CarriedOut == {k \in Keys : decided[k] \in Effecting}

\* The orders of which XBOS accepted a cancellation, the customer's or the
\* merchant's.
Canceled ==
  {o \in Orders :
     \E k \in Keys :
       /\ k[1] = "cancel" /\ decided[k] # None
       /\ decided[k].decision.accepted /\ decided[k].request.order = o}

\* An accepted cancellation is final.  Whatever the kitchen reports afterwards,
\* in whatever order (nothing at all again included), a reconciliation tells
\* the order canceled, and no change of it is accepted any more, not even one
\* asked for before the cancellation by a call that was overtaken.
CancellationIsFinal ==
  [][\A o \in Canceled :
       /\ FulfillmentState(record'[o]) = "canceled"
       /\ \A k \in Keys :
            decided[k] = None /\ decided'[k] # None =>
              ~ (/\ k[1] = "change" /\ decided'[k].decision.accepted
                 /\ decided'[k].request.order = o)]_vars

\* XBOS decides each client reference once and acts on it once, and a customer
\* who asks again is told that decision, though the kitchen, the session's
\* order or the payload moved on and however many requests are under way
\* (canonical_change_effect_count, canonical_cancel_effect_count).
Promise ==
  INSTANCE DecidedOnce WITH
    Decisions <- DecisionsUnder,
    Undecided <- None,
    told      <- answered

ImplementsDecisions == Promise!Spec
=============================================================================
