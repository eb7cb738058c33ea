----------------------------- MODULE OrderPayment -----------------------------
(* PaymentExperienceService on top of OrderSubmission: the payment request   *)
(* of the order a session shows is fetched from XBOS, checked against the    *)
(* session and kept by the caller, who lets the customer choose a method     *)
(* from it, at once or much later, while submits, rotations, hand-offs and   *)
(* new payment policies go on.  A fake payment outcome changes no state.     *)
EXTENDS OrderSubmission, Sequences, FiniteSetsExt

CONSTANTS
  Policies,       \* the policies XBOS may register for an order
  MaxPolicies     \* bound on how often it does so

PaymentMethodCode ==
  {"xafpay_wallet", "mtn_mobile_money", "orange_money", "card", "pay_at_counter"}

NextActionType ==
  {"none", "open_url", "display_qr", "await_push", "open_wallet", "wait"}

\* "amount" is any of the figures XBOS puts on the order.
RegisteredPaymentPolicy ==
  [correlation : Correlations, permitted : SUBSET PaymentMethodCode,
   payAtCounter : BOOLEAN]

\* What get_payment_request answers with.
CanonicalPaymentRequestProjection ==
  [order : ClientRefs, correlation : Correlations,
   methods : SUBSET PaymentMethodCode]

\* A payment_request call past its reading of the session.
Asking == [order : ClientRefs, correlation : Correlations]

Presented == [order : ClientRefs, method : PaymentMethodCode, action : NextActionType]

ASSUME PaymentAssumption ==
  /\ Policies \subseteq RegisteredPaymentPolicy
  /\ MaxPolicies \in Nat
  /\ None \notin CanonicalPaymentRequestProjection \cup Asking \cup Presented

VARIABLES
  policies,   \* XBOS: the policies of an order, the one in force last
  asking,     \* the payment_request call for a session, if any
  held,       \* the projection last fetched for a session
  presented   \* the next action the customer was last given

payVars == <<policies, asking, held, presented>>

PaymentTypeOK ==
  /\ TypeOK
  /\ policies \in [ClientRefs -> Seq(RegisteredPaymentPolicy)]
  /\ asking \in [SessionRefs -> Opt(Asking)]
  /\ held \in [SessionRefs -> Opt(CanonicalPaymentRequestProjection)]
  /\ presented \in [SessionRefs -> Opt(Presented)]

PaymentInit ==
  /\ Init
  /\ policies = [c \in ClientRefs |-> <<>>]
  /\ asking = [s \in SessionRefs |-> None]
  /\ held = [s \in SessionRefs |-> None]
  /\ presented = [s \in SessionRefs |-> None]

-----------------------------------------------------------------------------
(* XBOS.                                                                     *)
InForce(c) == policies[c][Len(policies[c])]

\* An order reference is XBOS's to give: there are policies for orders only.
RegisterOrderPaymentPolicy(c, p) ==
  /\ orders[c] # None
  /\ MapThenSumSet(LAMBDA d : Len(policies[d]), ClientRefs) < MaxPolicies
  /\ policies' = [policies EXCEPT ![c] = Append(@, p)]
  /\ UNCHANGED <<vars, asking, held, presented>>

OfferedWhatever(p) == p.permitted   \* variant: the counter is no special case

\* Paying at the counter takes a permission of its own.
Offered(p) ==
  {m \in p.permitted : m # "pay_at_counter" \/ p.payAtCounter}

\* XBOS refuses an order it has no policy for, or another correlation.
Answerable(c, correlation) ==
  policies[c] # <<>> /\ InForce(c).correlation = correlation

-----------------------------------------------------------------------------
(* payment_request: the session is read, whatever became of it since its     *)
(* order was made, and the projection checked against what was read.         *)
ReadSession(s) ==
  /\ asking[s] = None
  /\ Exists(s) /\ sessions[s].order # None
  /\ asking' = [asking EXCEPT ![s] =
       [order |-> sessions[s].order, correlation |-> sessions[s].correlation]]
  /\ UNCHANGED <<vars, policies, held, presented>>

CorrelationMatches(s, projection) ==   \* variant: any order of the correlation
  projection.correlation = asking[s].correlation

ProjectionMatches(s, projection) ==
  /\ projection.order = asking[s].order
  /\ projection.correlation = asking[s].correlation

\* XBOS answers for some order it has a policy for: the channel does not
\* take it to be the one it asked for.
FetchPaymentRequest(s, c, correlation) ==
  /\ asking[s] # None
  /\ Answerable(c, correlation)
  /\ LET projection == [order |-> c, correlation |-> correlation,
                        methods |-> Offered(InForce(c))] IN
     held' = IF ProjectionMatches(s, projection)
             THEN [held EXCEPT ![s] = projection]
             ELSE held
  /\ asking' = [asking EXCEPT ![s] = None]
  /\ UNCHANGED <<vars, policies, presented>>

PaymentRequestRefused(s) ==
  /\ asking[s] # None
  /\ ~ Answerable(asking[s].order, asking[s].correlation)
  /\ asking' = [asking EXCEPT ![s] = None]
  /\ UNCHANGED <<vars, policies, held, presented>>

ActionOf ==
  [xafpay_wallet |-> "open_wallet", mtn_mobile_money |-> "await_push",
   orange_money |-> "await_push", card |-> "open_url", pay_at_counter |-> "none"]

\* present_method on a projection of whatever age.
PresentMethod(s, method) ==
  /\ held[s] # None /\ method \in held[s].methods
  /\ presented' = [presented EXCEPT ![s] =
       [order |-> held[s].order, method |-> method, action |-> ActionOf[method]]]
  /\ UNCHANGED <<vars, policies, asking, held>>

PaymentNext ==
  \/ Next /\ UNCHANGED payVars
  \/ \E c \in ClientRefs, p \in Policies : RegisterOrderPaymentPolicy(c, p)
  \/ \E s \in SessionRefs :
       \/ ReadSession(s) \/ PaymentRequestRefused(s)
       \/ \E c \in ClientRefs, correlation \in Correlations :
            FetchPaymentRequest(s, c, correlation)
       \/ \E method \in PaymentMethodCode : PresentMethod(s, method)

PaymentSpec == PaymentInit /\ [][PaymentNext]_<<vars, payVars>>
-----------------------------------------------------------------------------
(* Properties.                                                               *)

\* The customer pays for the order she is shown: whatever was fetched for a
\* session, and whatever was made of it since, is for the order the session
\* still shows, which is an order XBOS has, under the session's correlation.
PaymentIsForShownOrder ==
  \A s \in SessionRefs :
    /\ held[s] # None =>
         LET c == held[s].order IN
         /\ Exists(s) /\ sessions[s].order = c
         /\ orders[c] # None
         /\ held[s].correlation = sessions[s].correlation
         /\ orders[c].correlation = sessions[s].correlation
    /\ presented[s] # None => presented[s].order = sessions[s].order

\* "PAY_AT_COUNTER appears only when the authoritative policy permits it", and
\* so does any other method: what a customer is offered or told to do, XBOS
\* permitted in one policy for that very order, then or before.
OfferWasPermitted ==
  \A s \in SessionRefs :
    presented[s] # None =>
      \E k \in DOMAIN policies[presented[s].order] :
        LET p == policies[presented[s].order][k] IN
        /\ p.correlation = sessions[s].correlation
        /\ presented[s].method \in p.permitted
        /\ presented[s].method = "pay_at_counter" => p.payAtCounter
=============================================================================
