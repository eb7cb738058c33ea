------------------------- MODULE OrderPayment_proofs -------------------------
(* OrderSubmission and OrderPayment for any number of sessions, handles,     *)
(* confirmations, client references and threads. First the orders: one per   *)
(* confirmation, behind a claimed handle, answered to whoever submitted it.  *)
(* Then their payment: what a customer is offered XBOS permitted for that    *)
(* very order, and with one submit at a time it is the order her session     *)
(* shows.                                                                    *)
EXTENDS OrderPayment, TLAPS

-----------------------------------------------------------------------------
(* The inductive invariant.                                                  *)

\* Client reference c stands for an order of the given correlation.
OrderIsReal(c, correlation) ==
  orders[c] # None /\ orders[c].correlation = correlation

\* XBOS has told the call of its order: from reading the session again on.
KnowsOrder(c) ==
  \/ c.pc = "latest"
  \/ c.step = "result" /\ c.pc \in {"lookup", "get", "put", "record"}

\* What a call past validate_active_session may rely on, in whatever state the
\* session store, the provenance store and XBOS are by now.
Grounded(c) ==
  c.pc # "validate" =>
    /\ sessions[c.session] # None
    /\ c.seen # None
    /\ c.seen.correlation = sessions[c.session].correlation
    /\ c.seen.order # None => OrderIsReal(c.seen.order, c.seen.correlation)
    /\ handles[c.handle] # None
    /\ handles[c.handle].session = c.session
    /\ c.pc \notin {"resolve", "claim"} => handles[c.handle].claim = c.client
    /\ KnowsOrder(c) =>
         /\ OrderIsReal(c.client, sessions[c.session].correlation)
         /\ orders[c.client].conf = handles[c.handle].conf

CallsAreGrounded == \A t \in Threads : call[t] # None => Grounded(call[t])

\* A handle is issued to a session, a session shows an order XBOS has.
RecordsAreGrounded ==
  /\ \A h \in Handles : handles[h] # None => sessions[handles[h].session] # None
  /\ \A s \in SessionRefs :
       sessions[s] # None /\ sessions[s].order # None =>
         OrderIsReal(sessions[s].order, sessions[s].correlation)

OrderInv ==
  /\ TypeOK
  /\ CallsAreGrounded
  /\ RecordsAreGrounded
  /\ OneOrderPerConfirmation
  /\ OrderIsClaimed

-----------------------------------------------------------------------------
(* Lemmas.                                                                   *)
LEMMA CallFields ==
  ASSUME NEW c \in Call
  PROVE  /\ c.session \in SessionRefs /\ c.handle \in Handles
         /\ c.client \in ClientRefs /\ c.client # None
         /\ c.step \in {"start", "result"} /\ c.epoch \in Nat
         /\ c.seen # None => c.seen \in Snapshot
  BY OrderAssumption DEF Call, Opt

LEMMA RecordFields ==
  ASSUME TypeOK
  PROVE  /\ \A h \in Handles : handles[h] # None =>
              /\ handles[h] \in ConfirmationProvenanceRecord
              /\ handles[h].session \in SessionRefs
              /\ handles[h].conf \in Confirmations
              /\ handles[h].claim # None => handles[h].claim \in ClientRefs
         /\ \A s \in SessionRefs : sessions[s] # None =>
              /\ sessions[s] \in Snapshot
              /\ sessions[s].correlation \in Correlations
              /\ sessions[s].order # None => sessions[s].order \in ClientRefs
         /\ \A c \in ClientRefs : orders[c] # None =>
              /\ orders[c] \in CanonicalOrder
              /\ orders[c].conf \in Confirmations
         /\ \A t \in Threads : call[t] # None => call[t] \in Call
  BY DEF TypeOK, Opt, ConfirmationProvenanceRecord, Snapshot, CanonicalOrder

\* What no step takes back: a session keeps its correlation, a handle what it
\* was issued for and its claim, an order everything.
Grows ==
  /\ \A s \in SessionRefs :
       sessions[s] # None =>
         sessions'[s] # None /\ sessions'[s].correlation = sessions[s].correlation
  /\ \A h \in Handles :
       handles[h] # None =>
         /\ handles'[h] # None
         /\ handles'[h].session = handles[h].session
         /\ handles'[h].conf = handles[h].conf
         /\ handles[h].claim # None => handles'[h].claim = handles[h].claim
  /\ \A c \in ClientRefs : orders[c] # None => orders'[c] = orders[c]

\* So what a call relies on stays true while others run.
LEMMA GroundedStays ==
  ASSUME TypeOK, Grows, NEW c \in Call, Grounded(c)
  PROVE  Grounded(c)'
<1>1. c.session \in SessionRefs /\ c.handle \in Handles /\ c.client \in ClientRefs
      /\ c.client # None
  BY CallFields
<1>2. c.seen # None /\ c.seen.order # None => c.seen.order \in ClientRefs
  BY CallFields DEF Snapshot, Opt
<1> QED BY <1>1, <1>2 DEF Grounded, Grows, OrderIsReal, KnowsOrder

\* A step of one call, whatever else it changes on the way.
LEMMA CallSteps ==
  ASSUME OrderInv, Grows, NEW t \in Threads, NEW d \in Opt(Call),
         call' = [call EXCEPT ![t] = d],
         d # None => Grounded(d)',
         outcome' \in [Threads -> {"none", "order", "rejected", "unknown"}],
         sessions' \in [SessionRefs -> Opt(Snapshot)],
         idempotent' \in [SessionRefs -> SUBSET TransitionKey],
         handles' \in [Handles -> Opt(ConfirmationProvenanceRecord)],
         orders' \in [ClientRefs -> Opt(CanonicalOrder)],
         UNCHANGED worldVars,
         RecordsAreGrounded', OneOrderPerConfirmation', OrderIsClaimed'
  PROVE  OrderInv' /\ Grows
<1>1. \A u \in Threads : call'[u] = IF u = t THEN d ELSE call[u]
  BY DEF OrderInv, TypeOK
<1>2. call' \in [Threads -> Opt(Call)]
  BY DEF OrderInv, TypeOK
<1>3. ASSUME NEW u \in Threads, NEW c, c = call'[u], c # None
      PROVE  c \in Call /\ Grounded(c)'
  <2>1. CASE u = t
    BY <1>1, <1>3, <2>1 DEF Opt
  <2>2. CASE u # t
    <3>1. c \in Call /\ Grounded(c)
      BY <1>1, <1>3, <2>2, RecordFields DEF OrderInv, CallsAreGrounded
    <3> QED BY <3>1, GroundedStays DEF OrderInv
  <2> QED BY <2>1, <2>2
<1>4. CallsAreGrounded'
  BY <1>3 DEF CallsAreGrounded, Grounded, KnowsOrder, OrderIsReal
<1>5. TypeOK'
  <2>1. ASSUME NEW u \in Threads, call'[u] # None, call'[u].pc # "validate"
        PROVE  Held(u)'
    BY <1>3, <2>1 DEF Held, Grounded
  <2> QED BY <1>2, <2>1 DEF OrderInv, TypeOK, worldVars
<1> QED BY <1>4, <1>5 DEF OrderInv

\* A step that changes nothing but its call.
LEMMA OnlyTheCall ==
  ASSUME OrderInv, NEW t \in Threads, NEW d \in Opt(Call),
         call' = [call EXCEPT ![t] = d], d # None => Grounded(d),
         outcome' \in [Threads -> {"none", "order", "rejected", "unknown"}],
         UNCHANGED <<channelVars, orders, worldVars>>
  PROVE  OrderInv' /\ Grows
<1>1. UNCHANGED <<sessions, idempotent, handles, orders>>
  BY DEF channelVars
<1>2. Grows
  BY <1>1 DEF Grows
<1>3. RecordsAreGrounded' /\ OneOrderPerConfirmation' /\ OrderIsClaimed'
  BY <1>1 DEF OrderInv, RecordsAreGrounded, OneOrderPerConfirmation,
              OrderIsClaimed, OrderIsReal
<1>4. d # None => Grounded(d)'
  BY <1>1 DEF Grounded, OrderIsReal
<1> QED BY <1>1, <1>2, <1>3, <1>4, CallSteps DEF OrderInv, TypeOK

LEMMA Finishes ==
  ASSUME OrderInv, NEW t \in Threads,
         NEW how \in {"none", "order", "rejected", "unknown"}, Finish(t, how),
         UNCHANGED <<channelVars, orders, worldVars>>
  PROVE  OrderInv' /\ Grows
<1>1. outcome' \in [Threads -> {"none", "order", "rejected", "unknown"}]
  BY DEF Finish, OrderInv, TypeOK
<1> QED BY <1>1, OnlyTheCall DEF Finish, Opt

\* Where a call goes on, it stays the call it was.
SameCall(c, d) ==
  /\ d.session = c.session /\ d.handle = c.handle /\ d.client = c.client
  /\ d.seen = c.seen

LEMMA GoesOn ==
  ASSUME TypeOK, NEW t \in Threads, call[t] # None,
         NEW pc \in {"claim", "lookup", "get", "put", "record", "submit",
                     "reconcile", "latest"},
         Goto(t, pc)
  PROVE  \E d \in Call :
           /\ call' = [call EXCEPT ![t] = d] /\ UNCHANGED outcome
           /\ SameCall(call[t], d) /\ d.pc = pc /\ d.step = call[t].step
<1> PICK d : d = [call[t] EXCEPT !.pc = pc]
  OBVIOUS
<1>1. call[t] \in Call
  BY RecordFields
<1>2. d \in Call /\ SameCall(call[t], d) /\ d.pc = pc /\ d.step = call[t].step
  BY <1>1 DEF Call, SameCall
<1> QED BY <1>2 DEF Goto

LEMMA Begun ==
  ASSUME TypeOK, NEW t \in Threads, call[t] # None,
         NEW step \in {"start", "result"}, Begin(step, t)
  PROVE  \E d \in Call :
           /\ call' = [call EXCEPT ![t] = d] /\ UNCHANGED outcome
           /\ SameCall(call[t], d) /\ d.pc = "lookup" /\ d.step = step
<1> PICK d : d = [call[t] EXCEPT !.pc = "lookup", !.step = step]
  OBVIOUS
<1>1. call[t] \in Call
  BY RecordFields
<1>2. d \in Call /\ SameCall(call[t], d) /\ d.pc = "lookup" /\ d.step = step
  BY <1>1 DEF Call, SameCall
<1> QED BY <1>2 DEF Begin

\* The call of a thread, as the invariant knows it.
LEMMA CallIsGrounded ==
  ASSUME OrderInv, NEW t \in Threads, call[t] # None
  PROVE  call[t] \in Call /\ Grounded(call[t])
  BY RecordFields DEF OrderInv, CallsAreGrounded

LEMMA GoesOnAlone ==
  ASSUME OrderInv, NEW t \in Threads, call[t] # None, call[t].pc # "validate",
         NEW pc \in {"claim", "lookup", "get", "put", "record", "submit",
                     "reconcile", "latest"},
         Goto(t, pc),
         pc # "claim" => handles[call[t].handle].claim = call[t].client,
         (\/ pc = "latest"
          \/ call[t].step = "result" /\ pc \in {"lookup", "get", "put", "record"}) =>
           /\ OrderIsReal(call[t].client, sessions[call[t].session].correlation)
           /\ orders[call[t].client].conf = handles[call[t].handle].conf,
         UNCHANGED <<channelVars, orders, worldVars>>
  PROVE  OrderInv' /\ Grows
<1>1. PICK d \in Call :
        /\ call' = [call EXCEPT ![t] = d] /\ UNCHANGED outcome
        /\ SameCall(call[t], d) /\ d.pc = pc /\ d.step = call[t].step
  BY GoesOn DEF OrderInv
<1>2. Grounded(d)
  BY <1>1, CallIsGrounded DEF Grounded, SameCall, KnowsOrder
<1> QED BY <1>1, <1>2, OnlyTheCall DEF OrderInv, TypeOK, Opt

-----------------------------------------------------------------------------
(* One lemma per operation that changes more than its call.                  *)
LEMMA ValidateStep ==
  ASSUME OrderInv, NEW t \in Threads, Validate(t)
  PROVE  OrderInv' /\ Grows
<1>1. CASE ~ OwnHandle(t)
  BY <1>1, Finishes DEF Validate, Reject
<1>2. CASE OwnHandle(t)
  <2> PICK d : d = [call[t] EXCEPT !.pc = "resolve", !.seen = sessions[call[t].session]]
    OBVIOUS
  <2>1. call[t] \in Call /\ call[t].session \in SessionRefs /\ call[t].handle \in Handles
    BY CallIsGrounded, CallFields DEF Validate, At
  <2>2. sessions[call[t].session] # None /\ sessions[call[t].session] \in Snapshot
    BY <1>2, <2>1, RecordFields DEF OwnHandle, Valid, Exists, OrderInv
  <2>3. d \in Call /\ d.session = call[t].session /\ d.handle = call[t].handle
        /\ d.pc = "resolve" /\ d.seen = sessions[call[t].session]
    BY <2>1, <2>2 DEF Call, Opt
  <2>4. Grounded(d)
    BY <1>2, <2>1, <2>2, <2>3
       DEF OrderInv, RecordsAreGrounded, Grounded, KnowsOrder, OwnHandle, Record
  <2>5. call' = [call EXCEPT ![t] = d] /\ UNCHANGED outcome
        /\ UNCHANGED <<channelVars, orders, worldVars>>
    BY <1>2 DEF Validate
  <2> QED BY <2>3, <2>4, <2>5, OnlyTheCall DEF OrderInv, TypeOK, Opt
<1> QED BY <1>1, <1>2

LEMMA ResolveStep ==
  ASSUME OrderInv, NEW t \in Threads, ResolveConfirmation(t)
  PROVE  OrderInv' /\ Grows
<1>1. CASE ~ Unchanged(t)
  BY <1>1, Finishes DEF ResolveConfirmation, Reject
<1>2. CASE Unchanged(t)
  BY <1>2, GoesOnAlone DEF ResolveConfirmation, At
<1> QED BY <1>1, <1>2

\* Claiming gives an unclaimed handle its client reference for good.
LEMMA ClaimStep ==
  ASSUME OrderInv, NEW t \in Threads, ClaimConfirmation(t)
  PROVE  OrderInv' /\ Grows
<1>1. CASE ~ Claimable(t)
  BY <1>1, Finishes DEF ClaimConfirmation, Reject, channelVars
<1>2. CASE Claimable(t)
  <2> DEFINE h == call[t].handle
             c == call[t].client
  <2>1. call[t] # None /\ call[t].pc = "claim" /\ call[t] \in Call /\ h \in Handles
        /\ c \in ClientRefs /\ c # None /\ handles[h] # None
        /\ handles[h].claim \in {None, c} /\ call[t].session \in SessionRefs
    BY <1>2, CallIsGrounded, CallFields
       DEF ClaimConfirmation, At, Grounded, Claimable, Record
  <2> PICK r : r = [handles[h] EXCEPT !.claim = c]
    OBVIOUS
  <2>2. r \in ConfirmationProvenanceRecord /\ r # None
        /\ r.session = handles[h].session /\ r.conf = handles[h].conf /\ r.claim = c
    BY <2>1, RecordFields, OrderAssumption
       DEF OrderInv, ConfirmationProvenanceRecord, Opt
  <2>3. handles' = [handles EXCEPT ![h] = r]
        /\ UNCHANGED <<sessions, idempotent, orders, worldVars>>
    BY <1>2 DEF ClaimConfirmation, Claimed
  <2>4. \A g \in Handles : handles'[g] = IF g = h THEN r ELSE handles[g]
    BY <2>3 DEF OrderInv, TypeOK
  <2>5. handles' \in [Handles -> Opt(ConfirmationProvenanceRecord)]
    BY <2>1, <2>2, <2>3 DEF OrderInv, TypeOK, Opt
  <2>6. Grows
    BY <2>1, <2>2, <2>3, <2>4 DEF Grows
  <2>7. RecordsAreGrounded' /\ OneOrderPerConfirmation'
    <3>1. \A g \in Handles : handles'[g] # None =>
            handles[g] # None /\ handles'[g].session = handles[g].session
      BY <2>1, <2>2, <2>4
    <3>2. RecordsAreGrounded'
      BY <2>3, <3>1 DEF OrderInv, RecordsAreGrounded, OrderIsReal
    <3>3. OneOrderPerConfirmation'
      BY <2>3 DEF OrderInv, OneOrderPerConfirmation
    <3> QED BY <3>2, <3>3
  <2>8. OrderIsClaimed'
    <3>1. ASSUME NEW g \in Handles, handles[g] # None
          PROVE  /\ handles'[g] # None /\ handles'[g].session = handles[g].session
                 /\ handles'[g].conf = handles[g].conf
                 /\ handles[g].claim # None => handles'[g].claim = handles[g].claim
      BY <3>1, <2>6 DEF Grows
    <3> QED BY <3>1, <2>3, OrderAssumption DEF OrderInv, OrderIsClaimed
  <2>9. PICK d \in Opt(Call) :
          /\ call' = [call EXCEPT ![t] = d]
          /\ outcome' \in [Threads -> {"none", "order", "rejected", "unknown"}]
          /\ d # None => /\ d \in Call /\ SameCall(call[t], d)
                         /\ d.pc \in {"lookup", "submit"}
                         /\ d.pc = "lookup" => d.step = "start"
    <3>1. CASE Reject(t)
      BY <3>1 DEF Reject, Finish, Opt, OrderInv, TypeOK
    <3>2. CASE Goto(t, "submit")
      <4>1. PICK d \in Call :
              /\ call' = [call EXCEPT ![t] = d] /\ UNCHANGED outcome
              /\ SameCall(call[t], d) /\ d.pc = "submit"
        BY <2>1, <3>2, GoesOn DEF OrderInv
      <4> QED BY <4>1 DEF Opt, OrderInv, TypeOK
    <3>3. CASE Begin("start", t)
      <4>1. PICK d \in Call :
              /\ call' = [call EXCEPT ![t] = d] /\ UNCHANGED outcome
              /\ SameCall(call[t], d) /\ d.pc = "lookup" /\ d.step = "start"
        BY <2>1, <3>3, Begun DEF OrderInv
      <4> QED BY <4>1 DEF Opt, OrderInv, TypeOK
    <3> QED BY <1>2, <3>1, <3>2, <3>3 DEF ClaimConfirmation
  <2>10. ASSUME d # None PROVE Grounded(d)'
    <3>1. d \in Call /\ SameCall(call[t], d) /\ d.pc # "validate" /\ ~ KnowsOrder(d)
          /\ d.pc # "claim"
      BY <2>9, <2>10 DEF KnowsOrder
    <3>2. Grounded(call[t]) /\ call[t].pc # "validate"
      BY <2>1, CallIsGrounded
    <3> QED
      BY <2>1, <2>2, <2>3, <2>4, <3>1, <3>2
         DEF Grounded, SameCall, KnowsOrder, OrderIsReal
  <2> QED
    BY <2>3, <2>5, <2>6, <2>7, <2>8, <2>9, <2>10, CallSteps DEF OrderInv, TypeOK
<1> QED BY <1>1, <1>2

\* What a call knows of its order it keeps, wherever it goes on to.
LEMMA KnownOrder ==
  ASSUME OrderInv, NEW t \in Threads, call[t] # None, KnowsOrder(call[t])
  PROVE  /\ OrderIsReal(call[t].client, sessions[call[t].session].correlation)
         /\ orders[call[t].client].conf = handles[call[t].handle].conf
         /\ handles[call[t].handle].claim = call[t].client
  BY CallIsGrounded DEF Grounded, KnowsOrder

LEMMA LookupStep ==
  ASSUME OrderInv, NEW t \in Threads, Lookup(t)
  PROVE  OrderInv' /\ Grows
<1>1. call[t] # None /\ call[t].pc = "lookup" /\ call[t] \in Call
      /\ handles[call[t].handle].claim = call[t].client
      /\ UNCHANGED <<channelVars, orders, worldVars>>
  BY CallIsGrounded DEF Lookup, At, Grounded
<1>2. CASE Goto(t, "get")
  BY <1>1, <1>2, GoesOnAlone, KnownOrder DEF KnowsOrder
<1>3. CASE Goto(t, "submit")
  BY <1>1, <1>3, GoesOnAlone
<1>4. CASE Finish(t, "order")
  BY <1>1, <1>4, Finishes
<1> QED BY <1>2, <1>3, <1>4 DEF Lookup, AfterTransition

LEMMA GetStep ==
  ASSUME OrderInv, NEW t \in Threads, Get(t)
  PROVE  OrderInv' /\ Grows
<1>1. call[t] # None /\ call[t].pc = "get" /\ call[t] \in Call /\ Grounded(call[t])
      /\ call[t].session \in SessionRefs
      /\ UNCHANGED <<channelVars, orders, worldVars>>
  BY CallIsGrounded, CallFields DEF Get, At
<1>2. CASE Reject(t)
  BY <1>1, <1>2, Finishes DEF Reject
<1>3. CASE ~ Reject(t)
  <2> PICK d : d = [call[t] EXCEPT !.pc = "put", !.seen = sessions[call[t].session]]
    OBVIOUS
  <2>1. sessions[call[t].session] # None /\ sessions[call[t].session] \in Snapshot
    BY <1>1, RecordFields DEF Grounded, OrderInv
  <2>2. d \in Call /\ d.session = call[t].session /\ d.handle = call[t].handle
        /\ d.client = call[t].client /\ d.step = call[t].step
        /\ d.pc = "put" /\ d.seen = sessions[call[t].session]
    BY <1>1, <2>1 DEF Call, Opt
  <2>3. Grounded(d)
    BY <1>1, <2>1, <2>2 DEF OrderInv, RecordsAreGrounded, Grounded, KnowsOrder
  <2>4. call' = [call EXCEPT ![t] = d] /\ UNCHANGED outcome
    BY <1>3 DEF Get
  <2> QED BY <1>1, <2>2, <2>3, <2>4, OnlyTheCall DEF OrderInv, TypeOK, Opt
<1> QED BY <1>2, <1>3

\* The snapshot put is one the session had: same correlation, a real order.
LEMMA PutStep ==
  ASSUME OrderInv, NEW t \in Threads, Put(t)
  PROVE  OrderInv' /\ Grows
<1> DEFINE s == call[t].session
<1>1. call[t] # None /\ call[t].pc = "put" /\ call[t] \in Call /\ Grounded(call[t])
      /\ s \in SessionRefs /\ call[t].client \in ClientRefs /\ call[t].client # None
      /\ call[t].step \in {"start", "result"} /\ call[t].seen \in Snapshot
  BY CallIsGrounded, CallFields DEF Put, At, Grounded
<1> PICK n : n = [call[t].seen EXCEPT
                    !.state = Target(t),
                    !.order = IF call[t].step = "result" THEN call[t].client ELSE @]
  OBVIOUS
<1>2. n \in Snapshot /\ n # None /\ n.correlation = call[t].seen.correlation
      /\ n.order = IF call[t].step = "result" THEN call[t].client ELSE call[t].seen.order
  <2>1. Target(t) \in ChannelState
    BY DEF Target, ChannelState
  <2>2. call[t].seen.order \in Opt(ClientRefs) /\ call[t].client \in Opt(ClientRefs)
    BY <1>1 DEF Snapshot, Opt
  <2>3. n \in Snapshot /\ n.correlation = call[t].seen.correlation
        /\ n.order = IF call[t].step = "result" THEN call[t].client ELSE call[t].seen.order
    BY <1>1, <2>1, <2>2 DEF Snapshot
  <2> QED BY <2>3, OrderAssumption
<1>3. sessions' = [sessions EXCEPT ![s] = n] /\ Goto(t, "record")
      /\ UNCHANGED <<idempotent, handles, orders, worldVars>>
  BY DEF Put
<1>4. \A r \in SessionRefs : sessions'[r] = IF r = s THEN n ELSE sessions[r]
  BY <1>3 DEF OrderInv, TypeOK
<1>5. sessions[s] # None /\ n.correlation = sessions[s].correlation
      /\ (n.order # None => OrderIsReal(n.order, n.correlation))
  BY <1>1, <1>2 DEF Grounded, KnowsOrder
<1>6. sessions' \in [SessionRefs -> Opt(Snapshot)]
  BY <1>1, <1>2, <1>3 DEF OrderInv, TypeOK, Opt
<1>7. Grows
  BY <1>2, <1>3, <1>4, <1>5 DEF Grows
<1>8. RecordsAreGrounded' /\ OneOrderPerConfirmation' /\ OrderIsClaimed'
  <2>1. ASSUME NEW h \in Handles, handles[h] # None
        PROVE  /\ handles[h].session \in SessionRefs
               /\ sessions'[handles[h].session] # None
    BY <1>2, <1>4, <2>1, RecordFields DEF OrderInv, RecordsAreGrounded
  <2>2. ASSUME NEW r \in SessionRefs, sessions'[r] # None, sessions'[r].order # None
        PROVE  OrderIsReal(sessions[r].order, sessions[r].correlation)'
    BY <1>3, <1>4, <1>5, <2>2 DEF OrderInv, RecordsAreGrounded, OrderIsReal
  <2>3. OneOrderPerConfirmation'
    BY <1>3 DEF OrderInv, OneOrderPerConfirmation
  <2>4. OrderIsClaimed'
    BY <1>3, <1>7, <2>1 DEF OrderInv, OrderIsClaimed, RecordsAreGrounded, Grows
  <2> QED BY <1>3, <2>1, <2>2, <2>3, <2>4 DEF RecordsAreGrounded
<1>9. PICK d \in Call :
        /\ call' = [call EXCEPT ![t] = d] /\ UNCHANGED outcome
        /\ SameCall(call[t], d) /\ d.pc = "record" /\ d.step = call[t].step
  BY <1>1, <1>3, GoesOn DEF OrderInv
<1>10. Grounded(d)'
  <2>1. Grounded(d)
    BY <1>1, <1>9 DEF Grounded, SameCall, KnowsOrder
  <2> QED BY <1>7, <2>1, GroundedStays DEF OrderInv
<1> QED
  BY <1>3, <1>6, <1>7, <1>8, <1>9, <1>10, CallSteps DEF OrderInv, TypeOK, Opt

LEMMA RecordStep ==
  ASSUME OrderInv, NEW t \in Threads, RecordResult(t)
  PROVE  OrderInv' /\ Grows
<1>1. call[t] # None /\ call[t].pc = "record" /\ call[t] \in Call /\ Grounded(call[t])
      /\ call[t].session \in SessionRefs /\ Key(t) \in TransitionKey
  BY CallIsGrounded, CallFields DEF RecordResult, At, Key, TransitionKey
<1>2. idempotent' \in [SessionRefs -> SUBSET TransitionKey]
      /\ UNCHANGED <<sessions, handles, orders, worldVars>>
  BY <1>1 DEF RecordResult, OrderInv, TypeOK
<1>3. Grows /\ RecordsAreGrounded' /\ OneOrderPerConfirmation' /\ OrderIsClaimed'
  BY <1>2 DEF Grows, OrderInv, RecordsAreGrounded, OneOrderPerConfirmation,
              OrderIsClaimed, OrderIsReal
<1>4. CASE Finish(t, "order")
  BY <1>2, <1>3, <1>4, CallSteps DEF Finish, Opt, OrderInv, TypeOK
<1>5. CASE Goto(t, "submit")
  <2>1. PICK d \in Call :
          /\ call' = [call EXCEPT ![t] = d] /\ UNCHANGED outcome
          /\ SameCall(call[t], d) /\ d.pc = "submit"
    BY <1>1, <1>5, GoesOn DEF OrderInv
  <2>2. Grounded(d)'
    <3>1. Grounded(d)
      BY <1>1, <2>1 DEF Grounded, SameCall, KnowsOrder
    <3> QED BY <1>3, <3>1, GroundedStays DEF OrderInv
  <2> QED BY <1>2, <1>3, <2>1, <2>2, CallSteps DEF Opt, OrderInv, TypeOK
<1> QED BY <1>4, <1>5 DEF RecordResult, AfterTransition

\* An order accepted is the order of this request.
LEMMA AcceptStep ==
  ASSUME OrderInv, NEW t \in Threads, call[t] # None,
         call[t].pc \in {"submit", "reconcile"}, OrderFor(t) # None,
         Accept(t, OrderFor(t)), UNCHANGED <<channelVars, orders, worldVars>>
  PROVE  OrderInv' /\ Grows
<1>1. CASE Reject(t)
  BY <1>1, Finishes DEF Reject
<1>2. CASE Goto(t, "latest") /\ OrderFor(t).conf = Record(t).conf
           /\ OrderFor(t).correlation = sessions[call[t].session].correlation
  <2>1. handles[call[t].handle].claim = call[t].client
    BY CallIsGrounded DEF Grounded
  <2> QED BY <1>2, <2>1, GoesOnAlone DEF OrderFor, Record, OrderIsReal
<1> QED BY <1>1, <1>2 DEF Accept

\* An order made is the first of its confirmation, and the call's own.
LEMMA SubmitStep ==
  ASSUME OrderInv, NEW t \in Threads, SubmitOrder(t)
  PROVE  OrderInv' /\ Grows
<1> DEFINE c == call[t].client
           h == call[t].handle
<1>1. call[t] # None /\ call[t].pc = "submit" /\ call[t] \in Call /\ Grounded(call[t])
      /\ c \in ClientRefs /\ h \in Handles /\ call[t].session \in SessionRefs
      /\ c # None
  BY CallIsGrounded, CallFields DEF SubmitOrder, At
<1>2. /\ sessions[call[t].session] # None /\ handles[h] # None
      /\ handles[h].session = call[t].session /\ handles[h].claim = c
  BY <1>1 DEF Grounded
<1> PICK o : o = NewOrder(t)
  OBVIOUS
<1>3. o \in CanonicalOrder /\ o # None /\ o.conf = handles[h].conf
      /\ o.correlation = sessions[call[t].session].correlation
  BY <1>1, <1>2, RecordFields, OrderAssumption
     DEF OrderInv, NewOrder, Record, CanonicalOrder
<1>4. orders' = [orders EXCEPT ![c] = o] /\ orders[c] = None
      /\ UNCHANGED <<sessions, idempotent, handles, worldVars>>
  BY DEF SubmitOrder, OrderFor, channelVars
<1>5. \A e \in ClientRefs : orders'[e] = IF e = c THEN o ELSE orders[e]
  BY <1>4 DEF OrderInv, TypeOK
<1>6. \A e \in ClientRefs : orders[e] # None => e # c /\ orders[e].conf # handles[h].conf
  BY <1>4 DEF SubmitOrder, Conflicts, TakenByAnother, Ordered, OrderFor, Record
<1>7. orders' \in [ClientRefs -> Opt(CanonicalOrder)] /\ Grows
  BY <1>1, <1>3, <1>4, <1>5 DEF OrderInv, TypeOK, Opt, Grows
<1>8. RecordsAreGrounded'
  <2>1. ASSUME NEW r \in SessionRefs, sessions[r] # None, sessions[r].order # None
        PROVE  OrderIsReal(sessions[r].order, sessions[r].correlation)'
    <3>1. OrderIsReal(sessions[r].order, sessions[r].correlation)
          /\ sessions[r].order \in ClientRefs
      BY <2>1, RecordFields DEF OrderInv, RecordsAreGrounded
    <3> QED BY <1>4, <1>5, <3>1 DEF OrderIsReal
  <2> QED BY <1>4, <2>1 DEF OrderInv, RecordsAreGrounded
<1>9. OneOrderPerConfirmation'
  BY <1>3, <1>5, <1>6 DEF OrderInv, OneOrderPerConfirmation
<1>10. OrderIsClaimed'
  BY <1>1, <1>2, <1>3, <1>4, <1>5 DEF OrderInv, OrderIsClaimed
<1>11. PICK d \in Call :
         /\ call' = [call EXCEPT ![t] = d] /\ UNCHANGED outcome
         /\ SameCall(call[t], d) /\ d.pc \in {"latest", "reconcile"}
  <2>1. Goto(t, "latest") \/ Goto(t, "reconcile")
    BY DEF SubmitOrder
  <2> QED BY <1>1, <2>1, GoesOn DEF OrderInv
<1>12. Grounded(d)'
  <2>1. d.session = call[t].session /\ d.handle = h /\ d.client = c
        /\ d.seen = call[t].seen
    BY <1>11 DEF SameCall
  <2>2. d.seen # None /\ d.seen.correlation = sessions[d.session].correlation
        /\ (d.seen.order # None => OrderIsReal(d.seen.order, d.seen.correlation))
    BY <1>1, <2>1 DEF Grounded
  <2>3. d.seen.order # None => d.seen.order \in ClientRefs
    BY <1>1, <2>1, <2>2, CallFields DEF Snapshot, Opt
  <2> QED
    BY <1>1, <1>2, <1>3, <1>4, <1>5, <2>1, <2>2, <2>3
       DEF Grounded, OrderIsReal, KnowsOrder
<1> QED
  BY <1>4, <1>7, <1>8, <1>9, <1>10, <1>11, <1>12, CallSteps DEF OrderInv, TypeOK, Opt

LEMMA LatestStep ==
  ASSUME OrderInv, NEW t \in Threads, Latest(t)
  PROVE  OrderInv' /\ Grows
<1>1. call[t] # None /\ call[t].pc = "latest" /\ call[t] \in Call /\ Grounded(call[t])
      /\ UNCHANGED <<channelVars, orders, worldVars>>
  BY CallIsGrounded DEF Latest, At
<1>2. ASSUME NEW how \in {"order", "rejected"}, Finish(t, how)
      PROVE  OrderInv' /\ Grows
  BY <1>1, <1>2, Finishes
<1>3. CASE Begin("result", t)
  <2>1. PICK d \in Call :
          /\ call' = [call EXCEPT ![t] = d] /\ UNCHANGED outcome
          /\ SameCall(call[t], d) /\ d.pc = "lookup" /\ d.step = "result"
    BY <1>1, <1>3, Begun DEF OrderInv
  <2>2. Grounded(d)
    BY <1>1, <2>1 DEF Grounded, SameCall, KnowsOrder
  <2> QED BY <1>1, <2>1, <2>2, OnlyTheCall DEF OrderInv, TypeOK, Opt
<1> QED BY <1>2, <1>3 DEF Latest, Reject

LEMMA StepKeepsInv ==
  ASSUME OrderInv, NEW t \in Threads, Step(t)
  PROVE  OrderInv' /\ Grows
<1>1. CASE SubmitConflict(t)
  BY <1>1, Finishes DEF SubmitConflict, Reject
<1>2. CASE SubmitAgain(t)
  BY <1>2, AcceptStep DEF SubmitAgain, At
<1>3. CASE SubmitLost(t)
  <2>1. call[t] # None /\ call[t].pc = "submit"
        /\ handles[call[t].handle].claim = call[t].client
    BY <1>3, CallIsGrounded DEF SubmitLost, At, Grounded
  <2> QED BY <1>3, <2>1, GoesOnAlone DEF SubmitLost
<1>4. CASE Reconcile(t)
  <2>1. CASE OrderFor(t) = None
    BY <1>4, <2>1, Finishes DEF Reconcile, UnknownOutcome
  <2>2. CASE OrderFor(t) # None
    BY <1>4, <2>2, AcceptStep DEF Reconcile, At
  <2> QED BY <2>1, <2>2
<1> QED
  BY <1>1, <1>2, <1>3, <1>4, ValidateStep, ResolveStep, ClaimStep, LookupStep,
     GetStep, PutStep, RecordStep, SubmitStep, LatestStep DEF Step

LEMMA BeginStep ==
  ASSUME OrderInv, NEW t \in Threads, Begins(t)
  PROVE  OrderInv' /\ Grows
<1> PICK s \in SessionRefs, h \in Handles, c \in ClientRefs : BeginSubmit(t, s, h, c)
  BY DEF Begins
<1> PICK d : d = [pc |-> "validate", session |-> s, handle |-> h, client |-> c,
                  epoch |-> now, step |-> "start", seen |-> None]
  OBVIOUS
<1>1. d \in Call /\ d.pc = "validate"
  BY DEF Call, Opt, OrderInv, TypeOK
<1>2. Grounded(d)
  BY <1>1 DEF Grounded
<1>3. call' = [call EXCEPT ![t] = d] /\ UNCHANGED <<channelVars, orders, worldVars>>
      /\ outcome' \in [Threads -> {"none", "order", "rejected", "unknown"}]
  BY DEF BeginSubmit, OrderInv, TypeOK
<1> QED BY <1>1, <1>2, <1>3, OnlyTheCall DEF Opt

\* What happens around the calls leaves them grounded when it only grows.
LEMMA AroundTheCalls ==
  ASSUME OrderInv, Grows, UNCHANGED <<call, outcome, orders>>,
         sessions' \in [SessionRefs -> Opt(Snapshot)],
         handles' \in [Handles -> Opt(ConfirmationProvenanceRecord)],
         idempotent' = idempotent, lapsed' \subseteq SessionRefs,
         issued' \in [Confirmations -> Opt(Materials)],
         now' \in Nat, moves' \in Nat, replaced' \in Nat, RecordsAreGrounded'
  PROVE  OrderInv' /\ Grows
<1>1. ASSUME NEW t \in Threads, NEW c, c = call[t], c # None
      PROVE  c \in Call /\ Grounded(c)'
  <2>1. c \in Call /\ Grounded(c)
    BY <1>1, CallIsGrounded
  <2> QED BY <2>1, GroundedStays DEF OrderInv
<1>2. CallsAreGrounded'
  BY <1>1 DEF CallsAreGrounded, Grounded, KnowsOrder, OrderIsReal
<1>3. TypeOK'
  <2>1. ASSUME NEW t \in Threads, call'[t] # None, call'[t].pc # "validate"
        PROVE  Held(t)'
    BY <1>1, <2>1 DEF Held, Grounded
  <2> QED BY <2>1 DEF OrderInv, TypeOK
<1>4. OneOrderPerConfirmation'
  BY DEF OrderInv, OneOrderPerConfirmation
<1>5. OrderIsClaimed'
  <2>1. ASSUME NEW h \in Handles, handles[h] # None
        PROVE  /\ handles'[h] # None /\ handles'[h].session = handles[h].session
               /\ handles'[h].conf = handles[h].conf
               /\ handles[h].claim # None => handles'[h].claim = handles[h].claim
               /\ handles[h].session \in SessionRefs
    BY <2>1, RecordFields DEF Grows, OrderInv
  <2>2. ASSUME NEW s \in SessionRefs, sessions[s] # None
        PROVE  sessions'[s] # None /\ sessions'[s].correlation = sessions[s].correlation
    BY <2>2 DEF Grows
  <2> QED BY <2>1, <2>2, OrderAssumption DEF OrderInv, OrderIsClaimed
<1> QED BY <1>2, <1>3, <1>4, <1>5 DEF OrderInv

LEMMA PrepareStep ==
  ASSUME OrderInv, Prepare
  PROVE  OrderInv' /\ Grows
<1> PICK s \in SessionRefs, h \in Handles, conf \in Confirmations, m \in BoundedMaterials :
      PrepareConfirmation(s, h, conf, m)
  BY DEF Prepare
<1>1. m \in Materials
  BY OrderAssumption DEF BoundedMaterials, Materials
<1> PICK r : r = [session |-> s, conf |-> conf, material |-> m, claim |-> None]
  OBVIOUS
<1>2. r \in ConfirmationProvenanceRecord /\ r # None /\ r.session = s
  BY <1>1, OrderAssumption DEF ConfirmationProvenanceRecord, Opt
<1>3. handles' = [handles EXCEPT ![h] = r] /\ handles[h] = None /\ sessions[s] # None
      /\ issued' = [issued EXCEPT ![conf] = m]
      /\ UNCHANGED <<sessions, idempotent, lapsed, orders, call, outcome, now, moves,
                     replaced>>
  BY DEF PrepareConfirmation, Valid, Exists
<1>4. \A g \in Handles : handles'[g] = IF g = h THEN r ELSE handles[g]
  BY <1>3 DEF OrderInv, TypeOK
<1>5. Grows
  BY <1>3, <1>4 DEF Grows
<1>6. RecordsAreGrounded'
  BY <1>2, <1>3, <1>4 DEF OrderInv, RecordsAreGrounded, OrderIsReal
<1> QED BY <1>1, <1>2, <1>3, <1>5, <1>6, AroundTheCalls DEF OrderInv, TypeOK, Opt

LEMMA RotateStep ==
  ASSUME OrderInv, NEW s \in SessionRefs, NEW fresh \in SessionRefs, Rotate(s, fresh)
  PROVE  OrderInv' /\ Grows
<1> PICK n : n = [sessions[s] EXCEPT !.rotated = TRUE]
  OBVIOUS
<1>1. sessions[s] # None /\ sessions[s] \in Snapshot /\ sessions[fresh] = None
  BY RecordFields DEF Rotate, Valid, Exists, OrderInv
<1>2. n \in Snapshot /\ n # None /\ n.correlation = sessions[s].correlation
      /\ n.order = sessions[s].order
  BY <1>1, OrderAssumption DEF Snapshot
<1>3. sessions' = [sessions EXCEPT ![s] = n, ![fresh] = sessions[s]]
      /\ UNCHANGED <<lapsed, idempotent, handles, issued, orders, call, outcome, now,
                     moves, replaced>>
  BY DEF Rotate
<1>4. \A r \in SessionRefs :
        sessions'[r] = IF r = fresh THEN sessions[s] ELSE IF r = s THEN n ELSE sessions[r]
  BY <1>1, <1>3 DEF OrderInv, TypeOK
<1>5. sessions' \in [SessionRefs -> Opt(Snapshot)] /\ Grows
  BY <1>1, <1>2, <1>3, <1>4 DEF OrderInv, TypeOK, Opt, Grows
<1>6. RecordsAreGrounded'
  <2>1. ASSUME NEW h \in Handles, handles[h] # None
        PROVE  sessions'[handles[h].session] # None
    BY <1>1, <1>2, <1>4, <2>1, RecordFields DEF OrderInv, RecordsAreGrounded
  <2>2. ASSUME NEW r \in SessionRefs, NEW q \in SessionRefs, sessions[q] # None,
               sessions'[r].order = sessions[q].order,
               sessions'[r].correlation = sessions[q].correlation, sessions'[r].order # None
        PROVE  OrderIsReal(sessions[r].order, sessions[r].correlation)'
    BY <1>3, <2>2 DEF OrderInv, RecordsAreGrounded, OrderIsReal
  <2>3. ASSUME NEW r \in SessionRefs, sessions'[r] # None, sessions'[r].order # None
        PROVE  OrderIsReal(sessions[r].order, sessions[r].correlation)'
    BY <1>1, <1>2, <1>4, <2>2, <2>3
  <2>4. handles' = handles
    BY <1>3
  <2> QED BY <2>1, <2>3, <2>4 DEF RecordsAreGrounded
<1> QED BY <1>3, <1>5, <1>6, AroundTheCalls DEF OrderInv, TypeOK

LEMMA MoveStep ==
  ASSUME OrderInv, NEW s \in SessionRefs, NEW target \in MoveTargets, Move(s, target)
  PROVE  OrderInv' /\ Grows
<1> PICK n : n = [sessions[s] EXCEPT !.state = target]
  OBVIOUS
<1>1. sessions[s] # None /\ sessions[s] \in Snapshot /\ target \in ChannelState
  BY RecordFields, OrderAssumption DEF Move, Exists, OrderInv
<1>2. n \in Snapshot /\ n # None /\ n.correlation = sessions[s].correlation
      /\ n.order = sessions[s].order
  BY <1>1, OrderAssumption DEF Snapshot
<1>3. sessions' = [sessions EXCEPT ![s] = n] /\ moves' = moves + 1
      /\ UNCHANGED <<lapsed, idempotent, handles, issued, orders, call, outcome, now,
                     replaced>>
  BY DEF Move
<1>4. \A r \in SessionRefs : sessions'[r] = IF r = s THEN n ELSE sessions[r]
  BY <1>3 DEF OrderInv, TypeOK
<1>5. sessions' \in [SessionRefs -> Opt(Snapshot)] /\ Grows
  BY <1>1, <1>2, <1>3, <1>4 DEF OrderInv, TypeOK, Opt, Grows
<1>6. RecordsAreGrounded'
  <2>1. ASSUME NEW h \in Handles, handles[h] # None
        PROVE  sessions'[handles[h].session] # None
    BY <1>1, <1>2, <1>4, <2>1, RecordFields DEF OrderInv, RecordsAreGrounded
  <2> QED
    BY <1>1, <1>2, <1>3, <1>4, <2>1 DEF OrderInv, RecordsAreGrounded, OrderIsReal
<1> QED BY <1>3, <1>5, <1>6, AroundTheCalls DEF OrderInv, TypeOK

\* Neither time nor XBOS's second thoughts reach into what was recorded.
LEMMA WorldStep ==
  ASSUME OrderInv,
         UNCHANGED <<channelVars, orders, call, outcome>>, lapsed' \subseteq SessionRefs,
         issued' \in [Confirmations -> Opt(Materials)],
         now' \in Nat, moves' \in Nat, replaced' \in Nat
  PROVE  OrderInv' /\ Grows
<1>1. Grows /\ RecordsAreGrounded'
  BY DEF channelVars, Grows, OrderInv, RecordsAreGrounded, OrderIsReal
<1> QED BY <1>1, AroundTheCalls DEF channelVars, OrderInv, TypeOK

LEMMA AroundStep ==
  ASSUME OrderInv, Around
  PROVE  OrderInv' /\ Grows
<1>1. ASSUME NEW s \in SessionRefs, Lapse(s)
      PROVE  OrderInv' /\ Grows
  BY <1>1, WorldStep DEF Lapse, OrderInv, TypeOK
<1>2. ASSUME NEW conf \in Confirmations, NEW m \in Opt(BoundedMaterials), Replace(conf, m)
      PROVE  OrderInv' /\ Grows
  <2>1. m \in Opt(Materials)
    BY OrderAssumption DEF BoundedMaterials, Materials, Opt
  <2> QED BY <1>2, <2>1, WorldStep DEF Replace, OrderInv, TypeOK
<1>3. CASE Tick
  BY <1>3, WorldStep DEF Tick, OrderInv, TypeOK
<1> QED BY <1>1, <1>2, <1>3, RotateStep, MoveStep DEF Around

LEMMA InitInvariant == Init => OrderInv
<1> SUFFICES ASSUME Init PROVE OrderInv
  OBVIOUS
<1>1. \A s \in SessionRefs : sessions[s] # None =>
        sessions[s] \in Snapshot /\ sessions[s].order = None
  BY DEF Init, Opt, Snapshot, ChannelState
<1>2. TypeOK
  BY <1>1 DEF Init, TypeOK, Opt
<1>3. CallsAreGrounded /\ OneOrderPerConfirmation /\ OrderIsClaimed
  BY DEF Init, CallsAreGrounded, OneOrderPerConfirmation, OrderIsClaimed
<1>4. RecordsAreGrounded
  BY <1>1 DEF Init, RecordsAreGrounded
<1> QED BY <1>2, <1>3, <1>4 DEF OrderInv

LEMMA InvariantStep == OrderInv /\ [Next]_vars => OrderInv' /\ Grows
<1> SUFFICES ASSUME OrderInv, [Next]_vars PROVE OrderInv' /\ Grows
  OBVIOUS
<1>1. CASE UNCHANGED vars
  BY <1>1, WorldStep DEF vars, channelVars, OrderInv, TypeOK
<1> QED BY <1>1, PrepareStep, AroundStep, StepKeepsInv, BeginStep DEF Next

\* Whatever the numbers of threads, sessions and handles, the inductive
\* invariant holds: what a submit relies on stays true between its steps.
THEOREM SubmitsAreGrounded == Spec => []OrderInv
  BY InitInvariant, InvariantStep, PTL DEF Spec

\* Nothing a caller was told is taken back: a session keeps its correlation, a
\* handle what it was issued for and its claim, an order everything it is.
THEOREM NothingIsTakenBack == Spec => [][Grows]_vars
<1>1. OrderInv /\ [Next]_vars => [Grows]_vars
  BY InvariantStep
<1> QED BY <1>1, SubmitsAreGrounded, PTL DEF Spec

\* Every reachable state is typed, and a call past its first checks holds a
\* handle of its own session (submit, validate_active_session).
THEOREM TypeCorrect == Spec => []TypeOK
<1>1. OrderInv => TypeOK
  BY DEF OrderInv
<1> QED BY <1>1, SubmitsAreGrounded, PTL

\* One canonical order effect, for any number of submits that compete, retry or
\* lose their answers (submit, submit_order).
THEOREM OrderedOnce == Spec => []OneOrderPerConfirmation
<1>1. OrderInv => OneOrderPerConfirmation
  BY DEF OrderInv
<1> QED BY <1>1, SubmitsAreGrounded, PTL

\* No order without consent: a handle of its confirmation is claimed for it, in
\* a session of its correlation (claim_confirmation before submit_order).
THEOREM OrderedByClaim == Spec => []OrderIsClaimed
<1>1. OrderInv => OrderIsClaimed
  BY DEF OrderInv
<1> QED BY <1>1, SubmitsAreGrounded, PTL

\* A handle was claimed in a session of s's correlation.
ClaimedFor(s) ==
  \E h \in Handles :
    /\ handles[h] # None /\ handles[h].claim # None
    /\ Exists(handles[h].session)
    /\ sessions[handles[h].session].correlation = sessions[s].correlation

\* Claims and correlations outlive every step, and successors share them.
LEMMA ClaimsLast ==
  ASSUME OrderInv, Grows, NEW r \in SessionRefs, NEW s \in SessionRefs, ClaimedFor(r),
         sessions[r] # None, sessions'[s].correlation = sessions[r].correlation
  PROVE  ClaimedFor(s)'
<1>1. PICK h \in Handles :
        /\ handles[h] # None /\ handles[h].claim # None
        /\ sessions[handles[h].session] # None
        /\ sessions[handles[h].session].correlation = sessions[r].correlation
  BY DEF ClaimedFor, Exists
<1>2. handles[h].session \in SessionRefs
  BY <1>1, RecordFields DEF OrderInv
<1>3. /\ handles'[h] # None /\ handles'[h].claim # None
      /\ handles'[h].session = handles[h].session
      /\ sessions'[handles[h].session] # None
      /\ sessions'[handles[h].session].correlation = sessions'[s].correlation
  BY <1>1, <1>2 DEF Grows
<1> QED BY <1>3 DEF ClaimedFor, Exists

\* A step that leaves a session in ORDER_SUBMITTING found it so, copied it from
\* one, or is the put of a submit that holds its claim.
LEMMA SubmittingComesFrom ==
  ASSUME OrderInv, Next, NEW s \in SessionRefs, sessions'[s] # None,
         sessions'[s].state = "order_submitting"
  PROVE  \/ \E r \in SessionRefs :
              /\ sessions[r] # None /\ sessions[r].state = "order_submitting"
              /\ sessions'[s].correlation = sessions[r].correlation
         \/ \E t \in Threads :
              /\ Put(t) /\ call[t].session = s /\ Grounded(call[t])
<1>1. DOMAIN sessions = SessionRefs
  BY DEF OrderInv, TypeOK
<1>2. CASE sessions' = sessions
  BY <1>2
<1>3. ASSUME NEW t \in Threads, Put(t)
      PROVE  \/ sessions'[s] = sessions[s]
             \/ call[t].session = s /\ Grounded(call[t])
  BY <1>1, <1>3, CallIsGrounded DEF Put, At
<1>4. ASSUME NEW r \in SessionRefs, NEW fresh \in SessionRefs, Rotate(r, fresh)
      PROVE  \E q \in SessionRefs :
               /\ sessions[q] # None /\ sessions[q].state = "order_submitting"
               /\ sessions'[s].correlation = sessions[q].correlation
  <2>1. sessions[r] \in Snapshot /\ sessions[r] # None
    BY <1>4, RecordFields DEF Rotate, Valid, Exists, OrderInv
  <2> PICK n : n = [sessions[r] EXCEPT !.rotated = TRUE]
    OBVIOUS
  <2>2. n.state = sessions[r].state /\ n.correlation = sessions[r].correlation
    BY <2>1 DEF Snapshot
  <2>3. sessions' = [sessions EXCEPT ![r] = n, ![fresh] = sessions[r]]
    BY <1>4 DEF Rotate
  <2>4. sessions'[s] \in {n, sessions[r], sessions[s]}
    BY <1>1, <2>3
  <2> QED BY <2>1, <2>2, <2>4
<1>5. ASSUME NEW r \in SessionRefs, NEW target \in MoveTargets, Move(r, target)
      PROVE  sessions'[s] = sessions[s]
  <2>1. sessions[r] \in Snapshot /\ target # "order_submitting"
    BY <1>5, RecordFields, OrderAssumption DEF Move, Exists, OrderInv
  <2> PICK n : n = [sessions[r] EXCEPT !.state = target]
    OBVIOUS
  <2>2. n.state # "order_submitting"
    BY <2>1 DEF Snapshot
  <2>3. sessions' = [sessions EXCEPT ![r] = n]
    BY <1>5 DEF Move
  <2> QED BY <1>1, <2>2, <2>3
<1>6. ASSUME NEW t \in Threads, Step(t), ~ Put(t)
      PROVE  sessions' = sessions
  BY <1>6 DEF Step, Validate, ResolveConfirmation, ClaimConfirmation, Lookup, Get,
              RecordResult, SubmitConflict, SubmitAgain, SubmitOrder, SubmitLost,
              Reconcile, Latest, channelVars
<1>7. CASE Prepare \/ \E t \in Threads : Begins(t)
  BY <1>2, <1>7 DEF Prepare, PrepareConfirmation, Begins, BeginSubmit, channelVars
<1>8. CASE Around
  <2>1. ASSUME NEW r \in SessionRefs, Lapse(r) PROVE sessions' = sessions
    BY <2>1 DEF Lapse, channelVars
  <2>2. ASSUME NEW conf \in Confirmations, NEW m, Replace(conf, m)
        PROVE  sessions' = sessions
    BY <2>2 DEF Replace, channelVars
  <2>3. CASE Tick
    BY <1>2, <2>3 DEF Tick, channelVars
  <2> QED BY <1>2, <1>4, <1>5, <1>8, <2>1, <2>2, <2>3 DEF Around
<1>9. CASE \E t \in Threads : Step(t)
  BY <1>2, <1>3, <1>6, <1>9
<1> QED BY <1>7, <1>8, <1>9 DEF Next

LEMMA SubmittingStep ==
  ASSUME OrderInv, SubmittingIsClaimed, [Next]_vars
  PROVE  SubmittingIsClaimed'
<1>1. Grows /\ OrderInv'
  BY InvariantStep
<1>2. CASE UNCHANGED vars
  BY <1>2 DEF vars, SubmittingIsClaimed, Exists
<1>3. CASE Next
  <2> SUFFICES ASSUME NEW s \in SessionRefs, sessions'[s] # None,
                      sessions'[s].state = "order_submitting"
               PROVE  ClaimedFor(s)'
    BY DEF SubmittingIsClaimed, ClaimedFor, Exists
  <2>1. ASSUME NEW r \in SessionRefs, sessions[r] # None,
               sessions[r].state = "order_submitting",
               sessions'[s].correlation = sessions[r].correlation
        PROVE  ClaimedFor(s)'
    <3>1. ClaimedFor(r)
      BY <2>1 DEF SubmittingIsClaimed, ClaimedFor, Exists
    <3> QED BY <1>1, <2>1, <3>1, ClaimsLast
  <2>2. ASSUME NEW t \in Threads, Put(t), call[t].session = s, Grounded(call[t])
        PROVE  ClaimedFor(s)'
    <3>1. call[t] # None /\ call[t].pc = "put" /\ call[t] \in Call
          /\ call[t].handle \in Handles /\ call[t].client # None
      BY <2>2, CallIsGrounded, CallFields DEF Put, At
    <3>2. /\ handles[call[t].handle] # None /\ handles[call[t].handle].claim # None
          /\ handles[call[t].handle].session = s /\ sessions[s] # None
      BY <2>2, <3>1 DEF Grounded
    <3>3. ClaimedFor(s) /\ sessions'[s].correlation = sessions[s].correlation
      BY <1>1, <3>1, <3>2 DEF ClaimedFor, Exists, Grows
    <3> QED BY <1>1, <3>2, <3>3, ClaimsLast
  <2> QED BY <1>3, <2>1, <2>2, SubmittingComesFrom
<1> QED BY <1>2, <1>3

\* No session waits in ORDER_SUBMITTING but behind a claim made in a session of
\* its correlation, whatever was refused, lost or overtaken since (submit,
\* claim_confirmation).
THEOREM SubmittedBehindClaim == Spec => []SubmittingIsClaimed
<1>1. Init => SubmittingIsClaimed
  <2>1. Init => \A s \in SessionRefs : sessions[s] # None => sessions[s].state = "review"
    BY DEF Init, Opt
  <2> QED BY <2>1 DEF SubmittingIsClaimed, Exists
<1>2. OrderInv /\ SubmittingIsClaimed /\ [Next]_vars => SubmittingIsClaimed'
  BY SubmittingStep
<1> QED BY <1>1, <1>2, SubmitsAreGrounded, PTL DEF Spec

-----------------------------------------------------------------------------
(* Answers.                                                                  *)

\* Only a call that knows its order ends with one.
LEMMA AnswerStep ==
  ASSUME OrderInv, Next, NEW t \in Threads,
         outcome'[t] = "order", outcome[t] # "order"
  PROVE  /\ OrderFor(t) # None
         /\ OrderFor(t).conf = Record(t).conf
         /\ Record(t).claim = call[t].client
<1>1. PICK u \in Threads : Step(u) \/ Begins(u)
  BY DEF Next, Prepare, PrepareConfirmation, Around, Rotate, Lapse, Move, Replace, Tick
<1>2. ASSUME UNCHANGED outcome \/ outcome' = [outcome EXCEPT ![u] = "none"]
             \/ Reject(u) \/ Finish(u, "unknown")
      PROVE  FALSE
  BY <1>2 DEF Reject, Finish, OrderInv, TypeOK
<1>3. CASE Finish(u, "order") /\ call[u] # None /\ KnowsOrder(call[u])
  <2>1. u = t
    BY <1>3 DEF Finish, OrderInv, TypeOK
  <2> QED BY <1>3, <2>1, KnownOrder DEF OrderFor, Record, OrderIsReal
<1>4. ASSUME call[u] # None, call[u].pc \in {"lookup", "record"}, AfterTransition(u)
      PROVE  Finish(u, "order") /\ KnowsOrder(call[u])
  <2>1. call[u] \in Call /\ call[u].step \in {"start", "result"}
    BY <1>4, CallIsGrounded, CallFields
  <2>2. call[u].step # "start"
    BY <1>2, <1>4 DEF AfterTransition, Goto
  <2> QED BY <1>4, <2>1, <2>2 DEF AfterTransition, KnowsOrder
<1>5. CASE Lookup(u)
  BY <1>2, <1>3, <1>4, <1>5 DEF Lookup, At, Goto
<1>6. CASE RecordResult(u)
  BY <1>3, <1>4, <1>6 DEF RecordResult, At
<1>7. CASE Latest(u)
  BY <1>2, <1>3, <1>7 DEF Latest, At, KnowsOrder, Begin
<1>8. CASE Begins(u)
  BY <1>2, <1>8 DEF Begins, BeginSubmit
<1>9. CASE Validate(u) \/ ResolveConfirmation(u) \/ ClaimConfirmation(u)
  <2>1. CASE Validate(u)
    BY <1>2, <2>1 DEF Validate
  <2>2. CASE ResolveConfirmation(u)
    BY <1>2, <2>2 DEF ResolveConfirmation, Goto
  <2>3. CASE ClaimConfirmation(u)
    BY <1>2, <2>3 DEF ClaimConfirmation, Begin, Goto
  <2> QED BY <1>9, <2>1, <2>2, <2>3
<1>10. CASE Get(u) \/ Put(u)
  BY <1>2, <1>10 DEF Get, Put, Goto
<1>11. CASE SubmitConflict(u) \/ SubmitAgain(u) \/ SubmitOrder(u) \/ SubmitLost(u)
            \/ Reconcile(u)
  BY <1>2, <1>11 DEF SubmitConflict, SubmitAgain, SubmitOrder, SubmitLost, Reconcile,
                     UnknownOutcome, Accept, Goto
<1> QED
  BY <1>1, <1>5, <1>6, <1>7, <1>8, <1>9, <1>10, <1>11 DEF Step

\* Whoever submit answers with an order gets the one made for the handle and
\* client reference submitted, after any retries and lost answers (submit).
THEOREM AnsweredWithTheOrder == Spec => AnswerIsTheOrder
<1> DEFINE Right ==
      \A t \in Threads :
        outcome'[t] = "order" /\ outcome[t] # "order" =>
          /\ OrderFor(t) # None
          /\ OrderFor(t).conf = Record(t).conf
          /\ Record(t).claim = call[t].client
<1>1. OrderInv /\ [Next]_vars => [Right]_vars
  BY AnswerStep
<1>2. Spec => [][Right]_vars
  <2> HIDE DEF Right
  <2> QED BY <1>1, SubmitsAreGrounded, PTL DEF Spec
<1> QED BY <1>2 DEF AnswerIsTheOrder

-----------------------------------------------------------------------------
(* The promise.                                                              *)

\* A step of a submit claims, orders, or does neither.
LEMMA PromiseStep ==
  ASSUME OrderInv, Next
  PROVE  Promise!Next \/ UNCHANGED <<ClaimOf, SpentBy>>
<1>1. CASE UNCHANGED <<handles, orders>>
  BY <1>1 DEF ClaimOf, SpentBy
<1>2. ASSUME NEW t \in Threads, ClaimConfirmation(t)
      PROVE  Promise!Next \/ UNCHANGED <<ClaimOf, SpentBy>>
  <2> DEFINE h == call[t].handle
             c == call[t].client
  <2>1. h \in Handles /\ c \in ClientRefs /\ handles[h] # None
    BY <1>2, CallIsGrounded, CallFields DEF ClaimConfirmation, At, Grounded
  <2>2. UNCHANGED SpentBy
    BY <1>2 DEF ClaimConfirmation, SpentBy
  <2>3. CASE ~ Claimable(t)
    BY <1>1, <1>2, <2>3 DEF ClaimConfirmation
  <2>4. CASE Claimable(t)
    <3>1. handles[h] \in ConfirmationProvenanceRecord /\ handles[h].claim \in {None, c}
      BY <2>1, <2>4, RecordFields DEF OrderInv, Claimable, Record
    <3> PICK r : r = [handles[h] EXCEPT !.claim = c]
      OBVIOUS
    <3>2. r.claim = c /\ r # None
      BY <2>1, <3>1, OrderAssumption DEF ConfirmationProvenanceRecord, Opt
    <3>3. handles' = [handles EXCEPT ![h] = r]
      BY <1>2, <2>4 DEF ClaimConfirmation, Claimed
    <3>4. ClaimOf[h] = handles[h].claim /\ ClaimOf' = [ClaimOf EXCEPT ![h] = c]
      BY <2>1, <3>2, <3>3 DEF ClaimOf, OrderInv, TypeOK
    <3>5. CASE handles[h].claim = None
      BY <2>1, <2>2, <3>4, <3>5 DEF Promise!Next, Promise!Claim
    <3>6. CASE handles[h].claim = c
      <4>1. UNCHANGED ClaimOf
        BY <2>1, <3>4, <3>6 DEF ClaimOf
      <4> QED BY <2>2, <4>1
    <3> QED BY <3>1, <3>5, <3>6
  <2> QED BY <2>3, <2>4
<1>3. ASSUME NEW t \in Threads, SubmitOrder(t)
      PROVE  Promise!Next
  <2> DEFINE h == call[t].handle
             c == call[t].client
  <2>1. call[t] \in Call /\ h \in Handles /\ c \in ClientRefs /\ handles[h] # None
        /\ handles[h].claim = c /\ handles[h].conf \in Confirmations
    BY <1>3, CallIsGrounded, CallFields, RecordFields
       DEF SubmitOrder, At, Grounded, OrderInv
  <2> PICK o : o = NewOrder(t)
    OBVIOUS
  <2>2. o \in CanonicalOrder /\ o.conf = handles[h].conf /\ o # None
    <3>1. sessions[call[t].session] # None /\ call[t].session \in SessionRefs
      BY <1>3, CallIsGrounded, CallFields DEF SubmitOrder, At, Grounded
    <3> QED
      BY <2>1, <3>1, RecordFields, OrderAssumption
         DEF OrderInv, NewOrder, Record, CanonicalOrder
  <2>3. orders' = [orders EXCEPT ![c] = o] /\ orders[c] = None /\ handles' = handles
    BY <1>3 DEF SubmitOrder, OrderFor, channelVars
  <2>4. \A e \in ClientRefs : orders[e] # None => orders[e].conf # handles[h].conf
    BY <1>3, <2>3 DEF SubmitOrder, Conflicts, TakenByAnother, Ordered, OrderFor, Record
  <2>5. SpentBy' = [SpentBy EXCEPT ![c] = handles[h].conf] /\ SpentBy[c] = None
    BY <2>1, <2>2, <2>3 DEF SpentBy, OrderInv, TypeOK
  <2>6. \A e \in ClientRefs : SpentBy[e] # handles[h].conf
    BY <2>1, <2>4, OrderAssumption DEF SpentBy
  <2>7. ClaimOf[h] = c /\ UNCHANGED ClaimOf
    BY <2>1, <2>3 DEF ClaimOf
  <2> QED BY <2>1, <2>5, <2>6, <2>7 DEF Promise!Next, Promise!Order
<1>4. CASE Prepare
  <2>1. UNCHANGED SpentBy
    BY <1>4 DEF Prepare, PrepareConfirmation, SpentBy
  <2>2. UNCHANGED ClaimOf
    <3> PICK s \in SessionRefs, h \in Handles, conf \in Confirmations,
             m \in BoundedMaterials : PrepareConfirmation(s, h, conf, m)
      BY <1>4 DEF Prepare
    <3> PICK r : r = [session |-> s, conf |-> conf, material |-> m, claim |-> None]
      OBVIOUS
    <3>1. r.claim = None
      OBVIOUS
    <3>2. handles' = [handles EXCEPT ![h] = r] /\ handles[h] = None
      BY DEF PrepareConfirmation
    <3>3. \A g \in Handles : handles'[g] = IF g = h THEN r ELSE handles[g]
      BY <3>2 DEF OrderInv, TypeOK
    <3> QED BY <3>1, <3>2, <3>3 DEF ClaimOf
  <2> QED BY <2>1, <2>2
<1>5. CASE Around
  BY <1>1, <1>5 DEF Around, Rotate, Lapse, Move, Replace, Tick, channelVars
<1>6. ASSUME NEW t \in Threads, Begins(t)
      PROVE  UNCHANGED <<handles, orders>>
  BY <1>6 DEF Begins, BeginSubmit, channelVars
<1>7. ASSUME NEW t \in Threads, Step(t), ~ ClaimConfirmation(t), ~ SubmitOrder(t)
      PROVE  UNCHANGED <<handles, orders>>
  BY <1>7 DEF Step, Validate, ResolveConfirmation, Lookup, Get, Put, RecordResult,
              SubmitConflict, SubmitAgain, SubmitLost, Reconcile, Latest, channelVars
<1> QED BY <1>1, <1>2, <1>3, <1>4, <1>5, <1>6, <1>7 DEF Next

\* Every run of submits is a run of the abstract promise: claims are made once,
\* orders once, behind a claim, for confirmations nobody spent.
THEOREM PromiseIsImplemented == Spec => ImplementsPromise
<1>1. Init => Promise!Init
  BY DEF Init, Promise!Init, ClaimOf, SpentBy
<1>2. OrderInv /\ [Next]_vars => [Promise!Next]_<<ClaimOf, SpentBy>>
  <2>1. UNCHANGED vars => UNCHANGED <<ClaimOf, SpentBy>>
    BY DEF vars, ClaimOf, SpentBy
  <2> QED BY <2>1, PromiseStep
<1> QED
  BY <1>1, <1>2, SubmitsAreGrounded, PTL DEF Spec, ImplementsPromise, Promise!Spec

-----------------------------------------------------------------------------
(* One transition of a session at a time.                                    *)

\* While one submit is between the read and the write of a session's
\* transition, no other is: what a lock around transition would give.  Submits
\* may overlap anywhere else.
TransitionsApart ==
  \A t, u \in Threads :
    At(t, "put") /\ At(u, "put") /\ call[t].session = call[u].session => t = u

\* A call about to put holds what the session shows now, and if it brings an
\* order, the session shows that one or none yet.
PutsAreFresh ==
  \A t \in Threads :
    At(t, "put") =>
      /\ call[t].seen.order = sessions[call[t].session].order
      /\ call[t].step = "result" => call[t].seen.order \in {None, call[t].client}

\* Only a put to it gives a session another order.
LEMMA OrdersStay ==
  ASSUME OrderInv, [Next]_vars, NEW s \in SessionRefs, sessions[s] # None,
         ~ \E t \in Threads : Put(t) /\ call[t].session = s
  PROVE  sessions'[s].order = sessions[s].order
<1>1. ASSUME NEW r \in SessionRefs, NEW fresh \in SessionRefs, Rotate(r, fresh)
      PROVE  sessions'[s].order = sessions[s].order
  <2> PICK n : n = [sessions[r] EXCEPT !.rotated = TRUE]
    OBVIOUS
  <2>1. sessions[r] \in Snapshot /\ sessions[fresh] = None
    BY <1>1, RecordFields DEF Rotate, Valid, Exists, OrderInv
  <2>2. n.order = sessions[r].order
    BY <2>1 DEF Snapshot
  <2>3. sessions' = [sessions EXCEPT ![r] = n, ![fresh] = sessions[r]]
    BY <1>1 DEF Rotate
  <2> QED BY <2>1, <2>2, <2>3 DEF OrderInv, TypeOK
<1>2. ASSUME NEW r \in SessionRefs, NEW target \in MoveTargets, Move(r, target)
      PROVE  sessions'[s].order = sessions[s].order
  <2> PICK n : n = [sessions[r] EXCEPT !.state = target]
    OBVIOUS
  <2>1. sessions[r] \in Snapshot
    BY <1>2, RecordFields DEF Move, Exists, OrderInv
  <2>2. n.order = sessions[r].order
    BY <2>1 DEF Snapshot
  <2>3. sessions' = [sessions EXCEPT ![r] = n]
    BY <1>2 DEF Move
  <2> QED BY <2>2, <2>3 DEF OrderInv, TypeOK
<1>3. CASE UNCHANGED sessions
  BY <1>3
<1>4. ASSUME NEW t \in Threads, Step(t) \/ Begins(t), ~ Put(t)
      PROVE  UNCHANGED sessions
  BY <1>4
     DEF Step, Validate, ResolveConfirmation, ClaimConfirmation, Lookup, Get,
         RecordResult, SubmitConflict, SubmitAgain, SubmitOrder, SubmitLost, Reconcile,
         Latest, Begins, BeginSubmit, channelVars
<1>5. ASSUME NEW t \in Threads, Put(t), call[t].session # s
      PROVE  sessions'[s].order = sessions[s].order
  BY <1>5 DEF Put, OrderInv, TypeOK
<1>6. Prepare \/ (\E r \in SessionRefs : Lapse(r)) \/ Tick
      \/ (\E conf \in Confirmations, m \in Opt(BoundedMaterials) : Replace(conf, m))
      => UNCHANGED sessions
  BY DEF Prepare, PrepareConfirmation, Lapse, Replace, Tick, channelVars
<1> QED BY <1>1, <1>2, <1>3, <1>4, <1>5, <1>6 DEF Next, Around, vars

\* A step of submit moves its own call alone.
LEMMA OwnCall ==
  ASSUME OrderInv, NEW t \in Threads, Step(t) \/ Begins(t), NEW u \in Threads, u # t
  PROVE  call'[u] = call[u]
<1>1. ASSUME NEW d, call' = [call EXCEPT ![t] = d]
      PROVE  call'[u] = call[u]
  BY <1>1 DEF OrderInv, TypeOK
<1>2. ASSUME NEW pc, Goto(t, pc) PROVE call'[u] = call[u]
  BY <1>1, <1>2 DEF Goto
<1>3. ASSUME NEW step, Begin(step, t) PROVE call'[u] = call[u]
  BY <1>1, <1>3 DEF Begin
<1>4. ASSUME NEW how, Finish(t, how) PROVE call'[u] = call[u]
  BY <1>1, <1>4 DEF Finish
<1>5. CASE Begins(t) \/ Validate(t) \/ Get(t)
  BY <1>1, <1>4, <1>5 DEF Begins, BeginSubmit, Validate, Get, Reject
<1>6. CASE ResolveConfirmation(t) \/ ClaimConfirmation(t)
  BY <1>2, <1>3, <1>4, <1>6 DEF ResolveConfirmation, ClaimConfirmation, Reject
<1>7. CASE Lookup(t) \/ Put(t) \/ RecordResult(t)
  BY <1>2, <1>4, <1>7 DEF Lookup, Put, RecordResult, AfterTransition
<1>8. CASE SubmitConflict(t) \/ SubmitAgain(t) \/ SubmitOrder(t) \/ SubmitLost(t)
  BY <1>2, <1>4, <1>8
     DEF SubmitConflict, SubmitAgain, SubmitOrder, SubmitLost, Accept, Reject
<1>9. CASE Reconcile(t) \/ Latest(t)
  BY <1>2, <1>3, <1>4, <1>9 DEF Reconcile, UnknownOutcome, Accept, Latest, Reject
<1> QED BY <1>5, <1>6, <1>7, <1>8, <1>9 DEF Step

\* With no other put to its session ahead, what Get read is still so when it is
\* put.
LEMMA FreshStep ==
  ASSUME TransitionsApart, OrderInv, PutsAreFresh, [Next]_vars
  PROVE  PutsAreFresh'
<1>1. ASSUME NEW t \in Threads, NEW c, c = call'[t], c # None, c.pc = "put"
      PROVE  /\ c.seen.order = sessions'[c.session].order
             /\ c.step = "result" => c.seen.order \in {None, c.client}
  <2>1. CASE call[t] = c
    <3>1. c \in Call /\ c.session \in SessionRefs /\ sessions[c.session] # None
      BY <1>1, <2>1, CallIsGrounded, CallFields DEF Grounded
    <3>2. ASSUME NEW u \in Threads, Put(u), call[u].session = c.session
          PROVE  FALSE
      <4>1. u = t /\ Goto(t, "record") /\ call[t] \in Call
        BY <1>1, <2>1, <3>1, <3>2 DEF TransitionsApart, Put, At
      <4>2. call'[t].pc = "record"
        BY <4>1 DEF Goto, Call, OrderInv, TypeOK
      <4> QED BY <1>1, <4>2
    <3> QED BY <1>1, <2>1, <3>1, <3>2, OrdersStay DEF PutsAreFresh, At
  <2>2. CASE call[t] # c
    <3>1. PICK u \in Threads : Step(u) \/ Begins(u)
      BY <1>1, <2>2
         DEF Next, vars, Prepare, PrepareConfirmation, Around, Rotate, Lapse, Move,
             Replace, Tick
    <3>2. u = t
      BY <1>1, <2>2, <3>1, OwnCall
    <3>3. ASSUME Finish(t, "order") \/ Finish(t, "unknown") \/ Reject(t)
          PROVE  FALSE
      BY <1>1, <3>3 DEF Finish, Reject, OrderInv, TypeOK
    <3>4. ASSUME call[t] \in Call,
                 NEW pc \in {"claim", "lookup", "get", "record", "submit", "reconcile",
                             "latest"},
                 Goto(t, pc)
          PROVE  FALSE
      BY <1>1, <3>4 DEF Goto, Call, OrderInv, TypeOK
    <3>5. ASSUME call[t] \in Call, Begin("start", t) \/ Begin("result", t)
          PROVE  FALSE
      BY <1>1, <3>5 DEF Begin, Call, OrderInv, TypeOK
    <3>6. call[t] # None => call[t] \in Call
      BY CallIsGrounded
    <3>7. CASE Get(t)
      <4>1. call[t] \in Call /\ call[t].session \in SessionRefs
        BY <3>6, <3>7, CallFields DEF Get, At
      <4>2. call' = [call EXCEPT ![t].pc = "put", ![t].seen = sessions[call[t].session]]
            /\ UNCHANGED sessions
        BY <3>3, <3>7 DEF Get, channelVars
      <4>3. c.seen = sessions[call[t].session] /\ c.session = call[t].session
            /\ c.step = call[t].step /\ c.client = call[t].client
        BY <1>1, <4>1, <4>2 DEF Call, OrderInv, TypeOK
      <4>4. MatchesSession(t, sessions[call[t].session])
        BY <3>3, <3>7 DEF Get
      <4> QED BY <4>2, <4>3, <4>4 DEF MatchesSession
    <3>8. CASE Validate(t)
      <4>1. call' = [call EXCEPT ![t].pc = "resolve", ![t].seen = sessions[call[t].session]]
        BY <3>3, <3>8 DEF Validate
      <4>2. call'[t].pc = "resolve"
        BY <3>6, <3>8, <4>1 DEF Validate, At, Call, OrderInv, TypeOK
      <4> QED BY <1>1, <4>2
    <3>9. CASE Begins(t)
      BY <1>1, <3>9 DEF Begins, BeginSubmit, OrderInv, TypeOK
    <3>10. CASE ResolveConfirmation(t) \/ ClaimConfirmation(t)
      BY <3>3, <3>4, <3>5, <3>6, <3>10 DEF ResolveConfirmation, ClaimConfirmation, At
    <3>11. CASE Lookup(t) \/ Put(t) \/ RecordResult(t)
      BY <3>3, <3>4, <3>6, <3>11 DEF Lookup, Put, RecordResult, AfterTransition, At
    <3>12. CASE SubmitConflict(t) \/ SubmitAgain(t) \/ SubmitOrder(t) \/ SubmitLost(t)
      BY <3>3, <3>4, <3>6, <3>12
         DEF SubmitConflict, SubmitAgain, SubmitOrder, SubmitLost, Accept, At
    <3>13. CASE Reconcile(t) \/ Latest(t)
      BY <3>3, <3>4, <3>5, <3>6, <3>13 DEF Reconcile, UnknownOutcome, Accept, Latest, At
    <3> QED
      BY <3>1, <3>2, <3>7, <3>8, <3>9, <3>10, <3>11, <3>12, <3>13 DEF Step
  <2> QED BY <2>1, <2>2
<1> QED BY <1>1 DEF PutsAreFresh, At

LEMMA ShownStep ==
  ASSUME OrderInv, PutsAreFresh, [Next]_vars,
         NEW s \in SessionRefs, sessions[s] # None, sessions[s].order # None
  PROVE  sessions'[s].order = sessions[s].order
<1>1. ASSUME NEW t \in Threads, Put(t)
      PROVE  sessions'[s].order = sessions[s].order
  <2>1. call[t] \in Call /\ call[t].seen \in Snapshot /\ call[t].session \in SessionRefs
    BY <1>1, CallIsGrounded, CallFields DEF Put, At, Grounded
  <2> PICK n : n = [call[t].seen EXCEPT
                      !.state = Target(t),
                      !.order = IF call[t].step = "result" THEN call[t].client ELSE @]
    OBVIOUS
  <2>2. n.order = IF call[t].step = "result" THEN call[t].client ELSE call[t].seen.order
    BY <2>1 DEF Snapshot
  <2>3. sessions' = [sessions EXCEPT ![call[t].session] = n]
    BY <1>1 DEF Put
  <2>4. call[t].session = s => n.order = sessions[s].order
    BY <1>1, <2>2 DEF Put, PutsAreFresh, At
  <2> QED BY <2>1, <2>3, <2>4 DEF OrderInv, TypeOK
<1> QED BY <1>1, OrdersStay

\* While transitions of a session do not overlap an order shown is kept, for any
\* number of submits at once, retries, handles, hand-offs and rotations (submit,
\* transition, resume_session).
THEOREM ShownOrderStays == Spec /\ []TransitionsApart => ShownOrderIsKept
<1> DEFINE Kept ==
      \A s \in SessionRefs :
        Exists(s) /\ sessions[s].order # None =>
          sessions'[s].order = sessions[s].order
<1>1. Init => PutsAreFresh
  BY DEF Init, PutsAreFresh, At
<1>2. TransitionsApart /\ OrderInv /\ PutsAreFresh /\ [Next]_vars => PutsAreFresh'
  BY FreshStep
<1>3. OrderInv /\ PutsAreFresh /\ [Next]_vars => [Kept]_vars
  BY ShownStep DEF Exists
<1>4. Spec /\ []TransitionsApart => [][Kept]_vars
  <2> HIDE DEF Kept
  <2> QED BY <1>1, <1>2, <1>3, SubmitsAreGrounded, PTL DEF Spec
<1> QED BY <1>4 DEF ShownOrderIsKept

-----------------------------------------------------------------------------
(* Payment of what was submitted.                                            *)

(* The inductive invariant: whatever was read of a session, fetched for it   *)
(* or made of that since is for an order XBOS has under its correlation, and *)
(* offers what some policy of that order permitted.                          *)
IsOrderFor(s, c, correlation) ==
  /\ sessions[s] # None
  /\ correlation = sessions[s].correlation
  /\ c \in ClientRefs
  /\ OrderIsReal(c, correlation)

Permitted(c, correlation, method) ==
  \E k \in DOMAIN policies[c] :
    /\ policies[c][k].correlation = correlation
    /\ method \in policies[c][k].permitted
    /\ method = "pay_at_counter" => policies[c][k].payAtCounter

PaymentsAreGrounded ==
  \A s \in SessionRefs :
    /\ asking[s] # None => IsOrderFor(s, asking[s].order, asking[s].correlation)
    /\ held[s] # None =>
         /\ IsOrderFor(s, held[s].order, held[s].correlation)
         /\ \A m \in held[s].methods :
              Permitted(held[s].order, held[s].correlation, m)
    /\ presented[s] # None =>
         /\ sessions[s] # None
         /\ presented[s].order \in ClientRefs
         /\ Permitted(presented[s].order, sessions[s].correlation, presented[s].method)

\* What the customer sees of a payment is about the order she is shown.
AboutShown ==
  \A s \in SessionRefs :
    /\ asking[s] # None => asking[s].order = sessions[s].order
    /\ held[s] # None => held[s].order = sessions[s].order
    /\ presented[s] # None =>
         sessions[s] # None /\ presented[s].order = sessions[s].order

PaymentInv == PaymentTypeOK /\ OrderInv /\ PaymentsAreGrounded

-----------------------------------------------------------------------------
(* Lemmas.                                                                   *)

\* For the sessions and orders, every payment step is a step of a submit or none.
LEMMA SubmitsOrNot == [PaymentNext]_<<vars, payVars>> => [Next]_vars
  BY DEF PaymentNext, payVars, RegisterOrderPaymentPolicy, ReadSession,
         FetchPaymentRequest, PaymentRequestRefused, PresentMethod

LEMMA PaymentFields ==
  ASSUME PaymentTypeOK
  PROVE  \A s \in SessionRefs :
           /\ asking[s] # None => asking[s] \in Asking
           /\ held[s] # None => held[s] \in CanonicalPaymentRequestProjection
           /\ presented[s] # None => presented[s] \in Presented
  BY DEF PaymentTypeOK, Opt

\* The policy in force is one of the order's.
LEMMA InForceIsRegistered ==
  ASSUME PaymentTypeOK, NEW c \in ClientRefs, policies[c] # <<>>
  PROVE  /\ Len(policies[c]) \in DOMAIN policies[c]
         /\ InForce(c) = policies[c][Len(policies[c])]
         /\ InForce(c) \in RegisteredPaymentPolicy
<1> PICK q \in Seq(RegisteredPaymentPolicy) : q = policies[c]
  BY DEF PaymentTypeOK
<1>1. Len(q) \in DOMAIN q /\ q[Len(q)] \in RegisteredPaymentPolicy
  OBVIOUS
<1> QED BY <1>1 DEF InForce

\* What holds of a session, an order or a policy goes on holding.
LEMMA GroundsStay ==
  ASSUME TypeOK, Grows, NEW s \in SessionRefs, NEW c, NEW correlation,
         IsOrderFor(s, c, correlation)
  PROVE  IsOrderFor(s, c, correlation)'
  BY DEF IsOrderFor, OrderIsReal, Grows

LEMMA PermissionStays ==
  ASSUME PaymentTypeOK, NEW d \in ClientRefs, NEW p \in RegisteredPaymentPolicy,
         policies' = [policies EXCEPT ![d] = Append(@, p)],
         NEW c \in ClientRefs, NEW correlation, NEW m, Permitted(c, correlation, m)
  PROVE  Permitted(c, correlation, m)'
<1> PICK k \in DOMAIN policies[c] :
      /\ policies[c][k].correlation = correlation
      /\ m \in policies[c][k].permitted
      /\ m = "pay_at_counter" => policies[c][k].payAtCounter
  BY DEF Permitted
<1>1. k \in DOMAIN policies'[c] /\ policies'[c][k] = policies[c][k]
  <2> PICK q \in Seq(RegisteredPaymentPolicy) : q = policies[c]
    BY DEF PaymentTypeOK
  <2>1. policies'[c] = IF c = d THEN Append(q, p) ELSE q
    BY DEF PaymentTypeOK
  <2>2. k \in 1..Len(q)
    OBVIOUS
  <2>3. k \in DOMAIN Append(q, p) /\ Append(q, p)[k] = q[k]
    BY <2>2
  <2> QED BY <2>1, <2>3
<1> QED BY <1>1 DEF Permitted

\* A step of the sessions leaves everything about payments grounded.
LEMMA SessionsMove ==
  ASSUME PaymentInv, [Next]_vars, UNCHANGED payVars
  PROVE  PaymentInv'
<1>1. OrderInv' /\ Grows /\ TypeOK
  BY InvariantStep DEF PaymentInv, OrderInv
<1>2. UNCHANGED <<policies, asking, held, presented>>
  BY DEF payVars
<1>3. PaymentTypeOK'
  BY <1>1, <1>2 DEF PaymentInv, PaymentTypeOK, OrderInv
<1>4. ASSUME NEW s \in SessionRefs, sessions[s] # None
      PROVE  sessions'[s] # None /\ sessions'[s].correlation = sessions[s].correlation
  BY <1>1, <1>4 DEF Grows
<1>5. PaymentsAreGrounded'
  <2>1. ASSUME NEW s \in SessionRefs, NEW q, q = asking[s], q # None
        PROVE  IsOrderFor(s, q.order, q.correlation)'
    BY <1>1, <2>1, GroundsStay DEF PaymentInv, PaymentsAreGrounded
  <2>2. ASSUME NEW s \in SessionRefs, NEW q, q = held[s], q # None
        PROVE  IsOrderFor(s, q.order, q.correlation)'
    BY <1>1, <2>2, GroundsStay DEF PaymentInv, PaymentsAreGrounded
  <2> QED
    BY <1>2, <1>4, <2>1, <2>2
       DEF PaymentInv, PaymentsAreGrounded, IsOrderFor, OrderIsReal, Permitted
<1> QED BY <1>1, <1>3, <1>5 DEF PaymentInv

LEMMA RegisterStep ==
  ASSUME PaymentInv, NEW d \in ClientRefs, NEW p \in Policies,
         RegisterOrderPaymentPolicy(d, p)
  PROVE  PaymentInv'
<1>1. policies' = [policies EXCEPT ![d] = Append(@, p)] /\ p \in RegisteredPaymentPolicy
      /\ UNCHANGED <<vars, asking, held, presented>>
  BY PaymentAssumption DEF RegisterOrderPaymentPolicy
<1>2. OrderInv'
  BY <1>1, InvariantStep DEF PaymentInv
<1>3. PaymentTypeOK'
  <2>1. Append(policies[d], p) \in Seq(RegisteredPaymentPolicy)
    BY <1>1 DEF PaymentInv, PaymentTypeOK
  <2> QED BY <1>1, <1>2, <2>1 DEF PaymentInv, PaymentTypeOK, OrderInv
<1>4. ASSUME NEW c \in ClientRefs, NEW correlation, NEW m, Permitted(c, correlation, m)
      PROVE  Permitted(c, correlation, m)'
  BY <1>1, <1>4, PermissionStays DEF PaymentInv
<1>5. PaymentsAreGrounded'
  <2>1. ASSUME NEW s \in SessionRefs, NEW q, q = asking[s], q # None
        PROVE  IsOrderFor(s, q.order, q.correlation)'
    BY <1>1, <2>1 DEF vars, PaymentInv, PaymentsAreGrounded, IsOrderFor, OrderIsReal
  <2>2. ASSUME NEW s \in SessionRefs, NEW q, q = held[s], q # None
        PROVE  /\ IsOrderFor(s, q.order, q.correlation)'
               /\ \A m \in q.methods : Permitted(q.order, q.correlation, m)'
    <3>1. IsOrderFor(s, q.order, q.correlation)
          /\ \A m \in q.methods : Permitted(q.order, q.correlation, m)
      BY <2>2 DEF PaymentInv, PaymentsAreGrounded
    <3>2. IsOrderFor(s, q.order, q.correlation)'
      BY <1>1, <3>1 DEF vars, IsOrderFor, OrderIsReal
    <3> QED BY <1>4, <3>1, <3>2 DEF IsOrderFor
  <2>3. ASSUME NEW s \in SessionRefs, NEW q, q = presented[s], q # None,
               NEW correlation, correlation = sessions[s].correlation
        PROVE  /\ sessions'[s] # None /\ q.order \in ClientRefs
               /\ Permitted(q.order, correlation, q.method)'
    <3>1. sessions[s] # None /\ q.order \in ClientRefs
          /\ Permitted(q.order, correlation, q.method)
      BY <2>3 DEF PaymentInv, PaymentsAreGrounded
    <3> QED BY <1>1, <1>4, <3>1 DEF vars
  <2>4. \A s \in SessionRefs :
          (asking[s] # None => IsOrderFor(s, asking[s].order, asking[s].correlation))'
    BY <1>1, <2>1 DEF vars, IsOrderFor, OrderIsReal
  <2>5. \A s \in SessionRefs :
          (held[s] # None =>
             /\ IsOrderFor(s, held[s].order, held[s].correlation)
             /\ \A m \in held[s].methods :
                  Permitted(held[s].order, held[s].correlation, m))'
    BY <1>1, <2>2 DEF vars, IsOrderFor, OrderIsReal, Permitted
  <2>6. \A s \in SessionRefs :
          (presented[s] # None =>
             /\ sessions[s] # None /\ presented[s].order \in ClientRefs
             /\ Permitted(presented[s].order, sessions[s].correlation,
                          presented[s].method))'
    BY <1>1, <2>3 DEF vars, Permitted
  <2> QED BY <2>4, <2>5, <2>6 DEF PaymentsAreGrounded
<1> QED BY <1>2, <1>3, <1>5 DEF PaymentInv

LEMMA ReadStep ==
  ASSUME PaymentInv, NEW s \in SessionRefs, ReadSession(s)
  PROVE  PaymentInv'
<1> PICK q : q = [order |-> sessions[s].order, correlation |-> sessions[s].correlation]
  OBVIOUS
<1>1. q \in Asking /\ IsOrderFor(s, q.order, q.correlation)
  BY RecordFields
     DEF PaymentInv, OrderInv, RecordsAreGrounded, ReadSession, Exists, Asking, IsOrderFor
<1>2. asking' = [asking EXCEPT ![s] = q] /\ UNCHANGED <<vars, policies, held, presented>>
  BY DEF ReadSession
<1>3. OrderInv'
  BY <1>2, InvariantStep DEF PaymentInv
<1>4. PaymentTypeOK'
  BY <1>1, <1>2, <1>3 DEF PaymentInv, PaymentTypeOK, OrderInv, Opt
<1>5. \A r \in SessionRefs : asking'[r] = IF r = s THEN q ELSE asking[r]
  BY <1>2 DEF PaymentInv, PaymentTypeOK
<1>6. UNCHANGED <<sessions, orders, policies, held, presented>>
  BY <1>2 DEF vars
<1>7. ASSUME NEW r \in SessionRefs, NEW a, a = asking'[r], a # None
      PROVE  IsOrderFor(r, a.order, a.correlation)
  BY <1>1, <1>5, <1>7 DEF PaymentInv, PaymentsAreGrounded
<1>8. PaymentsAreGrounded'
  <2>1. \A r \in SessionRefs :
          (asking[r] # None => IsOrderFor(r, asking[r].order, asking[r].correlation))'
    BY <1>6, <1>7 DEF IsOrderFor, OrderIsReal
  <2> QED
    BY <1>6, <2>1
       DEF PaymentInv, PaymentsAreGrounded, IsOrderFor, OrderIsReal, Permitted
<1> QED BY <1>3, <1>4, <1>8 DEF PaymentInv

\* The projection kept is of the order asked for, whichever XBOS answered with.
LEMMA FetchStep ==
  ASSUME PaymentInv, NEW s \in SessionRefs, NEW c \in ClientRefs,
         NEW correlation \in Correlations, FetchPaymentRequest(s, c, correlation)
  PROVE  PaymentInv'
<1> PICK q : q = [order |-> c, correlation |-> correlation,
                  methods |-> Offered(InForce(c))]
  OBVIOUS
<1>1. InForce(c) = policies[c][Len(policies[c])] /\ InForce(c) \in RegisteredPaymentPolicy
      /\ Len(policies[c]) \in DOMAIN policies[c] /\ InForce(c).correlation = correlation
  BY InForceIsRegistered DEF PaymentInv, FetchPaymentRequest, Answerable
<1>2. q \in CanonicalPaymentRequestProjection
  BY <1>1 DEF CanonicalPaymentRequestProjection, Offered, RegisteredPaymentPolicy
<1>3. \A m \in q.methods : Permitted(q.order, q.correlation, m)
  BY <1>1 DEF Permitted, Offered
<1>4. ProjectionMatches(s, q) => IsOrderFor(s, q.order, q.correlation)
  BY DEF ProjectionMatches, FetchPaymentRequest, PaymentInv, PaymentsAreGrounded
<1>5. held' = (IF ProjectionMatches(s, q) THEN [held EXCEPT ![s] = q] ELSE held)
      /\ asking' = [asking EXCEPT ![s] = None] /\ UNCHANGED <<vars, policies, presented>>
  BY DEF FetchPaymentRequest
<1>6. OrderInv'
  BY <1>5, InvariantStep DEF PaymentInv
<1>7. PaymentTypeOK'
  BY <1>2, <1>5, <1>6 DEF PaymentInv, PaymentTypeOK, OrderInv, Opt
<1>8. \A r \in SessionRefs :
        /\ asking'[r] = IF r = s THEN None ELSE asking[r]
        /\ held'[r] = IF r = s /\ ProjectionMatches(s, q) THEN q ELSE held[r]
  BY <1>5 DEF PaymentInv, PaymentTypeOK
<1>9. PaymentsAreGrounded'
  <2>1. UNCHANGED <<sessions, orders, policies, presented>>
    BY <1>5 DEF vars
  <2>2. ASSUME NEW r \in SessionRefs, held'[r] # None
        PROVE  /\ IsOrderFor(r, held[r].order, held[r].correlation)'
               /\ \A m \in held'[r].methods :
                    Permitted(held[r].order, held[r].correlation, m)'
    <3>1. CASE held'[r] = held[r]
      BY <2>1, <2>2, <3>1
         DEF PaymentInv, PaymentsAreGrounded, IsOrderFor, OrderIsReal, Permitted
    <3>2. CASE r = s /\ ProjectionMatches(s, q) /\ held'[r] = q
      BY <1>3, <1>4, <2>1, <3>2 DEF IsOrderFor, OrderIsReal, Permitted
    <3> QED BY <1>8, <3>1, <3>2
  <2>3. ASSUME NEW r \in SessionRefs, asking'[r] # None
        PROVE  IsOrderFor(r, asking[r].order, asking[r].correlation)'
    BY <1>8, <2>1, <2>3 DEF PaymentInv, PaymentsAreGrounded, IsOrderFor, OrderIsReal
  <2>4. ASSUME NEW r \in SessionRefs, presented'[r] # None
        PROVE  /\ sessions'[r] # None /\ presented'[r].order \in ClientRefs
               /\ Permitted(presented[r].order, sessions[r].correlation,
                            presented[r].method)'
    BY <2>1, <2>4 DEF PaymentInv, PaymentsAreGrounded, Permitted
  <2> QED BY <2>2, <2>3, <2>4 DEF PaymentsAreGrounded
<1> QED BY <1>6, <1>7, <1>9 DEF PaymentInv

LEMMA RefusedStep ==
  ASSUME PaymentInv, NEW s \in SessionRefs, PaymentRequestRefused(s)
  PROVE  PaymentInv'
<1>1. asking' = [asking EXCEPT ![s] = None] /\ UNCHANGED <<vars, policies, held, presented>>
  BY DEF PaymentRequestRefused
<1>2. OrderInv'
  BY <1>1, InvariantStep DEF PaymentInv
<1>3. PaymentTypeOK'
  BY <1>1, <1>2 DEF PaymentInv, PaymentTypeOK, OrderInv, Opt
<1>4. \A r \in SessionRefs : asking'[r] = IF r = s THEN None ELSE asking[r]
  BY <1>1 DEF PaymentInv, PaymentTypeOK
<1>5. PaymentsAreGrounded'
  BY <1>1, <1>4
     DEF vars, PaymentInv, PaymentsAreGrounded, IsOrderFor, OrderIsReal, Permitted
<1> QED BY <1>2, <1>3, <1>5 DEF PaymentInv

LEMMA PresentStep ==
  ASSUME PaymentInv, NEW s \in SessionRefs, NEW method \in PaymentMethodCode,
         PresentMethod(s, method)
  PROVE  PaymentInv'
<1> PICK q : q = [order |-> held[s].order, method |-> method, action |-> ActionOf[method]]
  OBVIOUS
<1>1. held[s] # None /\ method \in held[s].methods
  BY DEF PresentMethod
<1>2. IsOrderFor(s, q.order, sessions[s].correlation)
      /\ Permitted(q.order, sessions[s].correlation, q.method)
  BY <1>1 DEF PaymentInv, PaymentsAreGrounded, IsOrderFor
<1>3. q \in Presented
  <2>1. ActionOf[method] \in NextActionType
    BY DEF ActionOf, NextActionType, PaymentMethodCode
  <2> QED BY <1>2, <2>1 DEF Presented, IsOrderFor
<1>4. presented' = [presented EXCEPT ![s] = q] /\ UNCHANGED <<vars, policies, asking, held>>
  BY DEF PresentMethod
<1>5. OrderInv'
  BY <1>4, InvariantStep DEF PaymentInv
<1>6. PaymentTypeOK'
  BY <1>3, <1>4, <1>5 DEF PaymentInv, PaymentTypeOK, OrderInv, Opt
<1>7. \A r \in SessionRefs : presented'[r] = IF r = s THEN q ELSE presented[r]
  BY <1>4 DEF PaymentInv, PaymentTypeOK
<1>8. PaymentsAreGrounded'
  <2>1. UNCHANGED <<sessions, orders, policies, asking, held>>
    BY <1>4 DEF vars
  <2>2. ASSUME NEW r \in SessionRefs
        PROVE  /\ asking'[r] # None =>
                    IsOrderFor(r, asking[r].order, asking[r].correlation)'
               /\ held'[r] # None =>
                    /\ IsOrderFor(r, held[r].order, held[r].correlation)'
                    /\ \A m \in held'[r].methods :
                         Permitted(held[r].order, held[r].correlation, m)'
    BY <2>1 DEF PaymentInv, PaymentsAreGrounded, IsOrderFor, OrderIsReal, Permitted
  <2>3. ASSUME NEW r \in SessionRefs, presented'[r] # None
        PROVE  /\ sessions'[r] # None /\ presented'[r].order \in ClientRefs
               /\ Permitted(presented[r].order, sessions[r].correlation,
                            presented[r].method)'
    <3>1. CASE r # s
      BY <1>7, <2>1, <2>3, <3>1 DEF PaymentInv, PaymentsAreGrounded, Permitted
    <3>2. CASE r = s
      BY <1>2, <1>7, <2>1, <3>2 DEF IsOrderFor, Permitted
    <3> QED BY <3>1, <3>2
  <2> QED BY <2>2, <2>3 DEF PaymentsAreGrounded
<1> QED BY <1>5, <1>6, <1>8 DEF PaymentInv

-----------------------------------------------------------------------------
LEMMA InitPayment == PaymentInit => PaymentInv
<1>1. PaymentInit => OrderInv
  BY InitInvariant DEF PaymentInit
<1>2. PaymentInit => PaymentsAreGrounded
  BY DEF PaymentInit, PaymentsAreGrounded
<1>3. PaymentInit /\ OrderInv => PaymentTypeOK
  BY DEF PaymentInit, PaymentTypeOK, OrderInv, Opt
<1> QED BY <1>1, <1>2, <1>3 DEF PaymentInv

LEMMA PaymentStep == PaymentInv /\ [PaymentNext]_<<vars, payVars>> => PaymentInv'
<1> SUFFICES ASSUME PaymentInv, [PaymentNext]_<<vars, payVars>> PROVE PaymentInv'
  OBVIOUS
<1>1. CASE UNCHANGED <<vars, payVars>>
  BY <1>1, SessionsMove
<1>2. CASE Next /\ UNCHANGED payVars
  BY <1>2, SessionsMove
<1> QED
  BY <1>1, <1>2, RegisterStep, ReadStep, FetchStep, RefusedStep, PresentStep
     DEF PaymentNext

LEMMA PaymentsStayGrounded == PaymentSpec => []PaymentInv
  BY InitPayment, PaymentStep, PTL DEF PaymentSpec

\* Every reachable state of payments, sessions and submits together is typed
\* (payment_request, present_method).
THEOREM PaymentTypeCorrect == PaymentSpec => []PaymentTypeOK
<1>1. PaymentInv => PaymentTypeOK
  BY DEF PaymentInv
<1> QED BY <1>1, PaymentsStayGrounded, PTL

\* Whatever XBOS answers with and however old the projection a customer chooses
\* from, XBOS permitted the method for that order (present_method).
THEOREM OfferedAsPermitted == PaymentSpec => []OfferWasPermitted
<1>1. PaymentInv => OfferWasPermitted
  BY DEF PaymentInv, PaymentsAreGrounded, Permitted, OfferWasPermitted
<1> QED BY <1>1, PaymentsStayGrounded, PTL

-----------------------------------------------------------------------------
LEMMA ShownKept ==
  ASSUME PaymentInv, PutsAreFresh, AboutShown, [PaymentNext]_<<vars, payVars>>
  PROVE  AboutShown'
<1>1. ASSUME NEW s \in SessionRefs, NEW c, c # None, sessions[s] # None,
             c = sessions[s].order
      PROVE  sessions'[s] # None /\ sessions'[s].order = c
  <2>1. sessions'[s] # None
    BY <1>1, SubmitsOrNot, InvariantStep DEF PaymentInv, Grows
  <2> QED BY <1>1, <2>1, SubmitsOrNot, ShownStep DEF PaymentInv
<1>2. \A s \in SessionRefs :
        /\ asking[s] # None => sessions[s] # None /\ asking[s].order # None
        /\ held[s] # None => sessions[s] # None /\ held[s].order # None
        /\ presented[s] # None => presented[s].order # None
  BY OrderAssumption DEF PaymentInv, PaymentsAreGrounded, IsOrderFor
<1>3. CASE UNCHANGED payVars
  BY <1>1, <1>2, <1>3 DEF payVars, AboutShown
<1>4. ASSUME NEW d \in ClientRefs, NEW p \in Policies, RegisterOrderPaymentPolicy(d, p)
      PROVE  AboutShown'
  BY <1>4 DEF RegisterOrderPaymentPolicy, vars, AboutShown
<1>5. ASSUME NEW s \in SessionRefs, ReadSession(s)
      PROVE  AboutShown'
  BY <1>5 DEF ReadSession, vars, AboutShown, PaymentInv, PaymentTypeOK
<1>6. ASSUME NEW s \in SessionRefs, NEW c \in ClientRefs, NEW correlation \in Correlations,
             FetchPaymentRequest(s, c, correlation)
      PROVE  AboutShown'
  <2> PICK q : q = [order |-> c, correlation |-> correlation,
                    methods |-> Offered(InForce(c))]
    OBVIOUS
  <2>1. held' = (IF ProjectionMatches(s, q) THEN [held EXCEPT ![s] = q] ELSE held)
        /\ asking' = [asking EXCEPT ![s] = None] /\ UNCHANGED <<vars, policies, presented>>
        /\ asking[s] # None
    BY <1>6 DEF FetchPaymentRequest
  <2>2. ProjectionMatches(s, q) => q.order = sessions[s].order
    BY <2>1 DEF ProjectionMatches, AboutShown
  <2>3. \A r \in SessionRefs :
          /\ asking'[r] = IF r = s THEN None ELSE asking[r]
          /\ held'[r] = IF r = s /\ ProjectionMatches(s, q) THEN q ELSE held[r]
    BY <2>1 DEF PaymentInv, PaymentTypeOK
  <2> QED BY <2>1, <2>2, <2>3 DEF vars, AboutShown
<1>7. ASSUME NEW s \in SessionRefs, PaymentRequestRefused(s)
      PROVE  AboutShown'
  BY <1>7 DEF PaymentRequestRefused, vars, AboutShown, PaymentInv, PaymentTypeOK
<1>8. ASSUME NEW s \in SessionRefs, NEW method \in PaymentMethodCode, PresentMethod(s, method)
      PROVE  AboutShown'
  BY <1>2, <1>8 DEF PresentMethod, vars, AboutShown, PaymentInv, PaymentTypeOK
<1>9. UNCHANGED <<vars, payVars>> => UNCHANGED payVars
  OBVIOUS
<1> QED
  BY <1>3, <1>4, <1>5, <1>6, <1>7, <1>8, <1>9 DEF PaymentNext

\* While transitions of a session do not overlap the customer pays for the order
\* she is shown, for any number of submits at once, orders, policies, rotations
\* and hand-offs in between (payment_request and the check of its projection).
THEOREM PaysForTheShownOrder ==
  PaymentSpec /\ []TransitionsApart => []PaymentIsForShownOrder
<1>1. PaymentInit => PutsAreFresh /\ AboutShown
  BY DEF PaymentInit, Init, PutsAreFresh, AboutShown, At
<1>2. TransitionsApart /\ PaymentInv /\ PutsAreFresh /\ [PaymentNext]_<<vars, payVars>>
        => PutsAreFresh'
  BY FreshStep, SubmitsOrNot DEF PaymentInv
<1>3. PaymentInv /\ PutsAreFresh /\ AboutShown /\ [PaymentNext]_<<vars, payVars>>
        => AboutShown'
  BY ShownKept
<1>4. PaymentInv /\ AboutShown => PaymentIsForShownOrder
  BY DEF PaymentInv, PaymentsAreGrounded, AboutShown, PaymentIsForShownOrder,
         IsOrderFor, OrderIsReal, Exists
<1> QED BY <1>1, <1>2, <1>3, <1>4, PaymentsStayGrounded, PTL DEF PaymentSpec
=============================================================================
