----------------------- MODULE CustomerSessions_proofs -----------------------
(* What holds of CustomerSessions for every set of references, projections,  *)
(* keys and bounds.                                                          *)
EXTENDS CustomerSessions, FiniteSetTheorems, TLAPS

-----------------------------------------------------------------------------
(* What one call does to the session it is about.                            *)

\* Everything of a snapshot but what the conversation has collected: the part
\* a call on an existing session never touches.
SameLinks(c, d) ==
  /\ c.conversation = d.conversation /\ c.correlation = d.correlation
  /\ c.owner = d.owner /\ c.entry = d.entry /\ c.expires = d.expires
  /\ c.secure = d.secure /\ c.generation = d.generation
  /\ c.predecessor = d.predecessor /\ c.rotatedTo = d.rotatedTo
  /\ c.invalidatedAt = d.invalidatedAt

\* A reference once taken from evidence is kept.
SameReferences(c, d) ==
  /\ c.order # None => d.order = c.order
  /\ c.payment # None => d.payment = c.payment

\* A call leaves the count and the recorded keys of its session alone, or adds
\* one to the count of a session that was not rotated and records a new key.
Counted(s, c, d) ==
  \/ d.count = c.count /\ idempotent' = idempotent
  \/ /\ ~Rotated(c)
     /\ d.count = c.count + 1
     /\ \E key \in Keys \ idempotent[s] :
          idempotent' = [idempotent EXCEPT ![s] = @ \cup {key}]

\* A label changes along the matrix, or to what XBOS projects, uncounted.
Relabelled(s, c, d) ==
  \/ d.state = c.state
  \/ d.state \in Transitions[c.state]
  \/ /\ upstream[s] # None
     /\ d.state = StateFromProjection(upstream[s])
     /\ d.evidence = upstream[s].ref /\ d.count = c.count

CallEffect(s, c, d) ==
  /\ SameLinks(c, d)
  /\ Backed(c) => Backed(d)
  /\ SameReferences(c, d)
  /\ Counted(s, c, d)
  /\ Relabelled(s, c, d)

\* Merging a projection into a snapshot gives a snapshot with the same links.
LEMMA WithEvidenceKeepsLinks ==
  ASSUME NEW c \in CustomerSessionSnapshot, NEW p \in Projections
  PROVE  /\ WithEvidence(c, p) \in CustomerSessionSnapshot
         /\ SameLinks(c, WithEvidence(c, p))
         /\ WithEvidence(c, p).count = c.count
         /\ WithEvidence(c, p).evidence = p.ref
<1>1. p.order \in Opt(OrderRefs) /\ p.payment \in Opt(PaymentRefs)
      /\ p.ref \in EvidenceRefs
  BY DEF Opt, OrderRefs, PaymentRefs, EvidenceRefs
<1> DEFINE o == IF p.order = None THEN c.order ELSE p.order
           q == IF p.payment = None THEN c.payment ELSE p.payment
           d == [c EXCEPT !.order = o, !.payment = q, !.evidence = p.ref]
<1>2. o \in Opt(OrderRefs) /\ q \in Opt(PaymentRefs)
  BY <1>1 DEF CustomerSessionSnapshot
<1>3. p.ref \in Opt(EvidenceRefs)
  BY <1>1 DEF Opt
<1>4. WithEvidence(c, p) = d
  BY DEF WithEvidence
<1> HIDE DEF o, q
<1>5. d \in CustomerSessionSnapshot
  BY <1>2, <1>3 DEF CustomerSessionSnapshot
<1>6. SameLinks(c, d) /\ d.count = c.count /\ d.evidence = p.ref
  BY DEF CustomerSessionSnapshot, SameLinks
<1>7. QED
  BY <1>4, <1>5, <1>6

\* A step to another label keeps a snapshot a snapshot and its links.
LEMMA MovedKeepsLinks ==
  ASSUME NEW c \in CustomerSessionSnapshot, NEW target \in ChannelState,
         NEW handoff \in Opt(HandoffRefs)
  PROVE  /\ Moved(c, target, handoff) \in CustomerSessionSnapshot
         /\ SameLinks(c, Moved(c, target, handoff))
         /\ Moved(c, target, handoff).state = target
         /\ Moved(c, target, handoff).count = c.count + 1
         /\ Moved(c, target, handoff).order = c.order
         /\ Moved(c, target, handoff).payment = c.payment
         /\ Moved(c, target, handoff).evidence = c.evidence
<1> DEFINE h == IF target = "human_handoff" THEN handoff ELSE c.handoff
           n == c.count + 1
           d == [c EXCEPT !.state = target, !.count = n, !.handoff = h]
<1>1. h \in Opt(HandoffRefs) /\ n \in Nat
  BY DEF CustomerSessionSnapshot
<1>2. Moved(c, target, handoff) = d
  BY DEF Moved
<1>3. d.count = c.count + 1 /\ d.state = target /\ d.order = c.order
      /\ d.payment = c.payment /\ d.evidence = c.evidence
  BY DEF CustomerSessionSnapshot
<1> HIDE DEF h, n
<1>4. d \in CustomerSessionSnapshot
  BY <1>1 DEF CustomerSessionSnapshot
<1>5. SameLinks(c, d)
  BY DEF CustomerSessionSnapshot, SameLinks
<1>6. QED
  BY <1>2, <1>3, <1>4, <1>5

\* A projection dictates a label or none.
LEMMA ProjectedLabel ==
  ASSUME NEW p
  PROVE  StateFromProjection(p) \in ChannelState \cup {None}
  BY DEF StateFromProjection, ChannelState

\* The label a projection dictates is one it supports.
LEMMA ProjectedLabelIsSupported ==
  ASSUME NEW p, StateFromProjection(p) # None
  PROVE  Supports(StateFromProjection(p), p)
  BY DEF StateFromProjection, Supports

\* A snapshot that takes a projection of its own correlation and references is
\* backed by it under any label it supports.
LEMMA WithEvidenceIsBacked ==
  ASSUME NEW c \in CustomerSessionSnapshot, NEW p \in Projections,
         MatchesSession(c, p),
         NEW d \in CustomerSessionSnapshot,
         d.correlation = c.correlation,
         d.order = WithEvidence(c, p).order,
         d.payment = WithEvidence(c, p).payment,
         d.evidence = WithEvidence(c, p).evidence,
         Supports(d.state, p)
  PROVE  Backed(d) /\ SameReferences(c, d)
<1>1. /\ d.order = IF p.order = None THEN c.order ELSE p.order
      /\ d.payment = IF p.payment = None THEN c.payment ELSE p.payment
      /\ d.evidence = p.ref
  BY DEF WithEvidence, CustomerSessionSnapshot
<1>2. QED
  BY <1>1 DEF Backed, SameReferences, MatchesSession

\* A call on an issued session replaces that session's snapshot by another with
\* the same links and references, backed if it was, and counts at most once;
\* it touches nothing of the environment.
LEMMA CallHasEffect ==
  ASSUME TypeOK, NEW s \in SessionRefs, CallOn(s)
  PROVE  /\ Issued(s)
         /\ \E d \in CustomerSessionSnapshot :
              /\ sessions' = [sessions EXCEPT ![s] = d]
              /\ CallEffect(s, sessions[s], d)
         /\ UNCHANGED <<aliases, envVars>>
<1> DEFINE c == sessions[s]
<1>1. Issued(s)
  BY DEF CallOn, AttachInteractionRefs, Transition, TransitionOnEvidence,
         MayTransition, Reenter, MayReenter
<1>2. c \in CustomerSessionSnapshot
  BY <1>1 DEF TypeOK, Issued, Opt
<1>3. CASE \E cart \in Opt(CartRefs), quote \in Opt(QuoteRefs) :
             AttachInteractionRefs(s, cart, quote)
  <2>1. PICK cart \in Opt(CartRefs), quote \in Opt(QuoteRefs) :
          AttachInteractionRefs(s, cart, quote)
    BY <1>3
  <2> DEFINE k == IF cart = None THEN c.cart ELSE cart
             q == IF quote = None THEN c.quote ELSE quote
             d == [c EXCEPT !.cart = k, !.quote = q]
  <2>2. sessions' = [sessions EXCEPT ![s] = d]
    BY <2>1, <1>2 DEF AttachInteractionRefs, TypeOK, CustomerSessionSnapshot
  <2>3. k \in Opt(CartRefs) /\ q \in Opt(QuoteRefs)
    BY <1>2 DEF CustomerSessionSnapshot
  <2>4. idempotent' = idempotent /\ UNCHANGED <<aliases, envVars>>
    BY <2>1 DEF AttachInteractionRefs
  <2> HIDE DEF k, q
  <2>5. d \in CustomerSessionSnapshot
    BY <1>2, <2>3 DEF CustomerSessionSnapshot
  <2>6. SameLinks(c, d) /\ SameReferences(c, d) /\ d.count = c.count
        /\ d.state = c.state /\ d.evidence = c.evidence
        /\ d.order = c.order /\ d.payment = c.payment
    BY <1>2 DEF CustomerSessionSnapshot, SameLinks, SameReferences
  <2> HIDE DEF d
  <2>7. CallEffect(s, c, d)
    BY <2>4, <2>6 DEF CallEffect, Counted, Backed, SameLinks, Relabelled
  <2>8. QED
    BY <1>1, <2>2, <2>4, <2>5, <2>7
<1>4. CASE \E target \in ChannelState, key \in Keys, handoff \in Opt(HandoffRefs) :
             Transition(s, target, key, handoff)
  <2>1. PICK target \in ChannelState, key \in Keys, handoff \in Opt(HandoffRefs) :
          Transition(s, target, key, handoff)
    BY <1>4
  <2> DEFINE d == Moved(c, target, handoff)
  <2>2. d \in CustomerSessionSnapshot /\ SameLinks(c, d)
        /\ d.state = target /\ d.count = c.count + 1 /\ SameReferences(c, d)
    <3>1. d.order = c.order /\ d.payment = c.payment
      BY <1>2, MovedKeepsLinks
    <3>2. QED
      BY <1>2, <3>1, MovedKeepsLinks DEF SameReferences
  <2>3. /\ sessions' = [sessions EXCEPT ![s] = d]
        /\ key \in Keys \ idempotent[s] /\ ~Rotated(c)
        /\ idempotent' = [idempotent EXCEPT ![s] = @ \cup {key}]
        /\ target \notin EvidenceGated /\ UNCHANGED <<aliases, envVars>>
        /\ target \in Transitions[c.state]
    BY <2>1 DEF Transition, MayTransition, Record
  <2> HIDE DEF d
  <2>4. Counted(s, c, d) /\ Backed(d) /\ Relabelled(s, c, d)
    BY <2>2, <2>3 DEF Counted, Backed, Relabelled
  <2>5. QED
    BY <1>1, <2>2, <2>3, <2>4 DEF CallEffect
<1>5. CASE \E target \in EvidenceGated, key \in Keys, p \in Projections :
             TransitionOnEvidence(s, target, key, p)
  <2>1. PICK target \in EvidenceGated, key \in Keys, p \in Projections :
          TransitionOnEvidence(s, target, key, p)
    BY <1>5
  <2> DEFINE e == WithEvidence(c, p)
             d == Moved(e, target, None)
  <2>2. e \in CustomerSessionSnapshot /\ SameLinks(c, e) /\ e.count = c.count
    BY <1>2, WithEvidenceKeepsLinks
  <2>3. target \in ChannelState /\ None \in Opt(HandoffRefs)
    BY DEF EvidenceGated, ChannelState, Opt
  <2>4. d \in CustomerSessionSnapshot /\ SameLinks(e, d)
        /\ d.state = target /\ d.count = e.count + 1
        /\ d.order = e.order /\ d.payment = e.payment /\ d.evidence = e.evidence
    BY <2>2, <2>3, MovedKeepsLinks
  <2>5. SameLinks(c, d) /\ d.count = c.count + 1
    BY <2>2, <2>4 DEF SameLinks
  <2>6. /\ sessions' = [sessions EXCEPT ![s] = d]
        /\ key \in Keys \ idempotent[s] /\ ~Rotated(c)
        /\ idempotent' = [idempotent EXCEPT ![s] = @ \cup {key}]
        /\ MatchesSession(c, p) /\ Supports(target, p)
        /\ target \in Transitions[c.state]
        /\ UNCHANGED <<aliases, envVars>>
    BY <2>1 DEF TransitionOnEvidence, MayTransition, Record
  <2>7. Backed(d) /\ SameReferences(c, d)
    <3> HIDE DEF d
    <3>1. QED
      BY <1>2, <2>4, <2>5, <2>6, WithEvidenceIsBacked DEF SameLinks
  <2> HIDE DEF d, e
  <2>8. Counted(s, c, d) /\ Relabelled(s, c, d)
    BY <2>4, <2>5, <2>6 DEF Counted, Relabelled
  <2>9. QED
    BY <1>1, <2>4, <2>5, <2>6, <2>7, <2>8 DEF CallEffect
<1>6. CASE Reenter(s)
  <2> DEFINE p == upstream[s]
             e == WithEvidence(c, p)
             d == [e EXCEPT !.state = StateFromProjection(p)]
  <2>1. p \in Projections
    BY <1>6 DEF Reenter, MayReenter, TypeOK, Opt
  <2>2. e \in CustomerSessionSnapshot /\ SameLinks(c, e) /\ e.count = c.count
        /\ e.evidence = p.ref
    BY <1>2, <2>1, WithEvidenceKeepsLinks
  <2>3. StateFromProjection(p) \in ChannelState /\ Supports(StateFromProjection(p), p)
        /\ MatchesSession(c, p) /\ p # None
    BY <1>6, ProjectedLabel, ProjectedLabelIsSupported DEF Reenter, MayReenter
  <2>4. sessions' = [sessions EXCEPT ![s] = d]
        /\ UNCHANGED <<aliases, idempotent, envVars>>
    BY <1>6 DEF Reenter
  <2> DEFINE l == StateFromProjection(p)
  <2>a. d = [e EXCEPT !.state = l] /\ l \in ChannelState
    BY <2>3
  <2> HIDE DEF p, e, l
  <2>b. d \in CustomerSessionSnapshot
    BY <2>2, <2>a DEF CustomerSessionSnapshot
  <2>c. SameLinks(e, d) /\ d.count = e.count /\ d.state = l
        /\ d.order = e.order /\ d.payment = e.payment /\ d.evidence = e.evidence
    BY <2>2, <2>a DEF CustomerSessionSnapshot, SameLinks
  <2> HIDE DEF d
  <2>5. SameLinks(c, d) /\ d.count = c.count /\ d.state = StateFromProjection(p)
    BY <2>2, <2>c DEF SameLinks, l
  <2>6. Backed(d) /\ SameReferences(c, d)
    BY <1>2, <2>1, <2>3, <2>5, <2>b, <2>c, WithEvidenceIsBacked DEF SameLinks, e
  <2>7. QED
    <3>1. Relabelled(s, c, d)
      BY <2>2, <2>3, <2>5, <2>c DEF Relabelled, p
    <3>2. QED
      BY <1>1, <2>4, <2>5, <2>6, <2>b, <3>1 DEF CallEffect, Counted
<1>7. QED
  BY <1>3, <1>4, <1>5, <1>6 DEF CallOn

-----------------------------------------------------------------------------
(* Types.                                                                    *)

\* A session as it is first stored, on either path, is a snapshot.
LEMMA NewSessionType ==
  ASSUME NEW conv \in Conversations, NEW corr \in Correlations
  PROVE  NewSession(conv, corr) \in CustomerSessionSnapshot
  BY DEF NewSession, CustomerSessionSnapshot, ChannelState, Opt

LEMMA SecureSessionType ==
  ASSUME NEW conv \in Conversations, NEW corr \in Correlations,
         NEW b \in IdentityBinding, NEW expires \in Nat
  PROVE  [NewSession(conv, corr) EXCEPT
            !.secure = TRUE, !.owner = b.identity, !.entry = b.entry,
            !.expires = expires] \in CustomerSessionSnapshot
<1> DEFINE c == NewSession(conv, corr)
<1>1. c \in CustomerSessionSnapshot
  BY NewSessionType
<1>2. /\ b.identity \in Opt(Identities) /\ b.entry \in Opt(Contexts)
      /\ expires \in Opt(Nat)
  BY DEF IdentityBinding, Opt
<1> HIDE DEF c
<1>3. [c EXCEPT !.secure = TRUE, !.owner = b.identity, !.entry = b.entry,
                !.expires = expires] \in CustomerSessionSnapshot
  BY <1>1, <1>2 DEF CustomerSessionSnapshot
<1>4. QED
  BY <1>3 DEF c

\* Both halves of a rotation are snapshots.
LEMMA RotationType ==
  ASSUME NEW c \in CustomerSessionSnapshot, NEW s \in SessionRefs,
         NEW fresh \in SessionRefs, NEW time \in Nat
  PROVE  /\ Replacement(c, s) \in CustomerSessionSnapshot
         /\ [c EXCEPT !.invalidatedAt = time, !.rotatedTo = fresh]
              \in CustomerSessionSnapshot
<1>1. [c EXCEPT !.invalidatedAt = time, !.rotatedTo = fresh]
        \in CustomerSessionSnapshot
  <2>1. time \in Opt(Nat) /\ fresh \in Opt(SessionRefs)
    BY DEF Opt
  <2>2. PICK d \in CustomerSessionSnapshot : d = [c EXCEPT !.invalidatedAt = time]
    BY <2>1 DEF CustomerSessionSnapshot
  <2>3. [d EXCEPT !.rotatedTo = fresh] \in CustomerSessionSnapshot
    BY <2>1 DEF CustomerSessionSnapshot
  <2> QED BY <2>2, <2>3
<1> DEFINE g == c.generation + 1
<1>a. g \in Nat /\ s \in Opt(SessionRefs)
      /\ None \in Opt(SessionRefs) /\ None \in Opt(Nat)
  BY DEF CustomerSessionSnapshot, Opt
<1>b. Replacement(c, s) = [c EXCEPT !.predecessor = s, !.rotatedTo = None,
                                   !.invalidatedAt = None, !.generation = g]
  BY DEF Replacement
<1> HIDE DEF g
<1>2. Replacement(c, s) \in CustomerSessionSnapshot
  <2>1. PICK d \in CustomerSessionSnapshot : d = [c EXCEPT !.predecessor = s]
    BY <1>a DEF CustomerSessionSnapshot
  <2>2. PICK e \in CustomerSessionSnapshot : e = [d EXCEPT !.rotatedTo = None]
    BY <1>a DEF CustomerSessionSnapshot
  <2>3. PICK f \in CustomerSessionSnapshot : f = [e EXCEPT !.invalidatedAt = None]
    BY <1>a DEF CustomerSessionSnapshot
  <2>4. [f EXCEPT !.generation = g] \in CustomerSessionSnapshot
    BY <1>a DEF CustomerSessionSnapshot
  <2> QED BY <1>b, <2>1, <2>2, <2>3, <2>4
<1>3. QED
  BY <1>1, <1>2

LEMMA CreateType ==
  ASSUME TypeOK, CreateStep
  PROVE  TypeOK'
<1>1. PICK s \in SessionRefs, conv \in Conversations, corr \in Correlations :
        \/ \E b \in bindings, expires \in 1..MaxTime :
             CreateSession(s, b, conv, corr, expires)
        \/ \E alias \in Opt(Aliases) : CreateLegacySession(s, alias, conv, corr)
  BY DEF CreateStep
<1>2. CASE \E b \in bindings, expires \in 1..MaxTime :
             CreateSession(s, b, conv, corr, expires)
  <2>1. PICK b \in bindings, expires \in 1..MaxTime :
          CreateSession(s, b, conv, corr, expires)
    BY <1>2
  <2>2. b \in IdentityBinding /\ expires \in Nat
    BY BoundAssumption DEF TypeOK
  <2> DEFINE d == [NewSession(conv, corr) EXCEPT
                     !.secure = TRUE, !.owner = b.identity, !.entry = b.entry,
                     !.expires = expires]
  <2>3. d \in CustomerSessionSnapshot
    BY <2>2, SecureSessionType
  <2>4. sessions' = [sessions EXCEPT ![s] = d]
        /\ UNCHANGED <<aliases, idempotent, envVars>>
    BY <2>1 DEF CreateSession
  <2> HIDE DEF d
  <2>5. QED
    BY <2>3, <2>4 DEF TypeOK, envVars, Opt
<1>3. CASE \E alias \in Opt(Aliases) : CreateLegacySession(s, alias, conv, corr)
  BY <1>3, NewSessionType DEF CreateLegacySession, TypeOK, envVars, Opt
<1>4. QED
  BY <1>1, <1>2, <1>3

LEMMA ResumeType ==
  ASSUME TypeOK, ResumeStep
  PROVE  TypeOK'
<1>1. PICK s \in SessionRefs, fresh \in SessionRefs, b \in bindings :
        ResumeSession(s, b, fresh)
  BY DEF ResumeStep
<1> DEFINE c == sessions[s]
           old == [c EXCEPT !.invalidatedAt = now, !.rotatedTo = fresh]
           new == Replacement(c, s)
<1>2. c \in CustomerSessionSnapshot /\ now \in Nat
  BY <1>1 DEF ResumeSession, Issued, TypeOK, Opt
<1>3. old \in CustomerSessionSnapshot /\ new \in CustomerSessionSnapshot
  BY <1>2, RotationType
<1>4. sessions' = [sessions EXCEPT ![s] = old, ![fresh] = new]
      /\ UNCHANGED <<aliases, idempotent, envVars>>
  BY <1>1 DEF ResumeSession, Invalidated
<1> HIDE DEF old, new
<1>5. QED
  BY <1>3, <1>4 DEF TypeOK, envVars, Opt

LEMMA CallType ==
  ASSUME TypeOK, NEW s \in SessionRefs, CallOn(s)
  PROVE  TypeOK'
<1>1. PICK d \in CustomerSessionSnapshot :
        /\ sessions' = [sessions EXCEPT ![s] = d]
        /\ Counted(s, sessions[s], d)
        /\ UNCHANGED <<aliases, envVars>>
  BY CallHasEffect DEF CallEffect
<1>2. idempotent' \in [SessionRefs -> SUBSET Keys]
  BY <1>1 DEF Counted, TypeOK
<1>3. QED
  BY <1>1, <1>2 DEF TypeOK, envVars, Opt

LEMMA EnvironmentType ==
  ASSUME TypeOK, XbosStep \/ IdentityStep \/ Tick
  PROVE  TypeOK'
<1>1. CASE \E t \in Tables : ReassignTable(t)
  BY <1>1 DEF ReassignTable, TypeOK, storeVars
<1>2. CASE \E s \in SessionRefs, p \in Projections : IssueEvidence(s, p)
  <2>1. PICK s \in SessionRefs, p \in Projections : IssueEvidence(s, p)
    BY <1>2
  <2>2. sessions[s] \in CustomerSessionSnapshot
    BY <2>1 DEF IssueEvidence, Issued, TypeOK, Opt
  <2>3. BindingOf(s) \in SessionSecurityBinding
    BY <2>2 DEF BindingOf, SessionSecurityBinding, CustomerSessionSnapshot
  <2>4. QED
    BY <2>1, <2>3 DEF IssueEvidence, TypeOK, storeVars
<1>3. CASE \E s \in SessionRefs, p \in Projections : RegisterProjection(s, p)
  BY <1>3 DEF RegisterProjection, TypeOK, storeVars, Opt
<1>4. CASE IdentityStep
  BY <1>4, BoundAssumption
     DEF IdentityStep, IssueIdentityBinding, IdentityBinding, Contexts, TypeOK,
         storeVars
<1>5. CASE Tick
  BY <1>5 DEF Tick, TypeOK, storeVars
<1>6. QED
  BY <1>1, <1>2, <1>3, <1>4, <1>5 DEF XbosStep

\* Which reference a name stands for is a reference.
LEMMA CanonicalType ==
  ASSUME TypeOK, NEW n \in Names, Canonical(n) # None
  PROVE  Canonical(n) \in SessionRefs
  BY DEF TypeOK, Names, Canonical, Opt

\* Every value the services store is a snapshot, a handle, a binding or a key
\* of the kind the code declares: no call, in any order, stores anything else.
THEOREM TypeCorrect == Spec => []TypeOK
<1>1. Init => TypeOK
  BY DEF Init, TypeOK, Opt
<1>2. TypeOK /\ [Next]_vars => TypeOK'
  <2> SUFFICES ASSUME TypeOK, [Next]_vars
               PROVE  TypeOK'
    OBVIOUS
  <2>1. CASE CreateStep
    BY <2>1, CreateType
  <2>2. CASE ResumeStep
    BY <2>2, ResumeType
  <2>3. CASE InteractionStep
    BY <2>3, CallType, CanonicalType DEF InteractionStep
  <2>4. CASE XbosStep \/ IdentityStep \/ Tick
    BY <2>4, EnvironmentType
  <2>5. CASE UNCHANGED vars
    BY <2>5 DEF TypeOK, vars
  <2>6. QED
    BY <2>1, <2>2, <2>3, <2>4, <2>5 DEF Next
<1>3. QED
  BY <1>1, <1>2, PTL DEF Spec

-----------------------------------------------------------------------------
(* Rotation chains.                                                          *)

\* A newly stored session has no neighbour in a chain.
LEMMA NewSessionIsAlone ==
  ASSUME TypeOK, CreateStep
  PROVE  \E s \in SessionRefs, d \in CustomerSessionSnapshot :
           /\ ~Issued(s)
           /\ sessions' = [sessions EXCEPT ![s] = d]
           /\ d.predecessor = None /\ d.rotatedTo = None
           /\ d.invalidatedAt = None /\ d.count = 0 /\ d.state = "start"
           /\ idempotent' = idempotent /\ upstream' = upstream
<1>1. PICK s \in SessionRefs, conv \in Conversations, corr \in Correlations :
        \/ \E b \in bindings, expires \in 1..MaxTime :
             CreateSession(s, b, conv, corr, expires)
        \/ \E alias \in Opt(Aliases) : CreateLegacySession(s, alias, conv, corr)
  BY DEF CreateStep
<1> DEFINE fresh == NewSession(conv, corr)
<1>2. /\ fresh \in CustomerSessionSnapshot
      /\ fresh.predecessor = None /\ fresh.rotatedTo = None
      /\ fresh.invalidatedAt = None /\ fresh.count = 0 /\ fresh.state = "start"
  BY NewSessionType DEF NewSession
<1>3. CASE \E b \in bindings, expires \in 1..MaxTime :
             CreateSession(s, b, conv, corr, expires)
  <2>1. PICK b \in bindings, expires \in 1..MaxTime :
          CreateSession(s, b, conv, corr, expires)
    BY <1>3
  <2> DEFINE d == [fresh EXCEPT !.secure = TRUE, !.owner = b.identity,
                                !.entry = b.entry, !.expires = expires]
  <2>2. b \in IdentityBinding /\ expires \in Nat
    BY BoundAssumption DEF TypeOK
  <2>3. d \in CustomerSessionSnapshot
    BY <2>2, SecureSessionType
  <2> HIDE DEF fresh
  <2>4. /\ d.predecessor = None /\ d.rotatedTo = None
        /\ d.invalidatedAt = None /\ d.count = 0 /\ d.state = "start"
    BY <1>2 DEF CustomerSessionSnapshot
  <2>5. ~Issued(s) /\ sessions' = [sessions EXCEPT ![s] = d]
        /\ idempotent' = idempotent /\ upstream' = upstream
    BY <2>1 DEF CreateSession, envVars, fresh
  <2> HIDE DEF d
  <2>6. QED
    BY <2>3, <2>4, <2>5
<1>4. CASE \E alias \in Opt(Aliases) : CreateLegacySession(s, alias, conv, corr)
  <2>1. ~Issued(s) /\ sessions' = [sessions EXCEPT ![s] = fresh]
        /\ idempotent' = idempotent /\ upstream' = upstream
    BY <1>4 DEF CreateLegacySession, envVars
  <2> HIDE DEF fresh
  <2>2. QED
    BY <1>2, <2>1
<1>5. QED
  BY <1>1, <1>3, <1>4

\* What a rotation leaves: the predecessor invalidated and pointing at a fresh
\* reference, which holds its copy one generation later.
LEMMA RotationLinks ==
  ASSUME TypeOK, ResumeStep
  PROVE  \E s, fresh \in SessionRefs :
           /\ Issued(s) /\ ~Issued(fresh)
           /\ sessions[s].rotatedTo = None /\ sessions[s].invalidatedAt = None
           /\ \E old, new \in CustomerSessionSnapshot :
                /\ sessions' = [sessions EXCEPT ![s] = old, ![fresh] = new]
                /\ old.rotatedTo = fresh /\ old.invalidatedAt \in Nat
                /\ old.predecessor = sessions[s].predecessor
                /\ old.generation = sessions[s].generation
                /\ SameBinding(old, sessions[s])
                /\ new.predecessor = s /\ new.generation = old.generation + 1
                /\ new.rotatedTo = None /\ new.invalidatedAt = None
                /\ SameBinding(old, new)
                /\ \A d \in {old, new} :
                     /\ d.state = sessions[s].state /\ d.order = sessions[s].order
                     /\ d.payment = sessions[s].payment
                     /\ d.evidence = sessions[s].evidence
                     /\ d.count = sessions[s].count
           /\ UNCHANGED <<aliases, idempotent, envVars>>
<1>1. PICK s \in SessionRefs, fresh \in SessionRefs, b \in bindings :
        ResumeSession(s, b, fresh)
  BY DEF ResumeStep
<1> DEFINE c == sessions[s]
           old == [c EXCEPT !.invalidatedAt = now, !.rotatedTo = fresh]
           new == Replacement(c, s)
<1>2. c \in CustomerSessionSnapshot /\ now \in Nat
  BY <1>1 DEF ResumeSession, Issued, TypeOK, Opt
<1>3. old \in CustomerSessionSnapshot /\ new \in CustomerSessionSnapshot
  BY <1>2, RotationType
<1>4. /\ Issued(s) /\ ~Issued(fresh) /\ c.secure = TRUE
      /\ c.rotatedTo = None /\ c.invalidatedAt = None
      /\ sessions' = [sessions EXCEPT ![s] = old, ![fresh] = new]
      /\ UNCHANGED <<aliases, idempotent, envVars>>
  BY <1>1, <1>2
     DEF ResumeSession, MayResume, Rotated, Invalidated, CustomerSessionSnapshot
<1>5. /\ old.rotatedTo = fresh /\ old.invalidatedAt \in Nat
      /\ old.predecessor = c.predecessor /\ old.generation = c.generation
      /\ SameBinding(old, c)
      /\ old.state = c.state /\ old.order = c.order /\ old.payment = c.payment
      /\ old.evidence = c.evidence /\ old.count = c.count
  BY <1>2, <1>4 DEF CustomerSessionSnapshot, SameBinding
<1>6. /\ new.predecessor = s /\ new.generation = old.generation + 1
      /\ new.rotatedTo = None /\ new.invalidatedAt = None
      /\ SameBinding(old, new)
      /\ new.state = c.state /\ new.order = c.order /\ new.payment = c.payment
      /\ new.evidence = c.evidence /\ new.count = c.count
  BY <1>2, <1>4 DEF CustomerSessionSnapshot, SameBinding, Replacement
<1> HIDE DEF old, new
<1>7. \A d \in {old, new} :
        /\ d.state = c.state /\ d.order = c.order /\ d.payment = c.payment
        /\ d.evidence = c.evidence /\ d.count = c.count
  BY <1>5, <1>6
<1>8. /\ sessions' = [sessions EXCEPT ![s] = old, ![fresh] = new]
      /\ old.rotatedTo = fresh /\ old.invalidatedAt \in Nat
      /\ old.predecessor = c.predecessor /\ old.generation = c.generation
      /\ SameBinding(old, c)
      /\ new.predecessor = s /\ new.generation = old.generation + 1
      /\ new.rotatedTo = None /\ new.invalidatedAt = None
      /\ SameBinding(old, new)
  BY <1>4, <1>5, <1>6
<1>9. QED
  <2>1. WITNESS s \in SessionRefs, fresh \in SessionRefs
  <2>2. Issued(s) /\ ~Issued(fresh) /\ c.rotatedTo = None
        /\ c.invalidatedAt = None /\ UNCHANGED <<aliases, idempotent, envVars>>
    BY <1>4
  <2>3. QED
    BY <1>3, <1>7, <1>8, <2>2

\* No call breaks a chain.
LEMMA RotationChainStep ==
  ASSUME TypeOK, TypeOK', RotationChain, [Next]_vars
  PROVE  RotationChain'
<1>1. CASE CreateStep
  <2>1. PICK s \in SessionRefs, d \in CustomerSessionSnapshot :
          /\ ~Issued(s)
          /\ sessions' = [sessions EXCEPT ![s] = d]
          /\ d.predecessor = None /\ d.rotatedTo = None
          /\ d.invalidatedAt = None
    BY <1>1, NewSessionIsAlone
  <2>2. ASSUME NEW x \in SessionRefs
        PROVE  (Successors(x) /\ Predecessors(x))'
    BY <2>1, RefAssumption
       DEF RotationChain, Successors, Predecessors, Issued, TypeOK, Opt,
           CustomerSessionSnapshot, SameBinding
  <2>3. QED
    BY <2>2 DEF RotationChain
<1>2. CASE ResumeStep
  <2>1. PICK s \in SessionRefs, fresh \in SessionRefs,
             old \in CustomerSessionSnapshot, new \in CustomerSessionSnapshot :
          /\ Issued(s) /\ ~Issued(fresh)
          /\ sessions[s].rotatedTo = None /\ sessions[s].invalidatedAt = None
          /\ sessions' = [sessions EXCEPT ![s] = old, ![fresh] = new]
          /\ old.rotatedTo = fresh /\ old.invalidatedAt \in Nat
          /\ old.predecessor = sessions[s].predecessor
          /\ old.generation = sessions[s].generation
          /\ SameBinding(old, sessions[s])
          /\ new.predecessor = s /\ new.generation = old.generation + 1
          /\ new.rotatedTo = None /\ new.invalidatedAt = None
          /\ SameBinding(old, new)
    BY <1>2, RotationLinks
  <2>2. /\ sessions'[s] = old /\ sessions'[fresh] = new /\ s # fresh
        /\ \A x \in SessionRefs \ {s, fresh} : sessions'[x] = sessions[x]
        /\ old # None /\ new # None /\ sessions[fresh] = None
    BY <2>1, RefAssumption DEF TypeOK, Issued
  <2>3. ASSUME NEW x \in SessionRefs
        PROVE  Successors(x)'
    <3>1. CASE x = s
      BY <2>1, <2>2, <3>1, RefAssumption DEF Successors, Issued
    <3>2. CASE x = fresh
      BY <2>1, <2>2, <3>2 DEF Successors, Issued
    <3>3. CASE x \notin {s, fresh} /\ Issued(x)
      <4> DEFINE t == sessions[x].rotatedTo
      <4>1. sessions'[x] = sessions[x] /\ t \in Opt(SessionRefs)
        BY <2>2, <3>3 DEF TypeOK, Issued, Opt, CustomerSessionSnapshot
      <4>2. Successors(x)
        BY DEF RotationChain
      <4>3. t # fresh
        BY <2>1, <3>3, <4>2, RefAssumption DEF Successors
      <4>4. CASE t = s
        <5>1. /\ old.predecessor = x
              /\ old.generation = sessions[x].generation + 1
              /\ SameBinding(sessions[x], sessions[s])
          BY <2>1, <3>3, <4>2, <4>4, RefAssumption DEF Successors
        <5>2. SameBinding(sessions[x], old)
          BY <2>1, <5>1 DEF SameBinding
        <5>3. QED
          BY <2>2, <3>3, <4>1, <4>2, <4>4, <5>1, <5>2 DEF Successors, Issued
      <4>5. CASE t # s
        BY <2>2, <3>3, <4>1, <4>2, <4>3, <4>5, RefAssumption
           DEF Successors, Issued, Opt
      <4>6. QED
        BY <4>4, <4>5
    <3>4. CASE x \notin {s, fresh} /\ ~Issued(x)
      BY <2>2, <3>4 DEF Successors, Issued
    <3>5. QED
      BY <3>1, <3>2, <3>3, <3>4
  <2>4. ASSUME NEW x \in SessionRefs
        PROVE  Predecessors(x)'
    <3>1. CASE x = s
      BY <2>1, <2>2, <3>1, RefAssumption
         DEF RotationChain, Predecessors, Issued, TypeOK, Opt,
             CustomerSessionSnapshot
    <3>2. CASE x = fresh
      BY <2>1, <2>2, <3>2 DEF Predecessors, Issued
    <3>3. CASE x \notin {s, fresh}
      BY <2>1, <2>2, <3>3, RefAssumption
         DEF RotationChain, Predecessors, Issued, TypeOK, Opt,
             CustomerSessionSnapshot
    <3>4. QED
      BY <3>1, <3>2, <3>3
  <2>5. QED
    BY <2>3, <2>4 DEF RotationChain
<1>3. CASE InteractionStep
  <2>1. PICK s \in SessionRefs, d \in CustomerSessionSnapshot :
          /\ Issued(s)
          /\ sessions' = [sessions EXCEPT ![s] = d]
          /\ SameLinks(sessions[s], d)
    BY <1>3, CanonicalType, CallHasEffect DEF InteractionStep, CallEffect
  <2>2. d # None
    BY RefAssumption
  <2>3. ASSUME NEW x \in SessionRefs
        PROVE  (Successors(x) /\ Predecessors(x))'
    BY <2>1, <2>2
       DEF RotationChain, Successors, Predecessors, Issued, TypeOK, Opt,
           CustomerSessionSnapshot, SameBinding, SameLinks
  <2>4. QED
    BY <2>3 DEF RotationChain
<1>4. CASE XbosStep \/ IdentityStep \/ Tick \/ UNCHANGED vars
  <2>1. sessions' = sessions
    BY <1>4 DEF XbosStep, IdentityStep, Tick, ReassignTable, IssueEvidence,
                RegisterProjection, IssueIdentityBinding, storeVars, vars
  <2>2. QED
    BY <2>1 DEF RotationChain, Successors, Predecessors, Issued, SameBinding
<1>5. QED
  BY <1>1, <1>2, <1>3, <1>4 DEF Next

\* Whatever calls are made in whatever order, rotation forms chains: one
\* successor per predecessor, one generation apart, same customer and context
\* (resume_session with rotate_if_active).
THEOREM RotationIsChained == Spec => []RotationChain
<1>1. Init => RotationChain
  BY DEF Init, RotationChain, Successors, Predecessors, Issued
<1>2. TypeOK /\ TypeOK' /\ RotationChain /\ [Next]_vars => RotationChain'
  BY RotationChainStep
<1>3. QED
  BY <1>1, <1>2, TypeCorrect, PTL DEF Spec

-----------------------------------------------------------------------------
(* Evidence.                                                                 *)

\* A label that asserts an XBOS fact is always backed by the recorded
\* projection, for whatever projections XBOS makes and handles it issues.
THEOREM FactsAreBacked == Spec => []EvidenceBacked
<1>1. Init => EvidenceBacked
  BY DEF Init, EvidenceBacked, Issued
<1>2. TypeOK /\ EvidenceBacked /\ [Next]_vars => EvidenceBacked'
  <2> SUFFICES ASSUME TypeOK, EvidenceBacked, [Next]_vars
               PROVE  EvidenceBacked'
    OBVIOUS
  <2>1. CASE CreateStep
    <3>1. PICK s \in SessionRefs, d \in CustomerSessionSnapshot :
            sessions' = [sessions EXCEPT ![s] = d] /\ d.state = "start"
      BY <2>1, NewSessionIsAlone
    <3>2. Backed(d)
      BY <3>1 DEF Backed, EvidenceGated
    <3>3. QED
      BY <3>1, <3>2 DEF EvidenceBacked, Issued, TypeOK
  <2>2. CASE ResumeStep
    <3>1. PICK s \in SessionRefs, fresh \in SessionRefs,
               old \in CustomerSessionSnapshot, new \in CustomerSessionSnapshot :
            /\ Issued(s)
            /\ sessions' = [sessions EXCEPT ![s] = old, ![fresh] = new]
            /\ SameBinding(old, sessions[s]) /\ SameBinding(old, new)
            /\ \A d \in {old, new} :
                 /\ d.state = sessions[s].state /\ d.order = sessions[s].order
                 /\ d.payment = sessions[s].payment
                 /\ d.evidence = sessions[s].evidence
      BY <2>2, RotationLinks
    <3>2. Backed(old) /\ Backed(new)
      <4> PICK was : was = sessions[s]
        OBVIOUS
      <4>1. Backed(was)
        BY <3>1 DEF EvidenceBacked
      <4>2. ASSUME NEW d \in {old, new}
            PROVE  /\ d.correlation = was.correlation /\ d.state = was.state
                   /\ d.order = was.order /\ d.payment = was.payment
                   /\ d.evidence = was.evidence
        BY <3>1, <4>2 DEF SameBinding
      <4> QED BY ONLY <4>1, <4>2 DEF Backed
    <3>3. \A x \in SessionRefs : sessions'[x] \in {old, new, sessions[x]}
      BY <3>1 DEF TypeOK
    <3>4. ASSUME NEW x \in SessionRefs, NEW d, d = sessions'[x], d # None
          PROVE  Backed(d)
      BY <3>2, <3>3, <3>4 DEF EvidenceBacked, Issued
    <3>5. QED
      BY <3>4 DEF EvidenceBacked, Issued
  <2>3. CASE InteractionStep
    <3>1. PICK s \in SessionRefs, d \in CustomerSessionSnapshot :
            /\ Issued(s)
            /\ sessions' = [sessions EXCEPT ![s] = d]
            /\ Backed(sessions[s]) => Backed(d)
      BY <2>3, CanonicalType, CallHasEffect DEF InteractionStep, CallEffect
    <3>2. QED
      BY <3>1 DEF EvidenceBacked, Issued, TypeOK
  <2>4. CASE XbosStep \/ IdentityStep \/ Tick \/ UNCHANGED vars
    <3>1. sessions' = sessions
      BY <2>4 DEF XbosStep, IdentityStep, Tick, ReassignTable, IssueEvidence,
                  RegisterProjection, IssueIdentityBinding, storeVars, vars
    <3>2. QED
      BY <3>1 DEF EvidenceBacked, Backed, Issued
  <2>5. QED
    BY <2>1, <2>2, <2>3, <2>4 DEF Next
<1>3. QED
  BY <1>1, <1>2, TypeCorrect, PTL DEF Spec

-----------------------------------------------------------------------------
(* Rotation, as an abstract specification promises it.                       *)

\* Every run of the service is a run of SessionRotation: creating issues a
\* reference, resuming rotates one, and every other step is a stutter.
THEOREM RotationIsImplemented == Spec => ImplementsRotation
<1>1. Init => Rotation!Init
  BY DEF Init, Rotation!Init, Lineage
<1>2. TypeOK /\ [Next]_vars => [Rotation!Next]_Lineage
  <2> SUFFICES ASSUME TypeOK, [Next]_vars
               PROVE  Rotation!Next \/ Lineage' = Lineage
    OBVIOUS
  <2>1. CASE CreateStep
    <3>1. PICK s \in SessionRefs, d \in CustomerSessionSnapshot :
            ~Issued(s) /\ sessions' = [sessions EXCEPT ![s] = d]
            /\ d.rotatedTo = None
      BY <2>1, NewSessionIsAlone
    <3>2. Lineage[s] = "unissued" /\ Lineage' = [Lineage EXCEPT ![s] = "active"]
      BY <3>1, RefAssumption DEF Lineage, Issued, TypeOK
    <3>3. QED
      BY <3>2 DEF Rotation!Next, Rotation!Issue
  <2>2. CASE ResumeStep
    <3>1. PICK s \in SessionRefs, fresh \in SessionRefs,
               old \in CustomerSessionSnapshot, new \in CustomerSessionSnapshot :
            /\ Issued(s) /\ ~Issued(fresh) /\ sessions[s].rotatedTo = None
            /\ sessions' = [sessions EXCEPT ![s] = old, ![fresh] = new]
            /\ old.rotatedTo = fresh /\ new.rotatedTo = None
      BY <2>2, RotationLinks
    <3>2. Lineage[s] = "active" /\ Lineage[fresh] = "unissued"
      BY <3>1 DEF Lineage, Issued
    <3>3. Lineage' = [Lineage EXCEPT ![s] = fresh, ![fresh] = "active"]
      BY <3>1, RefAssumption DEF Lineage, Issued, TypeOK
    <3>4. QED
      BY <3>2, <3>3 DEF Rotation!Next, Rotation!Rotate
  <2>3. CASE InteractionStep
    <3>1. PICK s \in SessionRefs, d \in CustomerSessionSnapshot :
            /\ Issued(s)
            /\ sessions' = [sessions EXCEPT ![s] = d]
            /\ sessions[s].rotatedTo = d.rotatedTo
      BY <2>3, CanonicalType, CallHasEffect
         DEF InteractionStep, CallEffect, SameLinks
    <3>2. QED
      BY <3>1, RefAssumption DEF Lineage, Issued, TypeOK
  <2>4. CASE XbosStep \/ IdentityStep \/ Tick \/ UNCHANGED vars
    <3>1. sessions' = sessions
      BY <2>4 DEF XbosStep, IdentityStep, Tick, ReassignTable, IssueEvidence,
                  RegisterProjection, IssueIdentityBinding, storeVars, vars
    <3>2. QED
      BY <3>1 DEF Lineage
  <2>5. QED
    BY <2>1, <2>2, <2>3, <2>4 DEF Next
<1>3. QED
  BY <1>1, <1>2, TypeCorrect, PTL DEF Spec, ImplementsRotation, Rotation!Spec

-----------------------------------------------------------------------------
(* What a reference stands for, and how often it moved.                      *)

\* No step changes what an issued reference stands for.
SameBehind(s) ==
  Issued(s) =>
    /\ Issued(s)'
    /\ BindingOf(s)' = BindingOf(s)
    /\ sessions'[s].secure = sessions[s].secure
    /\ sessions'[s].expires = sessions[s].expires
    /\ sessions'[s].conversation = sessions[s].conversation

LEMMA BindingIsKept ==
  ASSUME TypeOK, Next, NEW x \in SessionRefs, Issued(x)
  PROVE  SameBehind(x)
<1>0. sessions[x] \in CustomerSessionSnapshot
  BY DEF TypeOK, Issued, Opt
<1>1. CASE CreateStep
  <2>1. PICK s \in SessionRefs, d \in CustomerSessionSnapshot :
          ~Issued(s) /\ sessions' = [sessions EXCEPT ![s] = d]
    BY <1>1, NewSessionIsAlone
  <2>2. sessions'[x] = sessions[x]
    BY <2>1 DEF TypeOK
  <2>3. QED
    BY <2>2 DEF SameBehind, Issued, BindingOf
<1>2. CASE ResumeStep
  <2>1. PICK s \in SessionRefs, fresh \in SessionRefs,
             old \in CustomerSessionSnapshot, new \in CustomerSessionSnapshot :
          /\ ~Issued(fresh)
          /\ sessions' = [sessions EXCEPT ![s] = old, ![fresh] = new]
          /\ old.generation = sessions[s].generation
          /\ SameBinding(old, sessions[s])
    BY <1>2, RotationLinks
  <2>2. sessions'[x] = IF x = s THEN old ELSE sessions[x]
    BY <2>1 DEF TypeOK
  <2>3. old.secure \in BOOLEAN /\ sessions[x].secure \in BOOLEAN
    BY <1>0 DEF CustomerSessionSnapshot
  <2>4. QED
    BY <2>1, <2>2, <2>3, RefAssumption DEF SameBehind, Issued, BindingOf, SameBinding
<1>3. CASE InteractionStep
  <2>1. PICK s \in SessionRefs, d \in CustomerSessionSnapshot :
          /\ sessions' = [sessions EXCEPT ![s] = d]
          /\ SameLinks(sessions[s], d)
    BY <1>3, CanonicalType, CallHasEffect DEF InteractionStep, CallEffect
  <2>2. sessions'[x] = IF x = s THEN d ELSE sessions[x]
    BY <2>1 DEF TypeOK
  <2>3. QED
    BY <2>1, <2>2, RefAssumption DEF SameBehind, Issued, BindingOf, SameLinks
<1>4. CASE XbosStep \/ IdentityStep \/ Tick
  <2>1. sessions' = sessions
    BY <1>4 DEF XbosStep, IdentityStep, Tick, ReassignTable, IssueEvidence,
                RegisterProjection, IssueIdentityBinding, storeVars
  <2>2. QED
    BY <2>1 DEF SameBehind, Issued, BindingOf
<1>5. QED
  BY <1>1, <1>2, <1>3, <1>4 DEF Next

\* The customer, context and expiry behind an issued reference never change,
\* so a provenance record bound to them keeps its meaning.
THEOREM BindingIsImmutable == Spec => ImmutableBinding
<1>1. TypeOK /\ [Next]_vars => [\A s \in SessionRefs : SameBehind(s)]_vars
  BY BindingIsKept DEF SameBehind
<1>2. QED
  BY <1>1, TypeCorrect, PTL DEF Spec, ImmutableBinding, SameBehind

\* What the other stores say of a session: a legacy name and XBOS's projection
\* are of one that was issued, and an evidence record bears the very binding
\* its session has now, and a projection of its correlation.
LinksAreIssued ==
  /\ \A a \in Aliases : aliases[a] # None => Issued(aliases[a])
  /\ \A s \in SessionRefs :
       upstream[s] # None =>
         Issued(s) /\ upstream[s].correlation = sessions[s].correlation
  /\ \A r \in evidence :
       /\ Issued(r.binding.session)
       /\ r.binding = BindingOf(r.binding.session)
       /\ r.projection.correlation = r.binding.correlation

\* What a step adds to the other stores is of issued sessions; then so is all
\* of it, since no step changes what an issued reference stands for.
LEMMA LinksStep ==
  ASSUME TypeOK, Next, LinksAreIssued,
         \A a \in Aliases :
           aliases'[a] # aliases[a] => sessions'[aliases'[a]] # None,
         \A s \in SessionRefs :
           upstream'[s] # upstream[s] =>
             Issued(s) /\ upstream'[s].correlation = sessions[s].correlation,
         \A r \in evidence' :
           r \in evidence \/ \E s \in SessionRefs :
             /\ Issued(s) /\ r.binding = BindingOf(s)
             /\ r.projection.correlation = sessions[s].correlation
  PROVE  LinksAreIssued'
<1>1. \A s \in SessionRefs :
        Issued(s) => sessions'[s] # None /\ BindingOf(s)' = BindingOf(s)
  BY BindingIsKept DEF SameBehind, Issued
<1>2. \A s \in SessionRefs :
        Issued(s) => sessions'[s].correlation = sessions[s].correlation
  BY <1>1 DEF BindingOf
<1>3. ASSUME NEW a \in Aliases, aliases'[a] # None
      PROVE  sessions'[aliases'[a]] # None
  <2>1. CASE aliases'[a] = aliases[a]
    BY <1>1, <1>3, <2>1 DEF LinksAreIssued, TypeOK, Opt
  <2> QED BY <2>1
<1>4. ASSUME NEW s \in SessionRefs, upstream'[s] # None
      PROVE  sessions'[s] # None /\ upstream'[s].correlation = sessions'[s].correlation
  <2>1. Issued(s) /\ upstream'[s].correlation = sessions[s].correlation
    BY <1>4 DEF LinksAreIssued
  <2> QED BY <1>1, <1>2, <2>1
<1>5. ASSUME NEW r \in evidence'
      PROVE  /\ sessions'[r.binding.session] # None
             /\ r.binding = BindingOf(r.binding.session)'
             /\ r.projection.correlation = r.binding.correlation
  <2>1. PICK s \in SessionRefs :
          /\ s = r.binding.session /\ Issued(s) /\ r.binding = BindingOf(s)
          /\ r.projection.correlation = r.binding.correlation
    <3>1. CASE r \in evidence
      BY <3>1 DEF LinksAreIssued, TypeOK, SessionSecurityBinding
    <3>2. CASE r \notin evidence
      BY <3>2 DEF BindingOf
    <3> QED BY <3>1, <3>2
  <2>2. sessions'[s] # None /\ r.binding = BindingOf(s)'
    BY <1>1, <2>1
  <2> QED BY <2>1, <2>2
<1> QED BY <1>3, <1>4, <1>5 DEF LinksAreIssued, Issued

\* The stores agree with each other: nothing names a session that was not
\* issued, and a record of the provenance store never outlives the binding it
\* was issued for, whatever transitions and rotations follow.
THEOREM LinksLead == Spec => []LinksAreIssued
<1>1. Init => LinksAreIssued
  BY DEF Init, LinksAreIssued
<1>2. TypeOK /\ LinksAreIssued /\ [Next]_vars => LinksAreIssued'
  <2> SUFFICES ASSUME TypeOK, LinksAreIssued, Next
               PROVE  LinksAreIssued'
    BY DEF LinksAreIssued, vars, Issued, BindingOf
  <2>1. CASE UNCHANGED <<aliases, upstream, evidence>>
    BY <2>1, LinksStep
  <2>2. ASSUME NEW s \in SessionRefs, NEW alias, NEW conv \in Conversations,
               NEW corr \in Correlations, CreateLegacySession(s, alias, conv, corr)
        PROVE  LinksAreIssued'
    <3>1. UNCHANGED <<upstream, evidence>>
      BY <2>2 DEF CreateLegacySession, envVars
    <3>2. sessions'[s] # None
      BY <2>2, NewSessionType, RefAssumption DEF CreateLegacySession, TypeOK
    <3>3. \A a \in Aliases : aliases'[a] # aliases[a] => aliases'[a] = s
      BY <2>2 DEF CreateLegacySession
    <3> QED BY <3>1, <3>2, <3>3, LinksStep
  <2>3. ASSUME NEW s \in SessionRefs, NEW p \in Projections, IssueEvidence(s, p)
        PROVE  LinksAreIssued'
    <3>1. UNCHANGED <<aliases, upstream>> /\ Issued(s)
          /\ p.correlation = sessions[s].correlation
      BY <2>3 DEF IssueEvidence, storeVars
    <3>2. \A r \in evidence' :
            r \in evidence \/ r = [binding |-> BindingOf(s), projection |-> p]
      BY <2>3 DEF IssueEvidence
    <3>3. \A r \in evidence' :
            r \in evidence \/ (/\ r.binding = BindingOf(s)
                             /\ r.projection.correlation = sessions[s].correlation)
      BY <3>1, <3>2
    <3> QED BY <3>1, <3>3, LinksStep
  <2>4. ASSUME NEW s \in SessionRefs, NEW p \in Projections, RegisterProjection(s, p)
        PROVE  LinksAreIssued'
    <3>1. UNCHANGED <<aliases, evidence>> /\ Issued(s)
          /\ p.correlation = sessions[s].correlation
      BY <2>4 DEF RegisterProjection, storeVars
    <3>2. \A x \in SessionRefs : upstream'[x] = IF x = s THEN p ELSE upstream[x]
      BY <2>4 DEF RegisterProjection, TypeOK
    <3> QED BY <3>1, <3>2, LinksStep
  <2>5. CASE CreateStep
    <3>1. ASSUME NEW s \in SessionRefs, NEW b, NEW conv, NEW corr, NEW expires,
                 CreateSession(s, b, conv, corr, expires)
          PROVE  LinksAreIssued'
      BY <2>1, <3>1 DEF CreateSession, envVars
    <3> QED BY <2>2, <2>5, <3>1 DEF CreateStep
  <2>6. CASE ResumeStep
    BY <2>1, <2>6 DEF ResumeStep, ResumeSession, envVars
  <2>7. CASE InteractionStep
    BY <2>1, <2>7, CanonicalType, CallHasEffect DEF InteractionStep, envVars
  <2>8. CASE XbosStep
    BY <2>1, <2>3, <2>4, <2>8 DEF XbosStep, ReassignTable, storeVars
  <2>9. CASE IdentityStep \/ Tick
    BY <2>1, <2>9 DEF IdentityStep, IssueIdentityBinding, Tick, storeVars
  <2> QED BY <2>5, <2>6, <2>7, <2>8, <2>9 DEF Next
<1> QED BY <1>1, <1>2, TypeCorrect, PTL DEF Spec

\* An order or payment reference taken from evidence is never replaced or
\* dropped, and a successor starts where its predecessor stood (with_evidence,
\* resume_session).
THEOREM ReferencesKept == Spec => ReferencesAreKept
<1> DEFINE Kept(s) ==
      Issued(s) =>
        /\ sessions[s].order # None => sessions'[s].order = sessions[s].order
        /\ sessions[s].payment # None => sessions'[s].payment = sessions[s].payment
        /\ ~Rotated(sessions[s]) /\ Rotated(sessions'[s]) =>
             LET successor == sessions'[sessions'[s].rotatedTo] IN
             /\ successor.order = sessions[s].order
             /\ successor.payment = sessions[s].payment
             /\ successor.state = sessions[s].state
<1>1. TypeOK /\ [Next]_vars => [\A s \in SessionRefs : Kept(s)]_vars
  <2> SUFFICES ASSUME TypeOK, Next, NEW x \in SessionRefs, Issued(x)
               PROVE  Kept(x)
    BY DEF Kept
  <2>1. CASE CreateStep
    <3>1. PICK s \in SessionRefs, d \in CustomerSessionSnapshot :
            ~Issued(s) /\ sessions' = [sessions EXCEPT ![s] = d]
      BY <2>1, NewSessionIsAlone
    <3>2. sessions'[x] = sessions[x]
      BY <3>1 DEF TypeOK
    <3>3. QED
      BY <3>2
  <2>2. CASE ResumeStep
    <3>1. PICK s \in SessionRefs, fresh \in SessionRefs,
               old \in CustomerSessionSnapshot, new \in CustomerSessionSnapshot :
            /\ Issued(s) /\ ~Issued(fresh)
            /\ sessions' = [sessions EXCEPT ![s] = old, ![fresh] = new]
            /\ old.rotatedTo = fresh
            /\ \A d \in {old, new} :
                 /\ d.state = sessions[s].state /\ d.order = sessions[s].order
                 /\ d.payment = sessions[s].payment
      BY <2>2, RotationLinks
    <3>2. /\ sessions'[x] = IF x = s THEN old ELSE sessions[x]
          /\ sessions'[fresh] = new
      BY <3>1 DEF TypeOK
    <3>3. CASE x = s
      BY <3>1, <3>2, <3>3
    <3>4. CASE x # s
      BY <3>2, <3>4
    <3>5. QED
      BY <3>3, <3>4
  <2>3. CASE InteractionStep
    <3>1. PICK s \in SessionRefs, d \in CustomerSessionSnapshot :
            /\ sessions' = [sessions EXCEPT ![s] = d]
            /\ SameLinks(sessions[s], d) /\ SameReferences(sessions[s], d)
      BY <2>3, CanonicalType, CallHasEffect DEF InteractionStep, CallEffect
    <3>2. sessions'[x] = IF x = s THEN d ELSE sessions[x]
      BY <3>1 DEF TypeOK
    <3>3. QED
      BY <3>1, <3>2 DEF SameLinks, SameReferences, Rotated
  <2>4. CASE XbosStep \/ IdentityStep \/ Tick
    <3>1. sessions' = sessions
      BY <2>4 DEF XbosStep, IdentityStep, Tick, ReassignTable, IssueEvidence,
                  RegisterProjection, IssueIdentityBinding, storeVars
    <3>2. QED
      BY <3>1
  <2>5. QED
    BY <2>1, <2>2, <2>3, <2>4 DEF Next
<1>2. QED
  BY <1>1, TypeCorrect, PTL DEF Spec, ReferencesAreKept, Kept

\* The matrix has no way out of a finished conversation: only XBOS's projection
\* of its order, applied by a re-entry, reopens one (transition, reenter).
THEOREM ReopenedByXbos == Spec => ReopenedByXbosOnly
<1> DEFINE Stays(s) ==
      Issued(s) /\ sessions[s].state \in {"completed", "canceled"} =>
        \/ sessions'[s].state = sessions[s].state
        \/ /\ upstream[s] # None
           /\ sessions'[s].state = StateFromProjection(upstream[s])
           /\ sessions'[s].evidence = upstream[s].ref
           /\ sessions'[s].count = sessions[s].count
<1>1. TypeOK /\ [Next]_vars => [\A s \in SessionRefs : Stays(s)]_vars
  <2> SUFFICES ASSUME TypeOK, Next, NEW x \in SessionRefs, Issued(x),
                      sessions[x].state \in {"completed", "canceled"}
               PROVE  Stays(x)
    BY DEF Stays
  <2>1. CASE CreateStep
    <3>1. PICK s \in SessionRefs, d \in CustomerSessionSnapshot :
            ~Issued(s) /\ sessions' = [sessions EXCEPT ![s] = d]
      BY <2>1, NewSessionIsAlone
    <3>2. sessions'[x] = sessions[x]
      BY <3>1 DEF TypeOK
    <3>3. QED
      BY <3>2
  <2>2. CASE ResumeStep
    <3>1. PICK s \in SessionRefs, fresh \in SessionRefs,
               old \in CustomerSessionSnapshot, new \in CustomerSessionSnapshot :
            /\ ~Issued(fresh)
            /\ sessions' = [sessions EXCEPT ![s] = old, ![fresh] = new]
            /\ old.state = sessions[s].state
      BY <2>2, RotationLinks
    <3>2. sessions'[x] = IF x = s THEN old ELSE sessions[x]
      BY <3>1 DEF TypeOK
    <3>3. QED
      BY <3>1, <3>2
  <2>3. CASE InteractionStep
    <3>1. PICK s \in SessionRefs, d \in CustomerSessionSnapshot :
            /\ sessions' = [sessions EXCEPT ![s] = d]
            /\ Relabelled(s, sessions[s], d)
      BY <2>3, CanonicalType, CallHasEffect DEF InteractionStep, CallEffect
    <3>2. sessions'[x] = IF x = s THEN d ELSE sessions[x]
      BY <3>1 DEF TypeOK
    <3>3. Transitions[sessions[x].state] = {}
      BY DEF Transitions
    <3>4. QED
      BY <3>1, <3>2, <3>3 DEF Relabelled
  <2>4. CASE XbosStep \/ IdentityStep \/ Tick
    <3>1. sessions' = sessions
      BY <2>4 DEF XbosStep, IdentityStep, Tick, ReassignTable, IssueEvidence,
                  RegisterProjection, IssueIdentityBinding, storeVars
    <3>2. QED
      BY <3>1
  <2>5. QED
    BY <2>1, <2>2, <2>3, <2>4 DEF Next
<1>2. QED
  BY <1>1, TypeCorrect, PTL DEF Spec, ReopenedByXbosOnly, Stays

\* OneMovePerKey is inductive with the chains, and with what recorded keys are:
\* finitely many, and none before the session exists.
KeysRecorded ==
  \A s \in SessionRefs :
    IsFiniteSet(idempotent[s]) /\ (~Issued(s) => idempotent[s] = {})

LEMMA KeyStep ==
  ASSUME TypeOK, RotationChain, KeysRecorded, OneMovePerKey, [Next]_vars
  PROVE  KeysRecorded' /\ OneMovePerKey'
<1> DEFINE Inherited(x) == IF sessions[x].predecessor = None THEN 0
                           ELSE sessions[sessions[x].predecessor].count
<1>0. \A x \in SessionRefs :
        Issued(x) => /\ sessions[x] \in CustomerSessionSnapshot
                     /\ sessions[x].count = Cardinality(idempotent[x]) + Inherited(x)
  BY DEF OneMovePerKey, TypeOK, Issued, Opt
<1>1. CASE CreateStep
  <2>1. PICK s \in SessionRefs, d \in CustomerSessionSnapshot :
          /\ ~Issued(s)
          /\ sessions' = [sessions EXCEPT ![s] = d]
          /\ d.predecessor = None /\ d.count = 0
          /\ idempotent' = idempotent
    BY <1>1, NewSessionIsAlone
  <2>2. ASSUME NEW x \in SessionRefs, Issued(x)'
        PROVE  sessions'[x].count = Cardinality(idempotent'[x]) + Inherited(x)'
    <3>1. CASE x = s
      BY <2>1, <3>1, FS_EmptySet DEF KeysRecorded, TypeOK
    <3>2. CASE x # s
      <4>1. sessions'[x] = sessions[x] /\ Issued(x)
        BY <2>1, <2>2, <3>2 DEF TypeOK, Issued
      <4>2. CASE sessions[x].predecessor = None
        BY <1>0, <2>1, <4>1, <4>2
      <4>3. CASE sessions[x].predecessor # None
        <5>1. sessions[x].predecessor \in SessionRefs \ {s}
          BY <1>0, <2>1, <4>1, <4>3
             DEF RotationChain, Predecessors, CustomerSessionSnapshot, Opt
        <5>2. QED
          BY <1>0, <2>1, <4>1, <4>3, <5>1 DEF TypeOK
      <4>4. QED
        BY <4>2, <4>3
    <3>3. QED
      BY <3>1, <3>2
  <2>3. QED
    BY <2>1, <2>2 DEF KeysRecorded, OneMovePerKey, Issued, TypeOK
<1>2. CASE ResumeStep
  <2>1. PICK s \in SessionRefs, fresh \in SessionRefs,
             old \in CustomerSessionSnapshot, new \in CustomerSessionSnapshot :
          /\ Issued(s) /\ ~Issued(fresh)
          /\ sessions' = [sessions EXCEPT ![s] = old, ![fresh] = new]
          /\ old.predecessor = sessions[s].predecessor
          /\ new.predecessor = s
          /\ old.count = sessions[s].count /\ new.count = sessions[s].count
          /\ idempotent' = idempotent
    BY <1>2, RotationLinks DEF envVars
  <2>2. /\ sessions'[s] = old /\ sessions'[fresh] = new /\ s # fresh
        /\ \A x \in SessionRefs \ {s, fresh} : sessions'[x] = sessions[x]
    BY <2>1 DEF TypeOK
  <2>3. ASSUME NEW x \in SessionRefs, Issued(x), sessions[x].predecessor # None
        PROVE  /\ sessions[x].predecessor \in SessionRefs \ {fresh}
               /\ sessions'[sessions[x].predecessor].count
                    = sessions[sessions[x].predecessor].count
    <3>1. sessions[x].predecessor \in SessionRefs \ {fresh}
      BY <1>0, <2>1, <2>3
         DEF RotationChain, Predecessors, CustomerSessionSnapshot, Opt
    <3>2. QED
      BY <2>1, <2>2, <3>1
  <2>4. ASSUME NEW x \in SessionRefs, Issued(x)'
        PROVE  sessions'[x].count = Cardinality(idempotent'[x]) + Inherited(x)'
    <3>1. CASE x = fresh
      <4>1. Cardinality(idempotent'[x]) = 0
        BY <2>1, <3>1, FS_EmptySet DEF KeysRecorded
      <4>2. new.count \in Nat
        BY DEF CustomerSessionSnapshot
      <4>3. QED
        BY <2>1, <2>2, <3>1, <4>1, <4>2, RefAssumption
    <3>2. CASE x # fresh
      <4>1. Issued(x) /\ sessions'[x].count = sessions[x].count
            /\ sessions'[x].predecessor = sessions[x].predecessor
        BY <2>1, <2>2, <2>4, <3>2 DEF Issued
      <4>2. Inherited(x)' = Inherited(x)
        BY <2>3, <4>1
      <4> HIDE DEF Inherited
      <4>3. QED
        BY <1>0, <2>1, <4>1, <4>2
    <3>3. QED
      BY <3>1, <3>2
  <2>5. KeysRecorded'
    BY <2>1, <2>2, RefAssumption DEF KeysRecorded, Issued
  <2>6. QED
    BY <2>4, <2>5 DEF OneMovePerKey
<1>3. CASE InteractionStep
  <2>1. PICK s \in SessionRefs, d \in CustomerSessionSnapshot :
          /\ Issued(s)
          /\ sessions' = [sessions EXCEPT ![s] = d]
          /\ SameLinks(sessions[s], d)
          /\ Counted(s, sessions[s], d)
    BY <1>3, CanonicalType, CallHasEffect DEF InteractionStep, CallEffect
  <2>2. /\ sessions'[s] = d /\ d.predecessor = sessions[s].predecessor
        /\ \A x \in SessionRefs \ {s} : sessions'[x] = sessions[x]
        /\ \A x \in SessionRefs : Issued(x)' <=> Issued(x)
    BY <2>1, RefAssumption DEF TypeOK, Issued, SameLinks
  <2>3. CASE d.count = sessions[s].count /\ idempotent' = idempotent
    <3>1. \A x \in SessionRefs : Issued(x) =>
            /\ sessions'[x].count = sessions[x].count
            /\ sessions'[x].predecessor = sessions[x].predecessor
      BY <2>2, <2>3
    <3>2. ASSUME NEW x \in SessionRefs, Issued(x)
          PROVE  Inherited(x)' = Inherited(x)
      <4>1. sessions[x].predecessor # None
              => sessions[x].predecessor \in SessionRefs
                 /\ Issued(sessions[x].predecessor)
        BY <3>2, <1>0 DEF RotationChain, Predecessors, CustomerSessionSnapshot, Opt
      <4>2. QED
        BY <3>1, <3>2, <4>1
    <3>3. QED
      BY <1>0, <2>2, <2>3, <3>1, <3>2 DEF KeysRecorded, OneMovePerKey
  <2>4. CASE /\ ~Rotated(sessions[s])
             /\ d.count = sessions[s].count + 1
             /\ \E key \in Keys \ idempotent[s] :
                  idempotent' = [idempotent EXCEPT ![s] = @ \cup {key}]
    <3>1. PICK key \in Keys \ idempotent[s] :
            idempotent' = [idempotent EXCEPT ![s] = @ \cup {key}]
      BY <2>4
    <3>2. /\ IsFiniteSet(idempotent'[s])
          /\ Cardinality(idempotent'[s]) = Cardinality(idempotent[s]) + 1
          /\ Cardinality(idempotent[s]) \in Nat
          /\ \A x \in SessionRefs \ {s} : idempotent'[x] = idempotent[x]
      BY <3>1, FS_AddElement, FS_CardinalityType DEF KeysRecorded, TypeOK
    <3>3. KeysRecorded'
      BY <2>1, <2>2, <3>2 DEF KeysRecorded
    <3>4. ASSUME NEW x \in SessionRefs, Issued(x), sessions[x].predecessor # None
          PROVE  /\ sessions[x].predecessor \in SessionRefs \ {s}
                 /\ sessions'[sessions[x].predecessor].count
                      = sessions[sessions[x].predecessor].count
      <4>1. sessions[x].predecessor \in SessionRefs
            /\ Issued(sessions[x].predecessor)
            /\ sessions[sessions[x].predecessor].rotatedTo = x
        BY <3>4, <1>0 DEF RotationChain, Predecessors, CustomerSessionSnapshot, Opt
      <4>2. sessions[x].predecessor # s
        BY <2>4, <4>1, RefAssumption DEF Rotated
      <4>3. QED
        BY <2>2, <4>1, <4>2
    <3>5. ASSUME NEW x \in SessionRefs, Issued(x)
          PROVE  /\ Inherited(x)' = Inherited(x) /\ Inherited(x) \in Nat
      <4>1. CASE sessions[x].predecessor = None
        BY <2>2, <4>1
      <4>2. CASE sessions[x].predecessor # None
        <5>1. sessions'[x].predecessor = sessions[x].predecessor
          BY <2>2
        <5>2. sessions[sessions[x].predecessor].count \in Nat
          BY <1>0, <3>5, <4>2
             DEF RotationChain, Predecessors, CustomerSessionSnapshot, Opt
        <5>3. QED
          BY <3>4, <3>5, <4>2, <5>1, <5>2
      <4>3. QED
        BY <4>1, <4>2
    <3>6. ASSUME NEW x \in SessionRefs, Issued(x)
          PROVE  sessions'[x].count = Cardinality(idempotent'[x]) + Inherited(x)'
      <4>1. CASE x = s
        <5>1. sessions'[s].count = sessions[s].count + 1
          BY <2>2, <2>4
        <5>2. sessions[s].count = Cardinality(idempotent[s]) + Inherited(s)
              /\ Inherited(s)' = Inherited(s) /\ Inherited(s) \in Nat
          BY <1>0, <2>1, <3>5
        <5> HIDE DEF Inherited
        <5>3. QED
          BY <3>2, <4>1, <5>1, <5>2
      <4>2. CASE x # s
        BY <1>0, <2>2, <3>2, <3>5, <3>6, <4>2
      <4>3. QED
        BY <4>1, <4>2
    <3>7. QED
      BY <2>2, <3>3, <3>6 DEF OneMovePerKey
  <2>5. QED
    BY <2>1, <2>3, <2>4 DEF Counted
<1>4. CASE XbosStep \/ IdentityStep \/ Tick \/ UNCHANGED vars
  <2>1. sessions' = sessions /\ idempotent' = idempotent
    BY <1>4 DEF XbosStep, IdentityStep, Tick, ReassignTable, IssueEvidence,
                RegisterProjection, IssueIdentityBinding, storeVars, vars
  <2>2. QED
    BY <2>1 DEF KeysRecorded, OneMovePerKey, Issued
<1>5. QED
  BY <1>1, <1>2, <1>3, <1>4 DEF Next

\* Retrying a transition with a recorded key never moves the session a second
\* time: its count is inherited plus one per key (transition with
\* idempotent_result and record_idempotent_result).
THEOREM KeysMoveOnce == Spec => []OneMovePerKey
<1>1. Init => KeysRecorded /\ OneMovePerKey
  BY FS_EmptySet DEF Init, KeysRecorded, OneMovePerKey, Issued
<1>2. QED
  BY <1>1, KeyStep, TypeCorrect, RotationIsChained, PTL DEF Spec
=============================================================================
