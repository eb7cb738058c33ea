-------------------------- MODULE CustomerSessions ---------------------------
(* CustomerSessionService over its in-memory stores, one public call at a    *)
(* time: create, resume with rotation, attach, transition, re-enter.  What   *)
(* two calls do when they run at once is SessionThreads.  XBOS (context,     *)
(* state projections), the identity-binding issuer and the clock are         *)
(* environment actions.  A call the code rejects changes nothing and is not  *)
(* an action, except the rejected legacy alias, which does store a session.  *)
(* A definition marked "variant" is a faulty form of the one after it, used  *)
(* only to show that a property would notice the fault.                      *)
EXTENDS Naturals, FiniteSets, ChannelStates

CONSTANTS
  SessionRefs,      \* server-issued "sess_..." references
  Aliases,          \* caller-chosen fixture names of legacy sessions
  Identities, Conversations, Correlations, Tables,
  Keys,             \* idempotency keys of transition
  Projections,      \* the projections XBOS may make
  CartRefs, QuoteRefs, HandoffRefs,
  MaxTime,          \* bound on the clock
  MaxVersion,       \* bound on the reassignments of a table
  MaxCreated,       \* bound on the sessions created other than by rotation
  MaxBindings,      \* bound on the identity bindings issued
  MaxEvidence       \* bound on the evidence handles issued

Opt(S) == S \cup {None}

\* The bound XBOS context: tenant, merchant, location, area and purpose are
\* functions of the table; version is the suffix of context_binding_ref.
Contexts == [table : Tables, version : Nat]

OrderRefs    == {p.order : p \in Projections} \ {None}
PaymentRefs  == {p.payment : p \in Projections} \ {None}
EvidenceRefs == {p.ref : p \in Projections}

CustomerSessionSnapshot ==
  [conversation  : Conversations, correlation : Correlations,
   state         : ChannelState,
   secure        : BOOLEAN,          \* security_binding_complete
   owner         : Opt(Identities),  entry      : Opt(Contexts),
   expires       : Opt(Nat),         generation : Nat,
   predecessor   : Opt(SessionRefs), rotatedTo  : Opt(SessionRefs),
   invalidatedAt : Opt(Nat),
   cart          : Opt(CartRefs),    quote      : Opt(QuoteRefs),
   order         : Opt(OrderRefs),   payment    : Opt(PaymentRefs),
   evidence      : Opt(EvidenceRefs), handoff   : Opt(HandoffRefs),
   count         : Nat]              \* transition_count

UpstreamStateProjection ==
  [ref : {p.ref : p \in Projections}, correlation : Correlations,
   order : Opt(OrderRefs), payment : Opt(PaymentRefs),
   orderState : Opt(OrderState), paymentState : Opt(PaymentState),
   fulfillment : Opt(FulfillmentState)]

IdentityBinding ==
  [identity : Identities, conversation : Conversations, entry : Contexts,
   expires : Nat]

SessionSecurityBinding ==
  [session : SessionRefs, generation : Nat, owner : Opt(Identities),
   entry : Opt(Contexts), correlation : Correlations]

ASSUME RefAssumption ==
  /\ None \notin SessionRefs \cup Aliases \cup Identities \cup Nat
                 \cup Contexts \cup CustomerSessionSnapshot \cup Projections
  /\ SessionRefs \cap Aliases = {}
  /\ {"unissued", "active"} \cap SessionRefs = {}

ASSUME ProjectionAssumption ==
  /\ Projections \subseteq UpstreamStateProjection
  /\ \A p, q \in Projections : p.ref = q.ref => p = q

ASSUME BoundAssumption ==
  MaxTime \in Nat /\ MaxVersion \in Nat /\ MaxCreated \in Nat
  /\ MaxBindings \in Nat /\ MaxEvidence \in Nat

VARIABLES
  sessions,         \* _sessions: what the store holds under each reference
  aliases,          \* _aliases: legacy name -> reference
  idempotent,       \* _idempotent_results: the keys recorded for a session
  bindings,         \* identity bindings the identity service has issued
  evidence,         \* evidence records of the provenance store
  upstream,         \* XBOS's projection for a session, as reconciliation sees it
  contextVersion,   \* XBOS: the current binding version of each table
  now

storeVars == <<sessions, aliases, idempotent>>
envVars   == <<bindings, evidence, upstream, contextVersion, now>>
vars      == <<sessions, aliases, idempotent, bindings, evidence, upstream,
               contextVersion, now>>

TypeOK ==
  /\ sessions \in [SessionRefs -> Opt(CustomerSessionSnapshot)]
  /\ aliases \in [Aliases -> Opt(SessionRefs)]
  /\ idempotent \in [SessionRefs -> SUBSET Keys]
  /\ bindings \subseteq IdentityBinding
  /\ evidence \subseteq [binding : SessionSecurityBinding,
                         projection : Projections]
  /\ upstream \in [SessionRefs -> Opt(Projections)]
  /\ contextVersion \in [Tables -> Nat]
  /\ now \in Nat

-----------------------------------------------------------------------------
Issued(s)  == sessions[s] # None
Rotated(c) == c.invalidatedAt # None \/ c.rotatedTo # None

Names == SessionRefs \cup Aliases

\* The reference a caller's name stands for: an alias, else itself; None when
\* the name is an alias nobody registered.
Canonical(n) == IF n \in Aliases THEN aliases[n] ELSE n

\* attest_context answers with the table's current binding.
Attested(c) == contextVersion[c.table] = c.version

BindingOf(s) ==
  [session |-> s, generation |-> sessions[s].generation,
   owner |-> sessions[s].owner, entry |-> sessions[s].entry,
   correlation |-> sessions[s].correlation]

NewSession(conv, corr) ==
  [conversation |-> conv, correlation |-> corr, state |-> "start",
   secure |-> FALSE, owner |-> None, entry |-> None, expires |-> None,
   generation |-> 0, predecessor |-> None, rotatedTo |-> None,
   invalidatedAt |-> None, cart |-> None, quote |-> None, order |-> None,
   payment |-> None, evidence |-> None, handoff |-> None, count |-> 0]

Init ==
  /\ sessions = [s \in SessionRefs |-> None]
  /\ aliases = [a \in Aliases |-> None]
  /\ idempotent = [s \in SessionRefs |-> {}]
  /\ bindings = {}
  /\ evidence = {}
  /\ upstream = [s \in SessionRefs |-> None]
  /\ contextVersion = [t \in Tables |-> 1]
  /\ now = 0

-----------------------------------------------------------------------------
(* create_session, the secure path: an identity binding and a resolved entry *)
(* context that agree with each other, with the conversation and with XBOS.  *)
Admits(b, conv, expires) ==
  /\ now < expires
  /\ now < b.expires
  /\ b.conversation = conv
  /\ expires <= b.expires

CreateSession(s, b, conv, corr, expires) ==
  /\ ~Issued(s)
  /\ Attested(b.entry)
  /\ Admits(b, conv, expires)
  /\ sessions' = [sessions EXCEPT ![s] =
       [NewSession(conv, corr) EXCEPT
          !.secure = TRUE, !.owner = b.identity, !.entry = b.entry,
          !.expires = expires]]
  /\ UNCHANGED <<aliases, idempotent, envVars>>

(* create_session, the historical path.  The session is stored before the    *)
(* alias is examined: a taken alias raises and leaves the session behind.    *)
CreateLegacySession(s, alias, conv, corr) ==
  /\ ~Issued(s)
  /\ sessions' = [sessions EXCEPT ![s] = NewSession(conv, corr)]
  /\ aliases' = [a \in Aliases |->
       IF a = alias /\ aliases[a] = None THEN s ELSE aliases[a]]
  /\ UNCHANGED <<idempotent, envVars>>

(* resume_session: every check, then rotate_if_active, which invalidates the *)
(* predecessor and stores its copy under a new reference.                    *)
MayResume(s, b) ==
  LET current == sessions[s] IN
  /\ current.secure
  /\ now < b.expires
  /\ b.identity = current.owner
  /\ b.conversation = current.conversation
  /\ b.entry = current.entry
  /\ now < current.expires
  /\ ~Rotated(current)
  /\ Attested(current.entry)

Replacement(current, s) ==
  [current EXCEPT !.predecessor = s, !.rotatedTo = None,
                  !.invalidatedAt = None, !.generation = @ + 1]

InvalidatedAndAged(current, fresh) ==   \* variant: ages the predecessor too
  [current EXCEPT !.invalidatedAt = now, !.rotatedTo = fresh,
                  !.generation = @ + 1]

Invalidated(current, fresh) ==
  [current EXCEPT !.invalidatedAt = now, !.rotatedTo = fresh]

ResumeSession(s, b, fresh) ==
  /\ Issued(s) /\ ~Issued(fresh)
  /\ MayResume(s, b)
  /\ sessions' = [sessions EXCEPT
       ![s] = Invalidated(sessions[s], fresh),
       ![fresh] = Replacement(sessions[s], s)]
  /\ UNCHANGED <<aliases, idempotent, envVars>>

(* attach_interaction_refs: a missing argument keeps the old reference.      *)
AttachInteractionRefs(s, cart, quote) ==
  /\ Issued(s)
  /\ sessions' = [sessions EXCEPT
       ![s].cart  = IF cart = None THEN @ ELSE cart,
       ![s].quote = IF quote = None THEN @ ELSE quote]
  /\ UNCHANGED <<aliases, idempotent, envVars>>

-----------------------------------------------------------------------------
(* Evidence.  A handle resolves to the record issued for exactly this        *)
(* session binding; without a handle the reconciliation port is asked.       *)
ServerResolved(s) ==
  {r.projection : r \in {x \in evidence : x.binding = BindingOf(s)}}
    \cup ({upstream[s]} \ {None})

MatchesCorrelation(current, p) ==   \* variant: any order of the correlation
  p.correlation = current.correlation

MatchesSession(current, p) ==
  /\ p.correlation = current.correlation
  /\ current.order = None \/ p.order = None \/ p.order = current.order
  /\ current.payment = None \/ p.payment = None \/ p.payment = current.payment

WithReferences(current, p) ==   \* variant: does not record the evidence
  [current EXCEPT !.order    = IF p.order = None THEN @ ELSE p.order,
                  !.payment  = IF p.payment = None THEN @ ELSE p.payment]

WithEvidenceAnew(current, p) ==   \* variant: forgets that it was rotated
  [current EXCEPT !.order    = IF p.order = None THEN @ ELSE p.order,
                  !.payment  = IF p.payment = None THEN @ ELSE p.payment,
                  !.evidence = p.ref,
                  !.rotatedTo = None, !.invalidatedAt = None]

WithEvidence(current, p) ==
  [current EXCEPT !.order    = IF p.order = None THEN @ ELSE p.order,
                  !.payment  = IF p.payment = None THEN @ ELSE p.payment,
                  !.evidence = p.ref]

(* transition: a recorded key answers with the earlier result and changes    *)
(* nothing; otherwise the matrix, the evidence gate, one put and one record. *)
MayTransitionAnew(s, target, key) ==   \* variant: ignores recorded keys
  Issued(s) /\ ~Rotated(sessions[s])
  /\ target \in Transitions[sessions[s].state]

MayTransitionAnywhere(s, target, key) ==   \* variant: ignores the matrix
  Issued(s) /\ key \notin idempotent[s] /\ ~Rotated(sessions[s])

MayTransition(s, target, key) ==
  /\ Issued(s)
  /\ key \notin idempotent[s]
  /\ ~Rotated(sessions[s])
  /\ target \in Transitions[sessions[s].state]

Moved(current, target, handoff) ==
  [current EXCEPT !.state = target, !.count = @ + 1,
                  !.handoff = IF target = "human_handoff" THEN handoff ELSE @]

Record(s, key, updated) ==
  /\ sessions' = [sessions EXCEPT ![s] = updated]
  /\ idempotent' = [idempotent EXCEPT ![s] = @ \cup {key}]
  /\ UNCHANGED <<aliases, envVars>>

Transition(s, target, key, handoff) ==
  /\ MayTransition(s, target, key)
  /\ target \notin EvidenceGated
  /\ Record(s, key, Moved(sessions[s], target, handoff))

TransitionOnEvidence(s, target, key, p) ==
  /\ MayTransition(s, target, key)
  /\ target \in EvidenceGated
  /\ p \in ServerResolved(s)
  /\ MatchesSession(sessions[s], p)
  /\ Supports(target, p)
  /\ Record(s, key, Moved(WithEvidence(sessions[s], p), target, None))

(* reenter: a session that asserts or references an XBOS fact takes the      *)
(* state XBOS projects.  The code does not ask whether it was rotated, has   *)
(* expired or is terminal.                                                   *)
MayReenter(s) ==
  /\ Issued(s)
  /\ \/ sessions[s].state \in EvidenceGated
     \/ sessions[s].order # None
     \/ sessions[s].payment # None
  /\ upstream[s] # None
  /\ MatchesSession(sessions[s], upstream[s])
  /\ StateFromProjection(upstream[s]) # None

Reenter(s) ==
  /\ MayReenter(s)
  /\ sessions' = [sessions EXCEPT ![s] =
       [WithEvidence(sessions[s], upstream[s]) EXCEPT
          !.state = StateFromProjection(upstream[s])]]
  /\ UNCHANGED <<aliases, idempotent, envVars>>

-----------------------------------------------------------------------------
(* Environment.                                                              *)
Tick ==
  /\ now < MaxTime
  /\ now' = now + 1
  /\ UNCHANGED <<storeVars, bindings, evidence, upstream, contextVersion>>

ReassignTable(t) ==
  /\ contextVersion[t] < MaxVersion
  /\ contextVersion' = [contextVersion EXCEPT ![t] = @ + 1]
  /\ UNCHANGED <<storeVars, bindings, evidence, upstream, now>>

\* The entry context of a binding was resolved then or earlier, so its version
\* is the table's current one or an older one.
IssueIdentityBinding(identity, conv, entry, expires) ==
  /\ entry.version \in 1..contextVersion[entry.table]
  /\ now < expires
  /\ Cardinality(bindings) < MaxBindings
  /\ bindings' = bindings \cup {[identity |-> identity, conversation |-> conv,
                                 entry |-> entry, expires |-> expires]}
  /\ UNCHANGED <<storeVars, evidence, upstream, contextVersion, now>>

IssueEvidence(s, p) ==
  /\ Issued(s)
  /\ p.correlation = sessions[s].correlation
  /\ Cardinality(evidence) < MaxEvidence
  /\ evidence' = evidence \cup {[binding |-> BindingOf(s), projection |-> p]}
  /\ UNCHANGED <<storeVars, bindings, upstream, contextVersion, now>>

RegisterProjection(s, p) ==
  /\ Issued(s)
  /\ p.correlation = sessions[s].correlation
  /\ upstream' = [upstream EXCEPT ![s] = p]
  /\ UNCHANGED <<storeVars, bindings, evidence, contextVersion, now>>

Created == {s \in SessionRefs : Issued(s) /\ sessions[s].predecessor = None}

CreateStep ==
  /\ Cardinality(Created) < MaxCreated
  /\ \E s \in SessionRefs, conv \in Conversations, corr \in Correlations :
       \/ \E b \in bindings, expires \in 1..MaxTime :
            CreateSession(s, b, conv, corr, expires)
       \/ \E alias \in Opt(Aliases) : CreateLegacySession(s, alias, conv, corr)

ResumeStep ==
  \E s, fresh \in SessionRefs, b \in bindings : ResumeSession(s, b, fresh)

\* The calls that accept an alias as well as a reference.
CallOn(s) ==
  \/ \E cart \in Opt(CartRefs), quote \in Opt(QuoteRefs) :
       AttachInteractionRefs(s, cart, quote)
  \/ \E target \in ChannelState, key \in Keys, handoff \in Opt(HandoffRefs) :
       Transition(s, target, key, handoff)
  \/ \E target \in EvidenceGated, key \in Keys, p \in Projections :
       TransitionOnEvidence(s, target, key, p)
  \/ Reenter(s)

InteractionStep ==
  \E n \in Names : Canonical(n) # None /\ CallOn(Canonical(n))

XbosStep ==
  \/ \E t \in Tables : ReassignTable(t)
  \/ \E s \in SessionRefs, p \in Projections :
       IssueEvidence(s, p) \/ RegisterProjection(s, p)

IdentityStep ==
  \E i \in Identities, conv \in Conversations, t \in Tables,
     v \in 1..MaxVersion, expires \in 1..MaxTime :
    IssueIdentityBinding(i, conv, [table |-> t, version |-> v], expires)

Next == CreateStep \/ ResumeStep \/ InteractionStep
          \/ XbosStep \/ IdentityStep \/ Tick

Spec == Init /\ [][Next]_vars
-----------------------------------------------------------------------------
(* Properties.                                                               *)

\* Rotation forms chains: a session is invalidated exactly when it names a
\* successor, the successor names it back as predecessor one generation
\* earlier, and both carry the same customer, conversation and context.  So no
\* predecessor is rotated twice and no legacy session is rotated at all
\* (resume_session, rotate_if_active).
SameBinding(c, d) ==
  /\ c.conversation = d.conversation /\ c.correlation = d.correlation
  /\ c.owner = d.owner /\ c.entry = d.entry /\ c.expires = d.expires
  /\ c.secure /\ d.secure

Successors(s) ==
  Issued(s) =>
    LET c == sessions[s] IN
    /\ (c.invalidatedAt = None) <=> (c.rotatedTo = None)
    /\ c.rotatedTo # None =>
         /\ Issued(c.rotatedTo)
         /\ sessions[c.rotatedTo].predecessor = s
         /\ sessions[c.rotatedTo].generation = c.generation + 1
         /\ SameBinding(c, sessions[c.rotatedTo])

Predecessors(s) ==
  Issued(s) /\ sessions[s].predecessor # None =>
    /\ Issued(sessions[s].predecessor)
    /\ sessions[sessions[s].predecessor].rotatedTo = s

RotationChain ==
  \A s \in SessionRefs : Successors(s) /\ Predecessors(s)

\* A session that shows an XBOS fact records the very projection that states
\* it: same correlation, no other order or payment, and supporting the label
\* shown, however transitions, re-entries and rotations are interleaved
\* (transition, reenter and the helpers they share).
Backed(c) ==
  c.state \in EvidenceGated =>
    \E p \in Projections :
      /\ p.ref = c.evidence
      /\ p.correlation = c.correlation
      /\ p.order \in {None, c.order}
      /\ p.payment \in {None, c.payment}
      /\ Supports(c.state, p)

EvidenceBacked ==
  \A s \in SessionRefs : Issued(s) => Backed(sessions[s])

\* Every idempotency key moved its session once: transition_count is what the
\* session inherited at rotation plus the number of its recorded keys.
OneMovePerKey ==
  \A s \in SessionRefs :
    Issued(s) =>
      sessions[s].count =
        Cardinality(idempotent[s]) +
          (IF sessions[s].predecessor = None THEN 0
           ELSE sessions[sessions[s].predecessor].count)

\* What a provenance record is bound to never changes under a reference, and a
\* secure session stays secure with the same expiry (CR1 "bind immutably to").
ImmutableBinding ==
  [][\A s \in SessionRefs :
       Issued(s) =>
         /\ Issued(s)'
         /\ BindingOf(s)' = BindingOf(s)
         /\ sessions'[s].secure = sessions[s].secure
         /\ sessions'[s].expires = sessions[s].expires
         /\ sessions'[s].conversation = sessions[s].conversation]_vars

\* An order or payment reference, once taken from evidence, is never replaced
\* or dropped, and a successor starts with its predecessor's.
ReferencesAreKept ==
  [][\A s \in SessionRefs :
       Issued(s) =>
         /\ sessions[s].order # None => sessions'[s].order = sessions[s].order
         /\ sessions[s].payment # None
              => sessions'[s].payment = sessions[s].payment
         /\ ~Rotated(sessions[s]) /\ Rotated(sessions'[s]) =>
              LET successor == sessions'[sessions'[s].rotatedTo] IN
              /\ successor.order = sessions[s].order
              /\ successor.payment = sessions[s].payment
              /\ successor.state = sessions[s].state]_vars

\* A completed or canceled conversation is reopened by nothing but XBOS's own
\* projection of its order, applied by a re-entry.
ReopenedByXbosOnly ==
  [][\A s \in SessionRefs :
       Issued(s) /\ sessions[s].state \in {"completed", "canceled"} =>
         \/ sessions'[s].state = sessions[s].state
         \/ /\ upstream[s] # None
            /\ sessions'[s].state = StateFromProjection(upstream[s])
            /\ sessions'[s].evidence = upstream[s].ref
            /\ sessions'[s].count = sessions[s].count]_vars

\* The references alone behave as the abstract rotation promises.
Lineage ==
  [s \in SessionRefs |->
     IF sessions[s] = None THEN "unissued"
     ELSE IF sessions[s].rotatedTo = None THEN "active"
     ELSE sessions[s].rotatedTo]

Rotation ==
  INSTANCE SessionRotation WITH
    Unissued <- "unissued", Active <- "active", lineage <- Lineage

ImplementsRotation == Rotation!Spec
=============================================================================
