--------------------------- MODULE IdentityConsent ---------------------------
(* ChannelIdentityService over the identity port and the binding store:      *)
(* recognising a channel subject, verifying, linking and restricting its     *)
(* identity, issuing session bindings, and deciding on consent.  Every port  *)
(* call is atomic under the port's lock; set_consent makes two and so runs   *)
(* in two steps.  identity_ref is the keyed hash of the subject: identities  *)
(* are named by their subjects here.                                         *)
EXTENDS Naturals, FiniteSets

CONSTANTS
  None,
  Subjects,           \* canonical channel subjects
  Attestations,       \* subject evidence references
  Verifications,      \* verification evidence references
  Parties,            \* XBOS parties an identity may turn out to be
  Contexts,           \* merchant contexts a link is made in
  Purposes, Versions, \* consent purposes and policy versions
  FirstVersion,
  Keys,               \* idempotency keys of set_consent
  Threads,            \* threads calling set_consent
  MaxTime, MaxBindings, MaxPolicyChanges   \* bounds

ChannelIdentityState ==
  {"anonymous", "recognized", "verified", "linked", "blocked_or_restricted"}

Opt(S) == S \cup {None}

ChannelSubjectResolution ==
  [subject : Subjects, expires : Nat, candidates : SUBSET Parties]

VerificationEvidence == [identity : Subjects, expires : Nat]

ChannelIdentity ==
  [state : ChannelIdentityState, attestation : Attestations,
   candidates : SUBSET Parties, verification : Opt(Verifications),
   party : Opt(Parties), context : Opt(Contexts)]

IdentityBindingRecord ==
  [identity : Subjects, attestation : Attestations, expires : Nat]

\* A decision, and the fingerprint an idempotency key stands for.
ConsentRecord ==
  [identity : Subjects, purpose : Purposes, granted : BOOLEAN,
   version : Versions]

Call == [key : Keys, decision : ConsentRecord]

ASSUME IdentityAssumption ==
  /\ FirstVersion \in Versions
  /\ MaxTime \in Nat /\ MaxBindings \in Nat /\ MaxPolicyChanges \in Nat
  /\ None \notin ChannelSubjectResolution \cup VerificationEvidence
                 \cup ChannelIdentity \cup ConsentRecord \cup Call
                 \cup Verifications \cup Parties \cup Contexts

VARIABLES
  subjectEvidence,        \* _subject_evidence
  verificationEvidence,   \* _verification_evidence
  identities,             \* _identities
  bindings,               \* _records of the binding store
  consents,               \* _consents: the decision in force
  idempotency,            \* _idempotency: the decision of each key
  policy,                 \* _policy_versions
  call,                   \* set_consent calls that have read the policy
  policyChanges, now

identityVars == <<subjectEvidence, verificationEvidence, identities, bindings>>
consentVars  == <<consents, idempotency, policy, call, policyChanges>>
vars == <<subjectEvidence, verificationEvidence, identities, bindings, consents,
          idempotency, policy, call, policyChanges, now>>

TypeOK ==
  /\ subjectEvidence \in [Attestations -> Opt(ChannelSubjectResolution)]
  /\ verificationEvidence \in [Verifications -> Opt(VerificationEvidence)]
  /\ identities \in [Subjects -> Opt(ChannelIdentity)]
  /\ bindings \subseteq IdentityBindingRecord
  /\ consents \in [Subjects \X Purposes -> Opt(ConsentRecord)]
  /\ idempotency \in [Keys -> Opt(ConsentRecord)]
  /\ policy \in [Purposes -> Versions]
  /\ call \in [Threads -> Opt(Call)]
  /\ policyChanges \in Nat /\ now \in Nat
  /\ \A i \in Subjects :
       identities[i] # None =>
         /\ identities[i].state = "recognized" => identities[i].candidates # {}
         /\ identities[i].state = "linked" => identities[i].party # None

Init ==
  /\ subjectEvidence = [a \in Attestations |-> None]
  /\ verificationEvidence = [v \in Verifications |-> None]
  /\ identities = [i \in Subjects |-> None]
  /\ bindings = {}
  /\ consents = [x \in Subjects \X Purposes |-> None]
  /\ idempotency = [k \in Keys |-> None]
  /\ policy = [p \in Purposes |-> FirstVersion]
  /\ call = [t \in Threads |-> None]
  /\ policyChanges = 0 /\ now = 0

Known(i) == identities[i] # None

-----------------------------------------------------------------------------
(* Identities.                                                               *)

\* The two evidence registers are filled outside the Channel, each reference
\* once; the fixtures would overwrite one registered again.
RegisterSubject(a, resolution) ==
  /\ subjectEvidence[a] = None
  /\ subjectEvidence' = [subjectEvidence EXCEPT ![a] = resolution]
  /\ UNCHANGED <<verificationEvidence, identities, bindings, consentVars, now>>

RegisterVerification(v, i, expires) ==
  /\ verificationEvidence[v] = None /\ Known(i)
  /\ verificationEvidence' =
       [verificationEvidence EXCEPT ![v] = [identity |-> i, expires |-> expires]]
  /\ UNCHANGED <<subjectEvidence, identities, bindings, consentVars, now>>

Attests(a) == subjectEvidence[a] # None /\ now < subjectEvidence[a].expires

\* The candidates of a known identity stay when the new evidence names none.
CandidatesAsTold(current, resolution) ==   \* variant: may lose them all
  resolution.candidates

CandidatesAfter(current, resolution) ==
  IF resolution.candidates = {} THEN current.candidates
                                ELSE resolution.candidates

\* resolve_identity: a known identity keeps its state; a new one is recognized
\* when the evidence names candidates.
Resolved(a) ==
  LET resolution == subjectEvidence[a]
      current    == identities[resolution.subject] IN
  IF current # None
  THEN [current EXCEPT !.attestation = a,
                       !.candidates = CandidatesAfter(current, resolution)]
  ELSE [state |-> IF resolution.candidates = {} THEN "anonymous" ELSE "recognized",
        attestation |-> a, candidates |-> resolution.candidates,
        verification |-> None, party |-> None, context |-> None]

ResolveSubject(a) ==
  /\ Attests(a)
  /\ identities' =
       [identities EXCEPT ![subjectEvidence[a].subject] = Resolved(a)]

Resolve(a) ==
  /\ ResolveSubject(a)
  /\ UNCHANGED <<subjectEvidence, verificationEvidence, bindings, consentVars,
                 now>>

\* issue_session_identity_binding resolves first: the identity is stored even
\* when the binding is then refused for its expiry.  Its three stores are taken
\* in one step; what another call could change between them is the identity's
\* state, which a binding does not carry.
BindingExpiryAllowed(a, expires) ==
  now < expires /\ expires <= subjectEvidence[a].expires

IssueSessionIdentityBinding(a, expires) ==
  /\ ResolveSubject(a)
  /\ bindings' =
       IF BindingExpiryAllowed(a, expires) /\ Cardinality(bindings) < MaxBindings
       THEN bindings \cup {[identity |-> subjectEvidence[a].subject,
                            attestation |-> a, expires |-> expires]}
       ELSE bindings
  /\ UNCHANGED <<subjectEvidence, verificationEvidence, consentVars, now>>

VerifiableByAnyone(i, v) ==   \* variant: evidence of somebody else
  Known(i) /\ identities[i].state # "blocked_or_restricted"
    /\ verificationEvidence[v] # None /\ now < verificationEvidence[v].expires

Verifiable(i, v) ==
  /\ Known(i)
  /\ identities[i].state # "blocked_or_restricted"
  /\ verificationEvidence[v] # None
  /\ verificationEvidence[v].identity = i
  /\ now < verificationEvidence[v].expires

\* verify_identity accepts a linked identity too: it is verified again, keeps
\* its party and may then be linked to another candidate.
VerifyIdentity(i, v) ==
  /\ Verifiable(i, v)
  /\ identities' = [identities EXCEPT ![i].state = "verified",
                                      ![i].verification = v]
  /\ UNCHANGED <<subjectEvidence, verificationEvidence, bindings, consentVars,
                 now>>

Linkable(i, party, v) ==
  /\ Known(i)
  /\ identities[i].state = "verified"
  /\ identities[i].verification = v
  /\ party \in identities[i].candidates

LinkVerifiedParty(i, party, v, context) ==
  /\ Linkable(i, party, v)
  /\ identities' = [identities EXCEPT ![i].state = "linked",
                                      ![i].party = party,
                                      ![i].context = context]
  /\ UNCHANGED <<subjectEvidence, verificationEvidence, bindings, consentVars,
                 now>>

RestrictIdentity(i) ==
  /\ Known(i)
  /\ identities' = [identities EXCEPT ![i].state = "blocked_or_restricted"]
  /\ UNCHANGED <<subjectEvidence, verificationEvidence, bindings, consentVars,
                 now>>

-----------------------------------------------------------------------------
(* Consent.  set_consent asks the policy port for the purpose's version and  *)
(* then records the decision under it.                                       *)
BeginSetConsent(t, i, p, granted, key) ==
  /\ call[t] = None
  /\ call' = [call EXCEPT ![t] =
       [key |-> key,
        decision |-> [identity |-> i, purpose |-> p, granted |-> granted,
                      version |-> policy[p]]]]
  /\ UNCHANGED <<identityVars, consents, idempotency, policy, policyChanges, now>>

\* record_consent: a known key answers with its first decision, or conflicts
\* when the fingerprint differs; either way nothing changes.
FreshAlways(t) == TRUE   \* variant: records a retry again

Fresh(t) == idempotency[call[t].key] = None

DecisionUnderAnyPolicy(t) ==   \* variant: stamps the version at recording
  [call[t].decision EXCEPT !.version = policy[call[t].decision.purpose]]

Decision(t) == call[t].decision

RecordConsent(t) ==
  LET d == call[t].decision IN
  /\ call[t] # None
  /\ IF Known(d.identity) /\ Fresh(t)
     THEN /\ consents' = [consents EXCEPT ![<<d.identity, d.purpose>>] = Decision(t)]
          /\ idempotency' = [idempotency EXCEPT ![call[t].key] = d]
     ELSE UNCHANGED <<consents, idempotency>>
  /\ call' = [call EXCEPT ![t] = None]
  /\ UNCHANGED <<identityVars, policy, policyChanges, now>>

SetPolicyVersion(p, version) ==
  /\ policyChanges < MaxPolicyChanges
  /\ policy' = [policy EXCEPT ![p] = version]
  /\ policyChanges' = policyChanges + 1
  /\ UNCHANGED <<identityVars, consents, idempotency, call, now>>

PurposeAllowed(i, p) ==
  /\ consents[<<i, p>>] # None
  /\ consents[<<i, p>>].granted
  /\ consents[<<i, p>>].version = policy[p]

Tick ==
  /\ now < MaxTime
  /\ now' = now + 1
  /\ UNCHANGED <<identityVars, consentVars>>

EvidenceStep ==
  \/ \E a \in Attestations, i \in Subjects, expires \in 1..MaxTime,
        candidates \in SUBSET Parties :
       RegisterSubject(a, [subject |-> i, expires |-> expires,
                           candidates |-> candidates])
  \/ \E v \in Verifications, i \in Subjects, expires \in 1..MaxTime :
       RegisterVerification(v, i, expires)

IdentityStep ==
  \/ \E a \in Attestations : Resolve(a)
  \/ \E a \in Attestations, expires \in 1..(MaxTime + 1) :
       IssueSessionIdentityBinding(a, expires)
  \/ \E i \in Subjects :
       \/ RestrictIdentity(i)
       \/ \E v \in Verifications :
            \/ VerifyIdentity(i, v)
            \/ \E party \in Parties, context \in Contexts :
                 LinkVerifiedParty(i, party, v, context)

ConsentStep ==
  \/ \E t \in Threads : RecordConsent(t)
  \/ \E t \in Threads, i \in Subjects, p \in Purposes, granted \in BOOLEAN,
        key \in Keys : BeginSetConsent(t, i, p, granted, key)
  \/ \E p \in Purposes, version \in Versions : SetPolicyVersion(p, version)

Next == EvidenceStep \/ IdentityStep \/ ConsentStep \/ Tick

Spec == Init /\ [][Next]_vars
-----------------------------------------------------------------------------
(* Properties.                                                               *)

\* Whoever is verified or linked was verified by evidence registered for that
\* very identity, however resolutions and re-verifications interleave
\* (verify_identity, link_verified_party).
VerifiedByOwnEvidence ==
  \A i \in Subjects :
    Known(i) /\ identities[i].state \in {"verified", "linked"} =>
      LET v == identities[i].verification IN
      /\ v # None
      /\ verificationEvidence[v] # None
      /\ verificationEvidence[v].identity = i

\* A purpose is allowed only on a decision that somebody took, under one of
\* the keys, on the policy version in force now ("policy version change: fresh
\* decision required"), even when the policy changes during the call.
AllowedIsDecided ==
  \A i \in Subjects, p \in Purposes :
    PurposeAllowed(i, p) =>
      \E k \in Keys :
        idempotency[k] = [identity |-> i, purpose |-> p, granted |-> TRUE,
                          version |-> policy[p]]

\* A decision in force is replaced only by a decision under a key never used
\* before: the retry of an old grant does not undo a withdrawal.
RetryKeepsWithdrawal ==
  [][\A i \in Subjects, p \in Purposes :
       consents'[<<i, p>>] # consents[<<i, p>>] =>
         \E k \in Keys : idempotency[k] = None /\ idempotency'[k] # None]_vars
=============================================================================
