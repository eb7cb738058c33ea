------------------------ MODULE IdentityConsent_proofs ------------------------
(* IdentityConsent for any number of subjects, attestations, parties, keys   *)
(* and threads: whoever is verified was verified by evidence of its own, a   *)
(* restriction is for good, and consent rests on a decision under its key.   *)
EXTENDS IdentityConsent, TLAPS

-----------------------------------------------------------------------------
(* The inductive invariant.                                                  *)

\* A decision in force is about its identity and purpose, and is the decision
\* some key stands for.
ConsentsAreDecided ==
  \A i \in Subjects, p \in Purposes :
    consents[<<i, p>>] # None =>
      /\ consents[<<i, p>>].identity = i /\ consents[<<i, p>>].purpose = p
      /\ \E k \in Keys : idempotency[k] = consents[<<i, p>>]

IdentityInv == TypeOK /\ VerifiedByOwnEvidence /\ ConsentsAreDecided

\* What no step takes back: registered evidence, an identity and its
\* restriction, an issued binding, the decision of a key.
Grows ==
  /\ \A a \in Attestations :
       subjectEvidence[a] # None => subjectEvidence'[a] = subjectEvidence[a]
  /\ \A v \in Verifications :
       verificationEvidence[v] # None =>
         verificationEvidence'[v] = verificationEvidence[v]
  /\ \A i \in Subjects :
       Known(i) =>
         /\ identities'[i] # None
         /\ identities[i].state = "blocked_or_restricted" =>
              identities'[i].state = "blocked_or_restricted"
  /\ bindings \subseteq bindings'
  /\ \A k \in Keys : idempotency[k] # None => idempotency'[k] = idempotency[k]

-----------------------------------------------------------------------------
(* Lemmas.                                                                   *)
LEMMA RecordFields ==
  ASSUME TypeOK
  PROVE  /\ \A a \in Attestations : subjectEvidence[a] # None =>
              /\ subjectEvidence[a] \in ChannelSubjectResolution
              /\ subjectEvidence[a].subject \in Subjects
              /\ subjectEvidence[a].expires \in Nat
              /\ subjectEvidence[a].candidates \in SUBSET Parties
         /\ \A i \in Subjects : Known(i) => identities[i] \in ChannelIdentity
         /\ \A t \in Threads : call[t] # None =>
              /\ call[t].key \in Keys /\ call[t].decision \in ConsentRecord
              /\ call[t].decision.identity \in Subjects
              /\ call[t].decision.purpose \in Purposes
  BY DEF TypeOK, Opt, ChannelSubjectResolution, Known, Call, ConsentRecord

LEMMA ConsentsStay ==
  ASSUME ConsentsAreDecided, UNCHANGED <<consents, idempotency>>
  PROVE  ConsentsAreDecided'
<1>1. consents' = consents /\ idempotency' = idempotency
  OBVIOUS
<1>2. ASSUME NEW i \in Subjects, NEW p \in Purposes, consents'[<<i, p>>] # None
      PROVE  /\ consents'[<<i, p>>].identity = i /\ consents'[<<i, p>>].purpose = p
             /\ \E k \in Keys : idempotency'[k] = consents'[<<i, p>>]
  BY <1>1, <1>2 DEF ConsentsAreDecided
<1> QED BY <1>2 DEF ConsentsAreDecided

\* A step that changes one identity and issues a binding at most.
LEMMA IdentitySteps ==
  ASSUME IdentityInv, NEW i \in Subjects, NEW d \in ChannelIdentity,
         identities' = [identities EXCEPT ![i] = d],
         d.state = "recognized" => d.candidates # {},
         d.state = "linked" => d.party # None,
         d.state \in {"verified", "linked"} =>
           /\ d.verification # None
           /\ verificationEvidence[d.verification] # None
           /\ verificationEvidence[d.verification].identity = i,
         Known(i) /\ identities[i].state = "blocked_or_restricted" =>
           d.state = "blocked_or_restricted",
         bindings' \subseteq IdentityBindingRecord, bindings \subseteq bindings',
         UNCHANGED <<subjectEvidence, verificationEvidence, consentVars, now>>
  PROVE  IdentityInv' /\ Grows
<1>1. d # None
  BY IdentityAssumption
<1>2. \A j \in Subjects : identities'[j] = IF j = i THEN d ELSE identities[j]
  BY DEF IdentityInv, TypeOK
<1>3. TypeOK'
  <2>1. identities' \in [Subjects -> Opt(ChannelIdentity)]
    BY DEF IdentityInv, TypeOK, Opt
  <2>2. \A j \in Subjects :
          identities'[j] # None =>
            /\ identities'[j].state = "recognized" => identities'[j].candidates # {}
            /\ identities'[j].state = "linked" => identities'[j].party # None
    BY <1>2 DEF IdentityInv, TypeOK
  <2> QED BY <2>1, <2>2 DEF IdentityInv, TypeOK, consentVars
<1>4. VerifiedByOwnEvidence'
  BY <1>2 DEF IdentityInv, VerifiedByOwnEvidence, Known
<1>5. ConsentsAreDecided'
  BY ConsentsStay DEF IdentityInv, consentVars
<1>6. Grows
  BY <1>1, <1>2 DEF Grows, Known, consentVars
<1> QED BY <1>3, <1>4, <1>5, <1>6 DEF IdentityInv

\* A step of the consent service.
LEMMA ConsentSteps ==
  ASSUME IdentityInv, NEW t \in Threads, NEW d \in Opt(Call),
         call' = [call EXCEPT ![t] = d],
         policy' \in [Purposes -> Versions], policyChanges' \in Nat,
         consents' \in [Subjects \X Purposes -> Opt(ConsentRecord)],
         idempotency' \in [Keys -> Opt(ConsentRecord)],
         ConsentsAreDecided',
         \A k \in Keys : idempotency[k] # None => idempotency'[k] = idempotency[k],
         UNCHANGED <<identityVars, now>>
  PROVE  IdentityInv' /\ Grows
<1>1. call' \in [Threads -> Opt(Call)]
  BY DEF IdentityInv, TypeOK
<1>2. TypeOK'
  BY <1>1 DEF IdentityInv, TypeOK, identityVars
<1>3. VerifiedByOwnEvidence'
  BY DEF IdentityInv, VerifiedByOwnEvidence, Known, identityVars
<1>4. Grows
  BY DEF Grows, Known, identityVars
<1> QED BY <1>2, <1>3, <1>4 DEF IdentityInv

-----------------------------------------------------------------------------
(* Identities.                                                               *)
LEMMA InitInvariant == Init => IdentityInv
<1> SUFFICES ASSUME Init PROVE IdentityInv
  OBVIOUS
<1>1. \A i \in Subjects, p \in Purposes : consents[<<i, p>>] = None
  BY DEF Init
<1>2. ConsentsAreDecided
  BY <1>1 DEF ConsentsAreDecided
<1>3. TypeOK
  BY IdentityAssumption DEF Init, TypeOK, Opt
<1>4. VerifiedByOwnEvidence
  BY DEF Init, VerifiedByOwnEvidence, Known
<1> QED BY <1>2, <1>3, <1>4 DEF IdentityInv

LEMMA RegisterSubjectStep ==
  ASSUME IdentityInv, NEW a \in Attestations, NEW r \in ChannelSubjectResolution,
         RegisterSubject(a, r)
  PROVE  IdentityInv' /\ Grows
<1>1. subjectEvidence' \in [Attestations -> Opt(ChannelSubjectResolution)]
  BY DEF RegisterSubject, IdentityInv, TypeOK, Opt
<1>2. TypeOK'
  BY <1>1 DEF RegisterSubject, IdentityInv, TypeOK, consentVars
<1>3. VerifiedByOwnEvidence' /\ ConsentsAreDecided'
  BY DEF RegisterSubject, IdentityInv, VerifiedByOwnEvidence, ConsentsAreDecided,
         Known, consentVars
<1>4. Grows
  BY DEF RegisterSubject, Grows, Known, consentVars, IdentityInv, TypeOK
<1> QED BY <1>2, <1>3, <1>4 DEF IdentityInv

LEMMA RegisterVerificationStep ==
  ASSUME IdentityInv, NEW v \in Verifications, NEW i \in Subjects, NEW expires \in Nat,
         RegisterVerification(v, i, expires)
  PROVE  IdentityInv' /\ Grows
<1> PICK d : d = [identity |-> i, expires |-> expires]
  OBVIOUS
<1>1. d \in VerificationEvidence
  BY DEF VerificationEvidence
<1>2. verificationEvidence[v] = None
      /\ verificationEvidence' = [verificationEvidence EXCEPT ![v] = d]
      /\ UNCHANGED <<subjectEvidence, identities, bindings, consentVars, now>>
  BY DEF RegisterVerification
<1>3. \A w \in Verifications :
        verificationEvidence'[w] = IF w = v THEN d ELSE verificationEvidence[w]
  BY <1>2 DEF IdentityInv, TypeOK
<1>4. TypeOK'
  <2>1. verificationEvidence' \in [Verifications -> Opt(VerificationEvidence)]
    BY <1>1, <1>2 DEF IdentityInv, TypeOK, Opt
  <2> QED BY <1>2, <2>1 DEF IdentityInv, TypeOK, consentVars
<1>5. VerifiedByOwnEvidence'
  <2> SUFFICES ASSUME NEW j \in Subjects, NEW e, e = identities[j], e # None,
                      e.state \in {"verified", "linked"}
               PROVE  /\ e.verification # None
                      /\ verificationEvidence'[e.verification] # None
                      /\ verificationEvidence'[e.verification].identity = j
    BY <1>2 DEF VerifiedByOwnEvidence, Known
  <2>1. e.verification \in Opt(Verifications)
    BY RecordFields DEF IdentityInv, Known, ChannelIdentity
  <2>2. /\ e.verification # None
        /\ verificationEvidence[e.verification] # None
        /\ verificationEvidence[e.verification].identity = j
    BY DEF IdentityInv, VerifiedByOwnEvidence, Known
  <2> QED BY <1>2, <1>3, <2>1, <2>2 DEF Opt
<1>6. ConsentsAreDecided'
  BY <1>2, ConsentsStay DEF IdentityInv, consentVars
<1>7. Grows
  BY <1>2, <1>3 DEF Grows, Known, consentVars
<1> QED BY <1>4, <1>5, <1>6, <1>7 DEF IdentityInv

\* resolve_identity, on which issuing a binding rests too: whatever the
\* identity was, it is verified no more and no less than before.
LEMMA ResolveSteps ==
  ASSUME IdentityInv, NEW a \in Attestations, ResolveSubject(a),
         bindings' \subseteq IdentityBindingRecord, bindings \subseteq bindings',
         UNCHANGED <<subjectEvidence, verificationEvidence, consentVars, now>>
  PROVE  IdentityInv' /\ Grows
<1> PICK r : r = subjectEvidence[a]
  OBVIOUS
<1> PICK i : i = r.subject
  OBVIOUS
<1> PICK d : d = Resolved(a)
  OBVIOUS
<1>1. r # None /\ r \in ChannelSubjectResolution /\ i \in Subjects
      /\ r.candidates \in SUBSET Parties
  BY RecordFields DEF ResolveSubject, Attests, IdentityInv
<1>2. identities' = [identities EXCEPT ![i] = d]
  BY DEF ResolveSubject
<1>3. CASE identities[i] = None
  <2>1. d = [state |-> IF r.candidates = {} THEN "anonymous" ELSE "recognized",
             attestation |-> a, candidates |-> r.candidates,
             verification |-> None, party |-> None, context |-> None]
    BY <1>3 DEF Resolved
  <2>2. d \in ChannelIdentity
    BY <1>1, <2>1 DEF ChannelIdentity, ChannelIdentityState, Opt
  <2>3. d.state = (IF r.candidates = {} THEN "anonymous" ELSE "recognized")
        /\ d.candidates = r.candidates
    BY <2>1
  <2> QED BY <1>1, <1>2, <1>3, <2>2, <2>3, IdentitySteps DEF Known
<1>4. CASE identities[i] # None
  <2> PICK e : e = identities[i]
    OBVIOUS
  <2> PICK c : c = CandidatesAfter(e, r)
    OBVIOUS
  <2>1. e \in ChannelIdentity
    BY <1>1, <1>4, RecordFields DEF IdentityInv, Known
  <2>2. d = [e EXCEPT !.attestation = a, !.candidates = c]
    BY <1>4 DEF Resolved
  <2>3. c \in SUBSET Parties /\ (e.candidates # {} => c # {})
    BY <1>1, <2>1 DEF CandidatesAfter, ChannelIdentity
  <2>4. d \in ChannelIdentity /\ d.state = e.state /\ d.candidates = c
        /\ d.verification = e.verification /\ d.party = e.party
    BY <2>1, <2>2, <2>3 DEF ChannelIdentity
  <2>5. /\ e.state = "recognized" => e.candidates # {}
        /\ e.state = "linked" => e.party # None
        /\ e.state \in {"verified", "linked"} =>
             /\ e.verification # None
             /\ verificationEvidence[e.verification] # None
             /\ verificationEvidence[e.verification].identity = i
    BY <1>1, <1>4 DEF IdentityInv, TypeOK, VerifiedByOwnEvidence, Known
  <2>6. /\ d.state = "recognized" => d.candidates # {}
        /\ d.state = "linked" => d.party # None
        /\ d.state \in {"verified", "linked"} =>
             /\ d.verification # None
             /\ verificationEvidence[d.verification] # None
             /\ verificationEvidence[d.verification].identity = i
        /\ Known(i) /\ identities[i].state = "blocked_or_restricted" =>
             d.state = "blocked_or_restricted"
    BY <2>3, <2>4, <2>5
  <2>7. d \in ChannelIdentity
    BY <2>4
  <2> QED BY <1>1, <1>2, <2>6, <2>7, IdentitySteps
<1> QED BY <1>3, <1>4

LEMMA IssueBindingStep ==
  ASSUME IdentityInv, NEW a \in Attestations, NEW expires \in Nat,
         IssueSessionIdentityBinding(a, expires)
  PROVE  IdentityInv' /\ Grows
<1>1. [identity |-> subjectEvidence[a].subject, attestation |-> a, expires |-> expires]
        \in IdentityBindingRecord
  BY RecordFields
     DEF IssueSessionIdentityBinding, ResolveSubject, Attests, IdentityInv,
         IdentityBindingRecord
<1>2. bindings' \subseteq IdentityBindingRecord /\ bindings \subseteq bindings'
  BY <1>1 DEF IssueSessionIdentityBinding, IdentityInv, TypeOK
<1> QED BY <1>2, ResolveSteps DEF IssueSessionIdentityBinding

LEMMA VerifyStep ==
  ASSUME IdentityInv, NEW i \in Subjects, NEW v \in Verifications, VerifyIdentity(i, v)
  PROVE  IdentityInv' /\ Grows
<1> PICK e : e = identities[i]
  OBVIOUS
<1> PICK d : d = [e EXCEPT !.state = "verified", !.verification = v]
  OBVIOUS
<1>1. e \in ChannelIdentity
  BY RecordFields DEF VerifyIdentity, Verifiable, IdentityInv
<1>2. d \in ChannelIdentity /\ d.state = "verified" /\ d.verification = v
  BY <1>1 DEF ChannelIdentity, ChannelIdentityState, Opt
<1>3. identities' = [identities EXCEPT ![i] = d]
  BY DEF VerifyIdentity
<1>4. v # None
  BY IdentityAssumption
<1>5. verificationEvidence[v] # None /\ verificationEvidence[v].identity = i
      /\ identities[i].state # "blocked_or_restricted"
      /\ UNCHANGED <<subjectEvidence, verificationEvidence, consentVars, now>>
  BY DEF VerifyIdentity, Verifiable
<1>6. bindings' \subseteq IdentityBindingRecord /\ bindings \subseteq bindings'
  BY DEF VerifyIdentity, IdentityInv, TypeOK
<1> QED BY <1>2, <1>3, <1>4, <1>5, <1>6, IdentitySteps

LEMMA LinkStep ==
  ASSUME IdentityInv, NEW i \in Subjects, NEW party \in Parties, NEW v \in Verifications,
         NEW context \in Contexts, LinkVerifiedParty(i, party, v, context)
  PROVE  IdentityInv' /\ Grows
<1> PICK e : e = identities[i]
  OBVIOUS
<1> PICK d : d = [e EXCEPT !.state = "linked", !.party = party, !.context = context]
  OBVIOUS
<1>1. e \in ChannelIdentity /\ e # None /\ e.state = "verified"
  BY RecordFields DEF LinkVerifiedParty, Linkable, IdentityInv, Known
<1>2. d \in ChannelIdentity /\ d.state = "linked" /\ d.verification = e.verification
      /\ d.party = party
  BY <1>1 DEF ChannelIdentity, ChannelIdentityState, Opt
<1>3. identities' = [identities EXCEPT ![i] = d]
  BY DEF LinkVerifiedParty
<1>4. party # None
  BY IdentityAssumption
<1>5. /\ e.verification # None
      /\ verificationEvidence[e.verification] # None
      /\ verificationEvidence[e.verification].identity = i
  BY <1>1 DEF IdentityInv, VerifiedByOwnEvidence, Known
<1>6. bindings' \subseteq IdentityBindingRecord /\ bindings \subseteq bindings'
      /\ UNCHANGED <<subjectEvidence, verificationEvidence, consentVars, now>>
  BY DEF LinkVerifiedParty, IdentityInv, TypeOK
<1> QED BY <1>1, <1>2, <1>3, <1>4, <1>5, <1>6, IdentitySteps

LEMMA RestrictStep ==
  ASSUME IdentityInv, NEW i \in Subjects, RestrictIdentity(i)
  PROVE  IdentityInv' /\ Grows
<1> PICK d : d = [identities[i] EXCEPT !.state = "blocked_or_restricted"]
  OBVIOUS
<1>1. d \in ChannelIdentity /\ d.state = "blocked_or_restricted"
  BY RecordFields DEF RestrictIdentity, IdentityInv, ChannelIdentity, ChannelIdentityState
<1>2. identities' = [identities EXCEPT ![i] = d]
  BY DEF RestrictIdentity
<1> QED BY <1>1, <1>2, IdentitySteps DEF RestrictIdentity, IdentityInv, TypeOK

-----------------------------------------------------------------------------
(* Consent.                                                                  *)
LEMMA BeginStep ==
  ASSUME IdentityInv, NEW t \in Threads, NEW i \in Subjects, NEW p \in Purposes,
         NEW granted \in BOOLEAN, NEW key \in Keys, BeginSetConsent(t, i, p, granted, key)
  PROVE  IdentityInv' /\ Grows
<1> PICK c : c = [identity |-> i, purpose |-> p, granted |-> granted,
                  version |-> policy[p]]
  OBVIOUS
<1> PICK d : d = [key |-> key, decision |-> c]
  OBVIOUS
<1>1. d \in Opt(Call)
  BY DEF IdentityInv, TypeOK, Call, ConsentRecord, Opt
<1>2. call' = [call EXCEPT ![t] = d]
      /\ UNCHANGED <<identityVars, consents, idempotency, policy, policyChanges, now>>
  BY DEF BeginSetConsent
<1>3. ConsentsAreDecided'
  BY <1>2, ConsentsStay DEF IdentityInv
<1> QED BY <1>1, <1>2, <1>3, ConsentSteps DEF IdentityInv, TypeOK

\* What record_consent does: nothing, or one decision is put in force and filed
\* under its key, which stood for none.
Decides ==
  \E d \in ConsentRecord, k \in Keys :
    /\ idempotency[k] = None
    /\ consents' = [consents EXCEPT ![<<d.identity, d.purpose>>] = d]
    /\ idempotency' = [idempotency EXCEPT ![k] = d]

LEMMA RecordEffect ==
  ASSUME TypeOK, NEW t \in Threads, RecordConsent(t)
  PROVE  UNCHANGED <<consents, idempotency>> \/ Decides
  BY RecordFields DEF RecordConsent, Fresh, Decision, Decides

LEMMA RecordStep ==
  ASSUME IdentityInv, NEW t \in Threads, RecordConsent(t)
  PROVE  IdentityInv' /\ Grows
<1>1. call' = [call EXCEPT ![t] = None] /\ None \in Opt(Call)
      /\ UNCHANGED <<identityVars, policy, policyChanges, now>>
  BY DEF RecordConsent, Opt
<1>2. CASE UNCHANGED <<consents, idempotency>>
  <2>1. ConsentsAreDecided'
    BY <1>2, ConsentsStay DEF IdentityInv
  <2> QED BY <1>1, <1>2, <2>1, ConsentSteps DEF IdentityInv, TypeOK
<1>3. ASSUME NEW d \in ConsentRecord, NEW k \in Keys, idempotency[k] = None,
             consents' = [consents EXCEPT ![<<d.identity, d.purpose>>] = d],
             idempotency' = [idempotency EXCEPT ![k] = d]
      PROVE  IdentityInv' /\ Grows
  <2>1. d # None
    BY IdentityAssumption
  <2>2. d.identity \in Subjects /\ d.purpose \in Purposes
    BY DEF ConsentRecord
  <2>3. \A j \in Keys : idempotency'[j] = IF j = k THEN d ELSE idempotency[j]
    BY <1>3 DEF IdentityInv, TypeOK
  <2>4. \A i \in Subjects, p \in Purposes :
          consents'[<<i, p>>] = IF i = d.identity /\ p = d.purpose THEN d ELSE consents[<<i, p>>]
    BY <1>3, <2>2 DEF IdentityInv, TypeOK
  <2>5. consents' \in [Subjects \X Purposes -> Opt(ConsentRecord)]
        /\ idempotency' \in [Keys -> Opt(ConsentRecord)]
    BY <1>3, <2>2 DEF IdentityInv, TypeOK, Opt
  <2>6. ASSUME NEW i \in Subjects, NEW p \in Purposes, consents'[<<i, p>>] # None
        PROVE  /\ consents'[<<i, p>>].identity = i /\ consents'[<<i, p>>].purpose = p
               /\ \E j \in Keys : idempotency'[j] = consents'[<<i, p>>]
    <3>1. CASE i = d.identity /\ p = d.purpose
      BY <2>3, <2>4, <3>1
    <3>2. CASE ~ (i = d.identity /\ p = d.purpose)
      <4> PICK c : c = consents[<<i, p>>]
        OBVIOUS
      <4>1. consents'[<<i, p>>] = c
        BY <2>4, <3>2
      <4>2. /\ c.identity = i /\ c.purpose = p
            /\ \E j \in Keys : idempotency[j] = c
        BY <2>6, <4>1 DEF IdentityInv, ConsentsAreDecided
      <4> QED BY <1>3, <2>3, <2>6, <4>1, <4>2
    <3> QED BY <3>1, <3>2
  <2>7. ConsentsAreDecided'
    BY <2>6 DEF ConsentsAreDecided
  <2>8. \A j \in Keys : idempotency[j] # None => idempotency'[j] = idempotency[j]
    BY <1>3, <2>3
  <2> QED BY <1>1, <2>5, <2>7, <2>8, ConsentSteps DEF IdentityInv, TypeOK
<1> QED BY <1>2, <1>3, RecordEffect DEF IdentityInv, Decides

LEMMA PolicyStep ==
  ASSUME IdentityInv, NEW p \in Purposes, NEW version \in Versions,
         SetPolicyVersion(p, version)
  PROVE  IdentityInv' /\ Grows
<1>1. policy' \in [Purposes -> Versions] /\ policyChanges' \in Nat
  BY DEF SetPolicyVersion, IdentityInv, TypeOK
<1>2. TypeOK'
  BY <1>1 DEF SetPolicyVersion, IdentityInv, TypeOK, identityVars
<1>3. VerifiedByOwnEvidence' /\ ConsentsAreDecided' /\ Grows
  BY DEF SetPolicyVersion, IdentityInv, VerifiedByOwnEvidence, ConsentsAreDecided,
         Known, Grows, identityVars
<1> QED BY <1>2, <1>3 DEF IdentityInv

LEMMA IdleSteps ==
  ASSUME IdentityInv, UNCHANGED <<identityVars, consentVars>>, now' \in Nat
  PROVE  IdentityInv' /\ Grows
<1>1. TypeOK'
  BY DEF IdentityInv, TypeOK, identityVars, consentVars
<1>2. VerifiedByOwnEvidence'
  BY DEF IdentityInv, VerifiedByOwnEvidence, Known, identityVars
<1>3. ConsentsAreDecided'
  BY ConsentsStay DEF IdentityInv, consentVars
<1>4. Grows
  BY DEF Grows, Known, identityVars, consentVars
<1> QED BY <1>1, <1>2, <1>3, <1>4 DEF IdentityInv

LEMMA InvariantStep == IdentityInv /\ [Next]_vars => IdentityInv' /\ Grows
<1> SUFFICES ASSUME IdentityInv, [Next]_vars PROVE IdentityInv' /\ Grows
  OBVIOUS
<1>1. \A m, n \in Nat : \A x \in m..n : x \in Nat
  OBVIOUS
<1>2. MaxTime \in Nat /\ MaxTime + 1 \in Nat /\ 1 \in Nat
  BY IdentityAssumption
<1>3. ASSUME EvidenceStep PROVE IdentityInv' /\ Grows
  <2>1. ASSUME NEW a \in Attestations, NEW i \in Subjects, NEW expires \in 1..MaxTime,
               NEW candidates \in SUBSET Parties,
               RegisterSubject(a, [subject |-> i, expires |-> expires,
                                   candidates |-> candidates])
        PROVE  IdentityInv' /\ Grows
    <3>1. [subject |-> i, expires |-> expires, candidates |-> candidates]
            \in ChannelSubjectResolution
      BY <1>1, <1>2 DEF ChannelSubjectResolution
    <3> QED BY <2>1, <3>1, RegisterSubjectStep
  <2>2. ASSUME NEW v \in Verifications, NEW i \in Subjects, NEW expires \in 1..MaxTime,
               RegisterVerification(v, i, expires)
        PROVE  IdentityInv' /\ Grows
    BY <1>1, <1>2, <2>2, RegisterVerificationStep
  <2> QED BY <1>3, <2>1, <2>2 DEF EvidenceStep
<1>4. ASSUME NEW a \in Attestations, Resolve(a)
      PROVE  IdentityInv' /\ Grows
  BY <1>4, ResolveSteps DEF Resolve, IdentityInv, TypeOK
<1>5. ASSUME NEW a \in Attestations, NEW expires \in 1..(MaxTime + 1),
             IssueSessionIdentityBinding(a, expires)
      PROVE  IdentityInv' /\ Grows
  BY <1>1, <1>2, <1>5, IssueBindingStep
<1>6. ASSUME IdentityStep PROVE IdentityInv' /\ Grows
  BY <1>4, <1>5, <1>6, RestrictStep, VerifyStep, LinkStep DEF IdentityStep
<1>7. ASSUME ConsentStep PROVE IdentityInv' /\ Grows
  BY <1>7, RecordStep, BeginStep, PolicyStep DEF ConsentStep
<1>8. CASE Tick \/ UNCHANGED vars
  <2>1. UNCHANGED <<identityVars, consentVars>> /\ now' \in Nat
    BY <1>8 DEF Tick, vars, identityVars, consentVars, IdentityInv, TypeOK
  <2> QED BY <2>1, IdleSteps
<1> QED BY <1>3, <1>6, <1>7, <1>8 DEF Next

LEMMA Invariant == Spec => []IdentityInv
  BY InitInvariant, InvariantStep, PTL DEF Spec

-----------------------------------------------------------------------------
(* Theorems.                                                                 *)

\* Every reachable identity is typed: a recognised one keeps a candidate, a
\* linked one has its party, whatever later evidence said (resolve_identity).
THEOREM TypeCorrect == Spec => []TypeOK
<1>1. IdentityInv => TypeOK
  BY DEF IdentityInv
<1> QED BY <1>1, Invariant, PTL

\* Whoever is verified or linked was verified by evidence of that identity
\* (verify_identity, link_verified_party).
THEOREM VerifiedByOwn == Spec => []VerifiedByOwnEvidence
<1>1. IdentityInv => VerifiedByOwnEvidence
  BY DEF IdentityInv
<1> QED BY <1>1, Invariant, PTL

\* A purpose is allowed only on a decision taken under a key on the policy
\* version in force (purpose_allowed, set_consent).
THEOREM AllowedByDecision == Spec => []AllowedIsDecided
<1>1. IdentityInv => AllowedIsDecided
  <2> SUFFICES ASSUME IdentityInv, NEW i \in Subjects, NEW p \in Purposes,
                      PurposeAllowed(i, p)
               PROVE  \E k \in Keys :
                        idempotency[k] = [identity |-> i, purpose |-> p,
                                          granted |-> TRUE, version |-> policy[p]]
    BY DEF AllowedIsDecided
  <2> PICK c : c = consents[<<i, p>>]
    OBVIOUS
  <2>1. c \in ConsentRecord /\ c.identity = i /\ c.purpose = p
        /\ \E k \in Keys : idempotency[k] = c
    BY DEF PurposeAllowed, IdentityInv, TypeOK, Opt, ConsentsAreDecided
  <2>2. c.granted = TRUE /\ c.version = policy[p]
    BY <2>1 DEF PurposeAllowed, ConsentRecord
  <2>3. c = [identity |-> i, purpose |-> p, granted |-> TRUE, version |-> policy[p]]
    BY <2>1, <2>2 DEF ConsentRecord
  <2> QED BY <2>1, <2>3
<1> QED BY <1>1, Invariant, PTL

\* The retry of an old grant does not undo a withdrawal: a decision in force
\* gives way to a new key only (record_consent).
THEOREM WithdrawalsAreKept == Spec => RetryKeepsWithdrawal
<1> DEFINE Kept ==
      \A i \in Subjects, p \in Purposes :
        consents'[<<i, p>>] # consents[<<i, p>>] =>
          \E k \in Keys : idempotency[k] = None /\ idempotency'[k] # None
<1>1. IdentityInv /\ [Next]_vars => [Kept]_vars
  <2> SUFFICES ASSUME IdentityInv, Next PROVE Kept
    OBVIOUS
  <2>1. ASSUME NEW t \in Threads, RecordConsent(t) PROVE Kept
    <3>1. ASSUME NEW d \in ConsentRecord, NEW k \in Keys, idempotency[k] = None,
                 idempotency' = [idempotency EXCEPT ![k] = d]
          PROVE  Kept
      BY <3>1, IdentityAssumption DEF IdentityInv, TypeOK
    <3> QED BY <2>1, <3>1, RecordEffect DEF IdentityInv, Decides
  <2> QED
    BY <2>1 DEF Next, EvidenceStep, IdentityStep, ConsentStep, RegisterSubject,
                RegisterVerification, Resolve, IssueSessionIdentityBinding,
                RestrictIdentity, VerifyIdentity, LinkVerifiedParty, BeginSetConsent,
                SetPolicyVersion, Tick, consentVars
<1> HIDE DEF Kept
<1>2. Spec => [][Kept]_vars
  BY <1>1, Invariant, PTL DEF Spec
<1> QED BY <1>2 DEF RetryKeepsWithdrawal, Kept

\* No step takes evidence, a binding or a key's decision back, and a restricted
\* identity stays restricted: neither a later resolution nor a verification
\* frees it (resolve_identity, verify_identity, record_consent).
THEOREM NothingIsTakenBack == Spec => [][Grows]_vars
<1>1. IdentityInv /\ [Next]_vars => [Grows]_vars
  BY InvariantStep
<1> QED BY <1>1, Invariant, PTL DEF Spec
=============================================================================
