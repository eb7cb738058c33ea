--------------------------- MODULE OrderSubmission ---------------------------
(* OrderDraftConfirmationService: prepare_confirmation and submit, with the  *)
(* session store, the provenance store and the XBOS order port they use.     *)
(* submit runs at the grain of the locks and port calls it goes through: any *)
(* other call may run between two of them.  An order reference is the client *)
(* reference it was made for: XBOS keeps one order per client reference.     *)
(* Only labels and order references of a session matter here; everything     *)
(* else about sessions is CustomerSessions and SessionThreads.               *)
EXTENDS Naturals, FiniteSets, ChannelStates

CONSTANTS
  SessionRefs,
  Correlations,
  Handles,        \* server-issued "confirmation_handle_..." references
  Confirmations,  \* XBOS confirmation references
  Contents,       \* commercial content of a confirmation: lines, fees, total
  ClientRefs,     \* client_submit_ref values callers may send
  Threads,
  Happenings,     \* what may happen around a submit: a subset of AllHappenings
  MoveTargets,    \* labels other calls may move a session to: none but submit
                  \* asks for ORDER_SUBMITTING
  MaxMoves,       \* bound on those moves
  MaxTime,        \* bound on the clock
  MaxReplaced     \* bound on XBOS replacing or withdrawing a confirmation

AllHappenings == {"rotate", "lapse", "move", "replace", "lose", "tick"}

Opt(S) == S \cup {None}

\* The material a fingerprint covers: the expiry is part of it.
Materials == [content : Contents, expires : Nat]

Snapshot ==
  [correlation : Correlations, state : ChannelState, order : Opt(ClientRefs),
   rotated : BOOLEAN]

ConfirmationProvenanceRecord ==
  [session : SessionRefs, conf : Confirmations, material : Materials,
   claim : Opt(ClientRefs)]

CanonicalOrder == [conf : Confirmations, correlation : Correlations]

TransitionKey == [step : {"start", "result"}, client : ClientRefs]

\* pc names what the call does next; seen is the snapshot it holds.
Call ==
  [pc : {"validate", "resolve", "claim", "lookup", "get", "put", "record",
         "submit", "reconcile", "latest"},
   session : SessionRefs, handle : Handles, client : ClientRefs, epoch : Nat,
   step : {"start", "result"}, seen : Opt(Snapshot)]

ASSUME OrderAssumption ==
  /\ Happenings \subseteq AllHappenings
  /\ MoveTargets \subseteq ChannelState \ (EvidenceGated \cup {"order_submitting"})
  /\ MaxMoves \in Nat /\ MaxTime \in Nat /\ MaxReplaced \in Nat
  /\ None \notin Snapshot \cup Materials \cup CanonicalOrder \cup Call
                 \cup ConfirmationProvenanceRecord \cup ClientRefs
                 \cup Confirmations

VARIABLES
  sessions,    \* the session store
  lapsed,      \* sessions XBOS context or expiry no longer validates
  idempotent,  \* the transition keys recorded for a session
  handles,     \* the provenance store's confirmation records
  issued,      \* XBOS: the confirmations it stands by
  orders,      \* XBOS: canonical orders by client reference
  call,        \* what each thread is doing
  outcome,     \* how each thread's last submit ended
  now, moves, replaced

channelVars == <<sessions, idempotent, handles>>
worldVars   == <<lapsed, issued, now, moves, replaced>>
vars == <<sessions, lapsed, idempotent, handles, issued, orders, call, outcome,
          now, moves, replaced>>

\* A call past its first checks holds a handle issued to its own session, and
\* past its claim the handle is claimed for its client reference.
Held(t) ==
  LET c == call[t] IN
  /\ sessions[c.session] # None /\ c.seen # None
  /\ handles[c.handle] # None
  /\ handles[c.handle].session = c.session
  /\ c.pc \notin {"resolve", "claim"} => handles[c.handle].claim = c.client

TypeOK ==
  /\ sessions \in [SessionRefs -> Opt(Snapshot)]
  /\ lapsed \subseteq SessionRefs
  /\ idempotent \in [SessionRefs -> SUBSET TransitionKey]
  /\ handles \in [Handles -> Opt(ConfirmationProvenanceRecord)]
  /\ issued \in [Confirmations -> Opt(Materials)]
  /\ orders \in [ClientRefs -> Opt(CanonicalOrder)]
  /\ call \in [Threads -> Opt(Call)]
  /\ outcome \in [Threads -> {"none", "order", "rejected", "unknown"}]
  /\ now \in Nat /\ moves \in Nat /\ replaced \in Nat
  /\ \A t \in Threads : call[t] # None /\ call[t].pc # "validate" => Held(t)

-----------------------------------------------------------------------------
Exists(s)    == sessions[s] # None
Valid(s)     == Exists(s) /\ ~sessions[s].rotated /\ s \notin lapsed
Idle(t)      == call[t] = None
At(t, pc)    == call[t] # None /\ call[t].pc = pc
Record(t)    == handles[call[t].handle]
OrderFor(t)  == orders[call[t].client]
Key(t)       == [step |-> call[t].step, client |-> call[t].client]
Target(t)    == IF call[t].step = "start" THEN "order_submitting"
                                          ELSE "order_created"

\* Some sessions have walked to REVIEW, the rest of the references are free.
Init ==
  /\ sessions \in [SessionRefs ->
       Opt([correlation : Correlations, state : {"review"}, order : {None},
            rotated : {FALSE}])]
  /\ lapsed = {}
  /\ idempotent = [s \in SessionRefs |-> {}]
  /\ handles = [h \in Handles |-> None]
  /\ issued = [c \in Confirmations |-> None]
  /\ orders = [c \in ClientRefs |-> None]
  /\ call = [t \in Threads |-> None]
  /\ outcome = [t \in Threads |-> "none"]
  /\ now = 0 /\ moves = 0 /\ replaced = 0

(* prepare_confirmation.  XBOS names a confirmation after the quote version  *)
(* and the service context alone, so preparing again, for this session or    *)
(* another one, replaces the material under the same reference.  Its steps   *)
(* commute with those of other calls: one action stands for them.            *)
PrepareConfirmation(s, h, conf, m) ==
  /\ Valid(s)
  /\ handles[h] = None
  /\ now < m.expires
  /\ issued' = [issued EXCEPT ![conf] = m]
  /\ handles' = [handles EXCEPT ![h] =
       [session |-> s, conf |-> conf, material |-> m, claim |-> None]]
  /\ UNCHANGED <<sessions, idempotent, lapsed, orders, call, outcome,
                 now, moves, replaced>>

-----------------------------------------------------------------------------
(* submit.                                                                   *)
Goto(t, pc) == call' = [call EXCEPT ![t].pc = pc] /\ UNCHANGED outcome

Begin(step, t) ==
  /\ call' = [call EXCEPT ![t].pc = "lookup", ![t].step = step]
  /\ UNCHANGED outcome

Finish(t, how) ==
  /\ call' = [call EXCEPT ![t] = None]
  /\ outcome' = [outcome EXCEPT ![t] = how]

Reject(t) == Finish(t, "rejected")

BeginSubmit(t, s, h, c) ==
  /\ Idle(t)
  /\ call' = [call EXCEPT ![t] =
       [pc |-> "validate", session |-> s, handle |-> h, client |-> c,
        epoch |-> now, step |-> "start", seen |-> None]]
  /\ outcome' = [outcome EXCEPT ![t] = "none"]
  /\ UNCHANGED <<channelVars, orders, worldVars>>

\* validate_active_session, the handle's record and its binding.  A record
\* changes in nothing but its claim, so reading it here or later is the same.
AnyHandle(t) ==   \* variant: another session's handle will do
  Valid(call[t].session) /\ Record(t) # None

OwnHandle(t) ==
  /\ Valid(call[t].session)
  /\ Record(t) # None
  /\ Record(t).session = call[t].session

Validate(t) ==
  /\ At(t, "validate")
  /\ IF OwnHandle(t)
     THEN /\ call' = [call EXCEPT ![t].pc = "resolve",
                                  ![t].seen = sessions[call[t].session]]
          /\ UNCHANGED outcome
     ELSE Reject(t)
  /\ UNCHANGED <<channelVars, orders, worldVars>>

\* XBOS still stands by the confirmation, it has not expired and its material
\* is what the customer was shown.
Unchanged(t) ==
  LET authoritative == issued[Record(t).conf] IN
  /\ authoritative # None
  /\ call[t].epoch < authoritative.expires
  /\ authoritative = Record(t).material

ResolveConfirmation(t) ==
  /\ At(t, "resolve")
  /\ IF Unchanged(t) THEN Goto(t, "claim") ELSE Reject(t)
  /\ UNCHANGED <<channelVars, orders, worldVars>>

\* Labels from which a submit goes on without starting the transition again.
RetryableOnceShown == {"order_created"}   \* variant: no retry before that

Retryable == {"order_submitting", "order_created"}

\* claim_confirmation under the provenance lock, then the label the session had
\* when it was validated decides: start, retry, or refuse with the claim made.
ClaimableByAnyone(t) == TRUE   \* variant: takes a claimed handle over

Claimable(t) == Record(t).claim \in {None, call[t].client}

ClaimedLater(t) == handles   \* variant: the claim is left for later

Claimed(t) == [handles EXCEPT ![call[t].handle].claim = call[t].client]

ClaimConfirmation(t) ==
  /\ At(t, "claim")
  /\ IF Claimable(t)
     THEN /\ handles' = Claimed(t)
          /\ CASE call[t].seen.state = "review" -> Begin("start", t)
               [] call[t].seen.state \in Retryable -> Goto(t, "submit")
               [] OTHER -> Reject(t)
     ELSE Reject(t) /\ UNCHANGED handles
  /\ UNCHANGED <<sessions, idempotent, orders, worldVars>>

\* transition, as submit uses it twice: to ORDER_SUBMITTING before XBOS is
\* asked and to ORDER_CREATED on the evidence of the order XBOS answered with.
AfterTransition(t) ==
  IF call[t].step = "start" THEN Goto(t, "submit") ELSE Finish(t, "order")

Lookup(t) ==
  /\ At(t, "lookup")
  /\ IF Key(t) \in idempotent[call[t].session]
     THEN AfterTransition(t)
     ELSE Goto(t, "get")
  /\ UNCHANGED <<channelVars, orders, worldVars>>

MatchesAnyOrder(t, current) == TRUE   \* variant: shows any order

MatchesSession(t, current) ==
  call[t].step = "result" => current.order \in {None, call[t].client}

Get(t) ==
  LET current == sessions[call[t].session] IN
  /\ At(t, "get")
  /\ IF /\ ~current.rotated
        /\ Target(t) \in Transitions[current.state]
        /\ MatchesSession(t, current)
     THEN /\ call' = [call EXCEPT ![t].pc = "put", ![t].seen = current]
          /\ UNCHANGED outcome
     ELSE Reject(t)
  /\ UNCHANGED <<channelVars, orders, worldVars>>

\* The whole snapshot read by Get is written back.
Put(t) ==
  /\ At(t, "put")
  /\ sessions' = [sessions EXCEPT ![call[t].session] =
       [call[t].seen EXCEPT
          !.state = Target(t),
          !.order = IF call[t].step = "result" THEN call[t].client ELSE @]]
  /\ Goto(t, "record")
  /\ UNCHANGED <<idempotent, handles, orders, worldVars>>

RecordResult(t) ==
  /\ At(t, "record")
  /\ idempotent' = [idempotent EXCEPT ![call[t].session] = @ \cup {Key(t)}]
  /\ AfterTransition(t)
  /\ UNCHANGED <<sessions, handles, orders, worldVars>>

(* submit_order at XBOS, under its lock.                                     *)
Ordered(conf) == {c \in ClientRefs : orders[c] # None /\ orders[c].conf = conf}

TakenByNobody(t) == FALSE   \* variant: a confirmation may be ordered twice

TakenByAnother(t) == Ordered(Record(t).conf) \ {call[t].client} # {}

Conflicts(t) ==
  \/ issued[Record(t).conf] = None
  \/ OrderFor(t) # None /\ OrderFor(t).conf # Record(t).conf
  \/ OrderFor(t) = None /\ TakenByAnother(t)

\* The result must answer this request: same confirmation and correlation (it
\* is found by its client reference).
Accept(t, order) ==
  IF /\ order.conf = Record(t).conf
     /\ order.correlation = sessions[call[t].session].correlation
  THEN Goto(t, "latest")
  ELSE Reject(t)

SubmitConflict(t) ==
  /\ At(t, "submit")
  /\ Conflicts(t)
  /\ Reject(t)
  /\ UNCHANGED <<channelVars, orders, worldVars>>

SubmitAgain(t) ==
  /\ At(t, "submit")
  /\ ~Conflicts(t) /\ OrderFor(t) # None
  /\ Accept(t, OrderFor(t))
  /\ UNCHANGED <<channelVars, orders, worldVars>>

NewOrder(t) ==
  [conf |-> Record(t).conf,
   correlation |-> sessions[call[t].session].correlation]

SubmitOrder(t) ==
  /\ At(t, "submit")
  /\ ~Conflicts(t) /\ OrderFor(t) = None
  /\ orders' = [orders EXCEPT ![call[t].client] = NewOrder(t)]
  /\ \/ Goto(t, "latest")
     \/ "lose" \in Happenings /\ Goto(t, "reconcile")   \* the answer is lost
  /\ UNCHANGED <<channelVars, worldVars>>

SubmitLost(t) ==   \* the request is lost before it has an effect
  /\ At(t, "submit")
  /\ "lose" \in Happenings
  /\ ~Conflicts(t) /\ OrderFor(t) = None
  /\ Goto(t, "reconcile")
  /\ UNCHANGED <<channelVars, orders, worldVars>>

\* get_order_by_client_ref after an unknown outcome.
UnknownIsSuccess(t) == Goto(t, "latest")   \* variant: hopes for the best

UnknownOutcome(t) == Finish(t, "unknown")

Reconcile(t) ==
  /\ At(t, "reconcile")
  /\ IF OrderFor(t) = None THEN UnknownOutcome(t) ELSE Accept(t, OrderFor(t))
  /\ UNCHANGED <<channelVars, orders, worldVars>>

\* The session is read again; evidence of the order is issued for it.
Latest(t) ==
  LET latest == sessions[call[t].session] IN
  /\ At(t, "latest")
  /\ CASE latest.state = "order_created" ->
            IF latest.order \in {None, call[t].client}
            THEN Finish(t, "order")
            ELSE Reject(t)
       [] latest.state = "order_submitting" -> Begin("result", t)
       [] OTHER -> Reject(t)
  /\ UNCHANGED <<channelVars, orders, worldVars>>

Step(t) ==
  \/ Validate(t) \/ ResolveConfirmation(t) \/ ClaimConfirmation(t)
  \/ Lookup(t) \/ Get(t) \/ Put(t) \/ RecordResult(t)
  \/ SubmitConflict(t) \/ SubmitAgain(t) \/ SubmitOrder(t) \/ SubmitLost(t)
  \/ Reconcile(t) \/ Latest(t)

-----------------------------------------------------------------------------
(* What happens around a submit.                                             *)

\* resume_session: the successor is a copy under a new reference.
Rotate(s, fresh) ==
  /\ "rotate" \in Happenings
  /\ Valid(s) /\ ~Exists(fresh)
  /\ sessions' = [sessions EXCEPT ![s].rotated = TRUE, ![fresh] = sessions[s]]
  /\ UNCHANGED <<lapsed, idempotent, handles, issued, orders, call, outcome,
                 now, moves, replaced>>

\* The session expires or its table is reassigned.
Lapse(s) ==
  /\ "lapse" \in Happenings
  /\ s \notin lapsed
  /\ lapsed' = lapsed \cup {s}
  /\ UNCHANGED <<channelVars, issued, orders, call, outcome, now, moves,
                 replaced>>

\* Another call of transition, to a label that needs no evidence.
Move(s, target) ==
  /\ "move" \in Happenings /\ moves < MaxMoves
  /\ Exists(s) /\ ~sessions[s].rotated
  /\ target \in Transitions[sessions[s].state]
  /\ sessions' = [sessions EXCEPT ![s].state = target]
  /\ moves' = moves + 1
  /\ UNCHANGED <<lapsed, idempotent, handles, issued, orders, call, outcome,
                 now, replaced>>

\* XBOS replaces the material of a confirmation, or withdraws it.
Replace(conf, m) ==
  /\ "replace" \in Happenings /\ replaced < MaxReplaced
  /\ issued[conf] # None
  /\ issued' = [issued EXCEPT ![conf] = m]
  /\ replaced' = replaced + 1
  /\ UNCHANGED <<channelVars, lapsed, orders, call, outcome, now, moves>>

Tick ==
  /\ "tick" \in Happenings /\ now < MaxTime
  /\ now' = now + 1
  /\ UNCHANGED <<channelVars, lapsed, issued, orders, call, outcome, moves,
                 replaced>>

BoundedMaterials == [content : Contents, expires : 1..(MaxTime + 1)]

Around ==
  \/ \E s, fresh \in SessionRefs : Rotate(s, fresh)
  \/ \E s \in SessionRefs : Lapse(s)
  \/ \E s \in SessionRefs, target \in MoveTargets : Move(s, target)
  \/ \E conf \in Confirmations, m \in Opt(BoundedMaterials) : Replace(conf, m)
  \/ Tick

Prepare ==
  \E s \in SessionRefs, h \in Handles, conf \in Confirmations,
     m \in BoundedMaterials : PrepareConfirmation(s, h, conf, m)

Begins(t) ==
  \E s \in SessionRefs, h \in Handles, c \in ClientRefs : BeginSubmit(t, s, h, c)

Next == Prepare \/ Around \/ \E t \in Threads : Begins(t) \/ Step(t)

Spec == Init /\ [][Next]_vars

\* Threads run, callers keep calling submit, and a transport that is tried for
\* ever is not lossy for ever: what a retry relies on.
FairSpec ==
  Spec /\ \A t \in Threads :
            WF_vars(Step(t)) /\ WF_vars(Begins(t)) /\ SF_vars(SubmitOrder(t))
-----------------------------------------------------------------------------
(* Properties.                                                               *)

\* One canonical order effect: an XBOS confirmation is spent by at most one
\* order, however many handles, sessions, threads and lost answers there are.
OneOrderPerConfirmation ==
  \A c, d \in ClientRefs :
    orders[c] # None /\ orders[d] # None /\ orders[c].conf = orders[d].conf
      => c = d

\* No order without consent: behind every order stands a handle the server
\* issued for that confirmation, to a session of the order's correlation, and
\* claimed for exactly the order's client reference.
OrderIsClaimed ==
  \A c \in ClientRefs :
    orders[c] # None =>
      \E h \in Handles :
        /\ handles[h] # None
        /\ handles[h].claim = c
        /\ handles[h].conf = orders[c].conf
        /\ sessions[handles[h].session] # None
        /\ sessions[handles[h].session].correlation = orders[c].correlation

\* No session waits for an order nobody may make: behind ORDER_SUBMITTING
\* stands a claimed handle, issued to a session of its correlation (itself, or
\* one it was rotated from), however the submit that moved it there was refused,
\* lost or overtaken (claim_confirmation comes first and is never released).
SubmittingIsClaimed ==
  \A s \in SessionRefs :
    Exists(s) /\ sessions[s].state = "order_submitting" =>
      \E h \in Handles :
        /\ handles[h] # None /\ handles[h].claim # None
        /\ Exists(handles[h].session)
        /\ sessions[handles[h].session].correlation = sessions[s].correlation

\* Whoever submit answers with an order gets the order XBOS has under the
\* client reference, made from the confirmation behind the handle submitted,
\* whichever answers were lost and whichever submits overlapped.
AnswerIsTheOrder ==
  [][\A t \in Threads :
       outcome'[t] = "order" /\ outcome[t] # "order" =>
         /\ OrderFor(t) # None
         /\ OrderFor(t).conf = Record(t).conf
         /\ Record(t).claim = call[t].client]_vars

\* An order a session shows is never replaced or forgotten, through retries,
\* second handles, hand-offs and rotations (one submit at a time; overlapping
\* submits can forget it, see README).
ShownOrderIsKept ==
  [][\A s \in SessionRefs :
       Exists(s) /\ sessions[s].order # None =>
         sessions'[s].order = sessions[s].order]_vars

Shows(s, c) == Exists(s) /\ sessions[s].order = c

\* Session s waits in ORDER_SUBMITTING for the order it claimed with h as c,
\* and its confirmation still stands.
Waiting(s, h, c) ==
  /\ Valid(s) /\ sessions[s].state = "order_submitting"
  /\ handles[h] # None /\ handles[h].session = s /\ handles[h].claim = c
  /\ issued[handles[h].conf] = handles[h].material
  /\ now < handles[h].material.expires

\* A retried submit finishes what a lost request or answer left half done: a
\* session does not wait for ever, unless what it waits on stops being so.
RetryShowsTheOrder ==
  \A s \in SessionRefs, h \in Handles, c \in ClientRefs :
    Waiting(s, h, c) ~> Shows(s, c) \/ ~Waiting(s, h, c)

ClaimOf == [h \in Handles |-> IF handles[h] = None THEN None ELSE handles[h].claim]

SpentBy == [c \in ClientRefs |-> IF orders[c] = None THEN None ELSE orders[c].conf]

Promise == INSTANCE OrderPromise WITH claimed <- ClaimOf, ordered <- SpentBy

\* Claims and orders behave as the abstract promise, for every interleaving.
ImplementsPromise == Promise!Spec
=============================================================================
