# Verification of the XBOS customer channel

TLA+ models of the customer channel in `src/src/xbos_customer_channel`, checked
with TLC on small instances. Every safety property the passing runs check is also
proved with TLAPS for every instance, two of them under a hypothesis about
overlapping calls that the section on proofs explains. The channel talks to customers over
WhatsApp-like transports and to XBOS, which owns catalog, orders, payments and
fulfillment. Every piece of channel state lives in in-memory stores behind one lock each; the services read
a snapshot under the lock, release it, compute, and write under the lock again.
That pattern, and calls to XBOS between two of its steps, is where most of what
can go wrong comes from.

Paths below are relative to `src/src/xbos_customer_channel` unless they begin
with `src/`.

## Inventory

| Component | State it keeps | Operations | Talks to | What is hard | What makes it correct |
|---|---|---|---|---|---|
| Session service (`application/session_service.py`, `persistence/session_records.py`, `session_state.py`) | sessions, legacy aliases, idempotency results | create, resume (rotate), attach, transition, re-enter, validate | context port, identity bindings, provenance, reconciliation port | get and put are two lock acquisitions; rotation is a compare-and-set; evidence and retries in any order | one chain of rotations, immutable binding, labels backed by evidence, one move per key, finished sessions reopened by XBOS only |
| Provenance (`provenance.py`, `persistence/provenance_records.py`) | evidence handles, confirmation handles and their claims | issue, resolve, claim | session service, order service | handles are never consumed; claims race | a handle speaks for one session binding and is claimed for one client reference |
| Order service (`application/order_service.py`, `adapters/fake_order.py`) | none of its own; sessions, claims and XBOS orders | prepare confirmation, submit | session service, provenance, catalog, order port | submit takes ten steps, two of them transitions, around a call whose answer may be lost | one order per confirmation, orders are claimed, shown orders are real and kept, retries end |
| Entry tokens (`application/entry_service.py`, `persistence/entry_tokens.py`) | token records | issue, resolve | context port | attestation between read and consume | single use, no stale entry |
| Identity and consent (`application/identity_service.py`, `adapters/fake_identity.py`, `persistence/identity_records.py`) | subjects, identities, bindings, consents, policy | resolve, verify, link, restrict, bind, decide | identity port | states reached in any order; policy read outside the lock | verified by own evidence, consent decided under the policy in force |
| Catalog and quote (`application/catalog_service.py`, `catalog.py`) | catalog session held by the caller | browse, add, review, accept | catalog port | XBOS changes under the customer | what is confirmed was acknowledged |
| Order lifecycle (`application/order_lifecycle_service.py`, `adapters/fake_order_lifecycle.py`) | none; XBOS keeps decisions and orders | request change, request cancellation, three queries | session store, lifecycle port | retries when the order has moved on | each client reference decided and acted on once, an accepted cancellation is final |
| W1 conversation (`application/w1_*.py`) | cart, cursor and checkout state of a customer | one message in, one message out | state port, checkout boundary, Meta outbound | load and save without a version; old buttons; lost sends | the review is of the cart, payment is for the order |
| State reconciliation (`adapters/fake_state_reconciliation.py`) | latest projection per session | register, get | session service | projections out of order | see sessions |
| Payment experience (`application/payment_experience_service.py`, `adapters/fake_payment_request.py`) | none; the caller keeps the projection it fetched | fetch the payment request of a session's order, present a method, simulate an outcome | session store, payment request port | the session is read before XBOS is asked; projections of any age are presented | what is offered is for the order shown and was permitted for it |
| Meta transport, HTTP runtime (`transports/meta_whatsapp.py`, `runtime/`) | none; Meta keeps callbacks until they are answered with 200 | verify a subscription, verify and normalise a callback, send a reply | Meta, W1 runtime | redelivery, overlapping deliveries, refused replies and apologies, timeouts | acknowledged means answered, in order; every genuine callback is acknowledged in the end |
| XC1 journey (`application/journey.py` and its fixtures) | a scripted journey | - | - | superseded by the above | not modelled |

The hazards of this code, each at the line where it bites, are in `PROJECT.json`
under `hazards`, with the properties that would notice them.

## Modules

| Module | Models | Checked by |
|---|---|---|
| `ChannelStates` | conversation labels, `TRANSITIONS`, evidence-gated labels, and what an XBOS projection supports | used by the next ones |
| `SessionRotation` | abstract: what the session store promises about references | refined by `CustomerSessions` and `SessionThreads` |
| `CustomerSessions` | session service, session, binding and provenance stores, with XBOS context and projections; every public call atomic, with the whole snapshot | `sessions`, `CustomerSessions_proofs` |
| `SessionThreads` | the same service at the grain of its lock, several threads, a reduced snapshot | `threads_*`, `SessionThreads_proofs` |
| `OrderPromise` | abstract: claims and orders | refined by `OrderSubmission` |
| `OrderSubmission` | `prepare_confirmation` and `submit` at the grain of locks and port calls, with the order fixture as XBOS | `orders_threads`, `orders_retry`, `OrderPayment_proofs` |
| `OrderPayment` | payment requests and methods, composed with all of `OrderSubmission` | `orders_payment`, `OrderPayment_proofs` |
| `EntryTokens` | issuing and resolving entry links, several threads | `entry_tokens`, `EntryTokens_proofs` |
| `IdentityConsent` | identities, verification, links, bindings, consent | `identity_consent`, `IdentityConsent_proofs` |
| `CatalogQuote` | browsing, cart, review, acknowledgement, XBOS changes | `catalog_quote`, `CatalogQuote_proofs` |
| `DecidedOnce` | abstract: client references, decisions and their effects | refined by `OrderLifecycle` |
| `OrderLifecycle` | change and cancellation requests, XBOS policy, stages | `order_lifecycle`, `OrderLifecycle_proofs` |
| `WhatsAppConversation` | W1 runtime, router and checkout, one message at a time per thread | `conversation`, `WhatsAppWebhook_proofs` |
| `WhatsAppWebhook` | subscription, verdict, the loop over a callback's messages, replies and redelivery, composed with all of `WhatsAppConversation` | `webhook`, `WhatsAppWebhook_proofs` |

`MC<module>` instantiates a module for TLC: constants given as functions, the
sets of projections, and the symmetry. A definition commented "variant" is a
faulty form of the one after it; the mutants of `PROJECT.json` put it in place of
the correct one to show that a property notices the fault.

How state and actions correspond to code:

- A store's dictionary is a function from references to records or `None`;
  server-issued random references are members of a set, taken when still unused.
- A thread inside a call is a record with a `pc` that names the next lock
  acquisition or port call, and the snapshot it carries (`seen`, `state`). In
  `CustomerSessions` a call is one step, and a call the code rejects is no step.
- XBOS is whatever the ports allow: contexts and tables are reassigned,
  confirmations replaced, prices changed, answers lost, by actions of their own.
  A call of a fixture is atomic, as a fixture stands for a remote service.
- Names are abstracted to what the checks compare. `context_binding_ref` is a
  table and a version; a fingerprint is the material it covers; an order is named
  after its client reference; a consent record is its fingerprint.

## Runs

Every passing run finishes within five minutes with two workers, most within one.
Deadlock is not checked: every bound is a guard (the clock, the calls of a
thread, the references) and the system stops when they are used up.

| Run | Instance | Why it is enough |
|---|---|---|
| `sessions` | two references, one alias, two keys, projections of a paid order and of another one that was canceled, a cart, one table reassigned | the alias, evidence of the predecessor and the old context meet the successor; both keys are retried with other targets, before and after a rotation; a finished session is re-entered on each projection. A chain longer than two is left to `threads_overlap` and the theorems |
| `threads_overlap` | two threads of three calls each, three references, two keys and two carts; every kind of call overlaps with every other | two resumes of one session race, with a third call inside either; a call is overtaken by a transition, an attach or a rotation, and writes or is refused afterwards |
| `threads_lost_rotation` | the same without transitions | one resume inside one attach, then another resume |
| `orders_threads` | two threads, two sessions and a reference for a successor (or three sessions, or one and two successors), two handles of one confirmation, two client references, lost answers, rotations at any point | every pair of submits that can compete |
| `orders_payment` | one thread, a session and its successor, two handles of two confirmations, two client references; rotation, hand-off and back to review, two payment policies | a second order of the same customer while the first is paid for; a policy replaced between offer and choice |
| `orders_retry` | one handle; everything that may happen, clock to 1 | liveness of one submit under all disturbances |
| `entry_tokens` | two threads, two tokens, table reassigned, clock to 1 | scan against scan and scan against reassignment |
| `identity_consent` | two subjects, attestations, parties and consent keys; one verification; the policy changes once | evidence of another subject, a second resolution, a relink, an old grant after a withdrawal, a policy change inside a decision |
| `catalog_quote` | two items, two prices, two changes | one change before a review and one after it, in the same and in another line |
| `order_lifecycle` | two threads, one order, two payloads and two client references for each kind of request, one preparation stage and one completion | retries with the same and with another payload, two requests of one kind under way at once, each against each stage |
| `conversation` | two threads, five messages, two confirmations, two methods | an order with its options and a chosen method takes five messages; browsing, service mode, confirm and add overlap |
| `webhook` | two threads, one callback with one of five payloads and any signature, three failures | each message of a callback fails, alone and with its apology, and the callback is delivered again, twice overlapping; callbacks meet only in the stored conversation, where `conversation` interleaves their messages |

What they show, one sentence each, is in `PROJECT.json`. The passing runs cover
type invariants and these properties:

- sessions: `RotationChain`, `EvidenceBacked`, `OneMovePerKey`,
  `ReferencesAreKept`, `ReopenedByXbosOnly`, `ImplementsRotation`; with threads
  `RotationUnlessLate` and `OnlyLateCallsLose`;
- orders: `OneOrderPerConfirmation`, `OrderIsClaimed`, `SubmittingIsClaimed`, `AnswerIsTheOrder`,
  `ImplementsPromise`, `RetryShowsTheOrder`, `ShownOrderIsKept` (one submit at a
  time); payment: `PaymentIsForShownOrder`, `OfferWasPermitted`;
- entry: `SingleUse`, `NoStaleEntry`; identity: `VerifiedByOwnEvidence`,
  `AllowedIsDecided`, `RetryKeepsWithdrawal`;
- catalog: `ChangesAreAcknowledged`; lifecycle: `ImplementsDecisions`,
  `CancellationIsFinal`;
- W1: `ReviewIsOfTheCart`, `PaymentIsForTheOrder`; its callbacks:
  `AcknowledgedIsAnswered`, `AnsweredInOrder`, `EffectsAreDelivered`,
  `EveryCallbackIsAcknowledged`.

### Where code and documents disagree

`threads_lost_rotation` ends in a counterexample to a comment of the code:
`attach_interaction_refs` writes back a snapshot it read earlier, a rotation in
between is undone, and the predecessor is rotated again, although "exactly one
caller may rotate an active predecessor" (`persistence/session_records.py:77`).
`transition` and `reenter` are built the same way. Nothing in the code keeps such
calls apart, and `threads_overlap` lets them overlap. What still holds is said
with a history variable, `late`: the calls whose session another call has written
since they read it. Resumes alone never rotate a session twice
(`RotationUnlessLate`), and whatever a session loses, it loses to a late call
(`OnlyLateCallsLose`).

The models also reach the following, by the same actions; no run is spent on them.

- Two transitions that overlap judge the same label and are both stored, so a
  label changes outside the closed matrix
  (`src/contracts/XC5_CONVERSATION_SESSION_STATE_CONTRACT_V1.md:42`); an attach
  put back late undoes a transition; a resume hands its successor the label and
  the cart it read before a transition or an attach changed them. These are the
  losses `OnlyLateCallsLose` excepts.
- A call repeated while the first is under way moves the session twice under one
  key (`MovedOncePerKey`, below).
- A canceled order is told canceled by a reconciliation, but
  `get_fulfillment_projection` (`adapters/fake_order_lifecycle.py:161`) goes on
  telling the stage the kitchen reported last. A second cancellation under another
  client reference is accepted and carried out again.
- A refused submit leaves its claim and the label `ORDER_SUBMITTING` behind.
- Of two concurrent submits under one client reference one may be refused,
  although `src/tests/test_cr2_authoritative_provenance.py:526` expects equal
  results; and a late write of the first transition erases the order the other
  submit has stored, which is why `ShownOrderIsKept` is checked with one thread.
- Material XBOS changes between the comparison and the submit is ordered
  (`src/contracts/CR2_AUTHORITATIVE_EVIDENCE_CONFIRMATION_PROVENANCE_SECURITY_CONTRACT_V1.md:105`).
- Acknowledging a quote's version acknowledges changes of lines added later,
  which were not shown (`src/contracts/XC4_CATALOG_QUOTE_CONTRACT_V1.md:34`). The
  code takes any text for an acknowledgement; the model assumes that a customer
  has only references of reviews she was shown.
- Nothing recognises a callback that is delivered again: an item is added twice,
  a service mode prepares a new confirmation. `EffectsAreDelivered` says how far
  that goes: no more than the messages taken up asked for, and every order for a
  confirmation of its own, so that an order confirmed twice stays one order.
- A payment projection is presented however old it is, so a method may be offered
  on a policy XBOS has replaced; `OfferWasPermitted` says "then or before".
- A review that was saved but whose message was lost can be confirmed by a typed
  or older button (`src/contracts/XC6_ORDER_DRAFT_CONFIRMATION_CONTRACT_V1.md:26`).

## Fairness

Two properties need any. For `RetryShowsTheOrder`, `FairSpec` of `OrderSubmission` assumes, for
each thread, weak fairness of `Step` (a thread that runs is scheduled: the code
blocks on nothing but short lock sections), weak fairness of `Begins` (the
customer keeps retrying, which is what the property is about; the code itself
does not retry), and strong fairness of `SubmitOrder` (the transport is not lossy
for ever). The last two are assumptions about the environment. The property says
of a waiting session that it comes to show the order or stops waiting: canceled,
rotated, no longer valid, or its confirmation expired or changed. In those cases
the code leaves the session as it is.

For `EveryCallbackIsAcknowledged`, `WebhookSpec` assumes weak fairness of the
subscription, of each callback's delivery (Meta delivers again until it hears
200, an assumption about Meta) and of each thread's next step (the loop of
`handle_webhook` blocks on nothing but its own calls, which time out). Failures
are not fair and not repeated for ever: `MaxFailures` bounds them, so the
property says that a callback outlives any bounded number of them.

## Proofs

The theorems hold for every value of the constants: any number of threads,
sessions, handles, orders, items, messages and callbacks, and any bounds. They
rest on the assumptions named in the modules, which TLC evaluates in the runs:
that `None` is not a record, a reference or a number, that tables and sets of
inputs have their type, that bounds are numbers. Five need one more hypothesis
about what calls overlap, stated in the theorem: `NoLatePut`, `RetriesWait` and
`TransitionsApart`, below. The code does not enforce them, and without them the
statements are false; of sessions and their labels, what holds without them is
stated too.

| Module | Theorem | Statement |
|---|---|---|
| `CustomerSessions_proofs` | `TypeCorrect`, `LinksLead`, `RotationIsChained`, `FactsAreBacked`, `KeysMoveOnce` | `Spec => []` of `TypeOK`, `LinksAreIssued`, `RotationChain`, `EvidenceBacked`, `OneMovePerKey` |
| | `RotationIsImplemented` | `Spec => ImplementsRotation` |
| | `BindingIsImmutable`, `ReferencesKept`, `ReopenedByXbos` | `Spec =>` `ImmutableBinding`, `ReferencesAreKept`, `ReopenedByXbosOnly` |
| `SessionThreads_proofs` | `TypeCorrect` | `Spec => []TypeOK`, whatever overlaps |
| | `LossesAreLate`, `RotationsAreSafe` | `Spec =>` `OnlyLateCallsLose`, `RotationUnlessLate`, whatever overlaps |
| | `RotatedOnce`, `RotationIsImplemented` | `Spec /\ NoLatePut =>` `[]SingleRotation`, `ImplementsRotation` |
| | `KeyMovesOnce` | `Spec /\ []RetriesWait => MovedOncePerKey` |
| `OrderPayment_proofs`, orders | `SubmitsAreGrounded`, `TypeCorrect`, `OrderedOnce`, `OrderedByClaim` | `Spec => []` of `OrderInv`, `TypeOK`, `OneOrderPerConfirmation`, `OrderIsClaimed` |
| | `NothingIsTakenBack`, `AnsweredWithTheOrder`, `PromiseIsImplemented` | `Spec =>` `[][Grows]_vars`, `AnswerIsTheOrder`, `ImplementsPromise` |
| | `SubmittedBehindClaim` | `Spec => []SubmittingIsClaimed` |
| | `ShownOrderStays` | `Spec /\ []TransitionsApart => ShownOrderIsKept` |
| the same, payment | `PaymentTypeCorrect`, `OfferedAsPermitted` | `PaymentSpec => []` of `PaymentTypeOK`, `OfferWasPermitted` |
| | `PaysForTheShownOrder` | `PaymentSpec /\ []TransitionsApart => []PaymentIsForShownOrder` |
| `OrderLifecycle_proofs` | `TypeCorrect`, `ToldAsDecided` | `Spec => []` of `TypeOK`, `ToldIsDecided` |
| | `CancellationsAreFinal`, `DecisionsAreImplemented` | `Spec =>` `CancellationIsFinal`, `ImplementsDecisions` |
| `EntryTokens_proofs` | `TypeCorrect`, `EntersOnce`, `NobodyEntersStale` | `Spec =>` `[]TypeOK`, `[]SingleUse`, `NoStaleEntry` |
| `IdentityConsent_proofs` | `TypeCorrect`, `VerifiedByOwn`, `AllowedByDecision` | `Spec => []` of `TypeOK`, `VerifiedByOwnEvidence`, `AllowedIsDecided` |
| | `WithdrawalsAreKept`, `NothingIsTakenBack` | `Spec =>` `RetryKeepsWithdrawal`, `[][Grows]_vars` |
| `CatalogQuote_proofs` | `TypeCorrect`, `AcknowledgedChanges`, `ReferencesNameTerms` | `Spec => []` of `TypeOK`, `ChangesAreAcknowledged`, `ReviewsAgree` |
| `WhatsAppWebhook_proofs` | `TypeCorrect`, `ReviewsMatch`, `PaysForTheOrder` | `Spec => []` of the conversation's `TypeOK`, `ReviewIsOfTheCart`, `PaymentIsForTheOrder` |
| | `WebhookTypeCorrect`, `AcknowledgedCallbacks`, `OrderOfAnswers`, `EffectsDelivered`, `ConversationBehindTheHook` | `WebhookSpec => []` of `WebhookTypeOK`, `AcknowledgedIsAnswered`, `AnsweredInOrder`, `EffectsAreDelivered`, `ReviewIsOfTheCart /\ PaymentIsForTheOrder` |

Most proofs have the same outline. A call in progress carries what it read some
steps ago, so an invariant of the stores alone is not inductive: the
strengthening says what a call may still rely on. It survives the steps of the
other threads because certain facts are never taken back. Where there are many
(orders, identity, the webhook) a module states them once as `Grows`, and a lemma
says that what a call rests on stays true under `Grows`; then each action is
looked at once for the thread that takes it.

*Sessions, calls atomic.* Three kinds of step exist: one that issues a session,
a rotation, and a call on one existing session. `CallHasEffect` sums up the
third kind once for all: it leaves everything that links sessions alone, keeps
what is backed by evidence backed, keeps references, reopens by an XBOS
projection only, and either leaves the count and keys alone or adds one to each.
`TypeOK` with `RotationChain` is inductive: a rotation takes an unissued
reference, so no issued session can have named it, and it turns the one session
without a successor into one with. `OneMovePerKey` is not inductive without
`KeysRecorded` (keys recorded are finite and none belong to an unissued
reference), nor without `RotationChain`, because a count is compared with the
predecessor's, which must not move any more: a rotated session is never moved by
a transition. Refinement maps a session to unissued, active, or its successor.
`LinksAreIssued` says what types alone do not: a legacy name, an XBOS projection
and an evidence record are of issued sessions, and a record still bears the
binding its session has, because no step changes the binding of an issued one.

*Sessions, lock by lock.* `ThreadsInv` (types, and that a session once issued
is there for ever) and `ReadsInv` need no hypothesis. `ReadsInv` is the heart: a
call that no other call has overtaken holds exactly what is stored (`UpToDate`),
because whoever writes a session marks all calls that hold a snapshot of it as
late. So a call that is not late judges and overwrites what is there, a
transition along the matrix, and a resume copies it, and every loss is a late
call's: `OnlyLateCallsLose`. A late resume is not harmless, as its successor
misses what came in between, but it cannot rotate again, since `rotate_if_active`
looks at what is stored: `RotationUnlessLate`. A late put can undo a rotation, as
`threads_lost_rotation` shows. `NoLatePut` says that none happens, which a
version compared in `put` would see to; late resumes remain. Then no link is
written back, `Chained` (a predecessor names the successor that names it) is
inductive, and with it come one successor per session and the refinement.
`KeyMovesOnce` needs something else,
that a client does not repeat a call that is still under way (`RetriesWait`).
Then `KeysInv` is inductive: a transition past its lookup holds a key that no
call has recorded meanwhile, however calls under other keys overlap. TLC finds a
counterexample to each of these statements when its hypothesis is dropped.

*Orders.* `Grounded` says what a submit holds after each of its steps: a session
that exists, a handle issued to that session, after the claim a handle claimed
for its own client reference, and after XBOS answered an order of that client
reference for the confirmation of that handle. `RecordsAreGrounded` says the
same of stored handles and sessions: an order a session shows is real. One order
per confirmation needs no such argument; it is XBOS's own bookkeeping, kept by
`submit_order` in one step. That an answer is the right order after a
retry does, because the order is looked up under a client reference read many
steps before. `SubmittingIsClaimed` rests on `ClaimsLast`, that claims are never
released, and on the claim of the submit that is about to move the label; a
rotation copies the label to a successor of the same correlation.
`ShownOrderStays` has the hypothesis `TransitionsApart`: of one
session, one call at most is between the reading and the putting of a
transition. Without it the statement is false: the transition to
`ORDER_SUBMITTING` of one submit may put back the record it read before another
submit stored its order. With it, a put is of the record that is stored
(`PutsAreFresh`); submits may overlap in every other way, each waiting for XBOS
while others claim and move.

*Payment.* `PaymentsAreGrounded` carries the same idea over a fetch: what was
read of a session, what XBOS returned and what was offered are all for an order
of the session's correlation, and each method offered is permitted by some
policy registered for it. Only which order the session shows needs `TransitionsApart`.

*Order lifecycle.* `DecisionsAreFiled`: a decision is filed under the key of its
request, and an accepted cancellation is on its order, the merchant's from the
start. No step takes a cancellation off an order, and XBOS judges a change by the
order as it is when it decides, not when the customer asked. The lemma about
`Decide` says that XBOS has exactly one answer for whatever an order has been
through. The refinement of `DecidedOnce` counts an effect with its decision.

*Entry tokens.* `SingleUse` needs that nobody entered with a token that was not
issued (`Unissued`). `NoStaleEntry` needs `Bindings`: what a token was issued
for is no newer than what the table was when the call began, and that no newer
than what it is now. Versions only grow, so an attestation that finds the
present version equal to the token's pins all three.

*Identity and consent.* `VerifiedByOwnEvidence` is inductive with the types;
`AllowedIsDecided` needs `ConsentsAreDecided`, that a decision in force is the
decision of some key and about the identity and purpose it is stored under.

*Catalog.* `ReviewsAgree`, `ShownIsQuoted` and `Faithful`: what a review showed at the present
version is what XBOS has, and a quote or a confirmation agrees with what was
shown at its version. Prices may change back, so versions, which only rise,
carry the argument.

*W1 and its callbacks.* A conversation's state is loaded and saved without a
version, so the invariant is one of single states: `Sound` holds of the stored
state and of every state some call carries, and it depends on the rest of the
system only through what confirmations were issued for and which orders exist,
neither of which is taken back. That is why it survives lost updates, and why it
holds of the composition with the transport, where messages come twice and out
of turn. For callbacks, a delivery in progress has all messages before its own
answered; since answers are kept, an acknowledgement finds them all.

`EffectsAreDelivered` compares what happened with what was taken up, and a message
taken up acts only some steps later. `EffectsInv` therefore counts both: what was
done plus what is still `Waiting` to be done is no more than what was `Taken`.
Taking up a message raises both sides, acting moves one from waiting to done, a
failure only lowers the left. That is about cardinalities, so the sets have to be
finite, and with any number of threads that is inductive itself: each step adds
one element at most. A cart is overwritten by a call that loaded it before, so
the bound is stated of the stored state and of every state a call carries.

### What stays with TLC

Liveness under fairness, `RetryShowsTheOrder` and `EveryCallbackIsAcknowledged`,
which the provers do not reach. Every safety property and every refinement the
passing runs check is proved.

## Bounds

Bounds are constants used in guards: `MaxTime`, `MaxVersion`, `MaxCalls`,
`MaxCreated`, `MaxBindings`, `MaxEvidence` (sessions and entry), `MaxMoves`,
`MaxReplaced` (orders), `MaxPolicyChanges` (identity), `MaxMessages`,
`MaxQuantity` (W1; in `webhook` above what redelivery can add), `MaxVersion`
(catalog changes), `MaxPolicies` (payment), `MaxFailures` (webhook). The theorems do not depend on
their values. One constant says what the environment does rather than how much:
`Happenings` (`OrderSubmission`) names the disturbances of an instance.

## Not modelled

- The amounts of a payment request and the outcomes of a simulated payment, which
  change no state of the channel.
- The bytes of a callback: a signature is right, wrong or missing, a payload is
  its messages in order and whether statuses or unsupported pieces come with them. `runtime/app.py` does
  not call `handle_webhook` yet (`"w1_dispatch": "disabled"`): the model has both
  the shell as it is and a shell that dispatches, answers 200 when
  `handle_webhook` returns and an error when it raises.
- The XC1 journey and its fixtures, superseded by the services (nothing calls
  it), the ports, which are interfaces only, acceptance scripts, contracts, governance.
- `resolve_material_input`: a classification of free text without state.
- Token codecs and keyed hashes: issued tokens are the tokens that decode.
- Options, quantities and totals of a quote; delivery fees and service areas.

## Plan

Done: every part that keeps or changes state is modelled and checked, and every
safety property and refinement the passing runs check is proved. What is left:

1. Compose W1 with `OrderSubmission`: replace the assumed checkout boundary by
   the service, and prove that one confirmation of a conversation still makes
   one order by refining the boundary `WhatsAppConversation` assumes. The
   repository has no implementation of that boundary yet.
2. When the service takes a lock around its transitions, or compares versions
   when it puts, replace `NoLatePut` and `TransitionsApart` by that code.
