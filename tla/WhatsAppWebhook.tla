---------------------------- MODULE WhatsAppWebhook ----------------------------
(* The way of a message in and of its answer out: Meta keeps a callback and  *)
(* delivers it until it is answered with 200, the HTTP shell verifies and    *)
(* normalises it, W1WhatsAppRuntime.handle_webhook takes its messages        *)
(* through the conversation one after the other, and Meta's API accepts or   *)
(* refuses each reply.  Composes WhatsAppConversation with its transport.    *)
(* The shell keeps dispatch disabled so far; with dispatch it is taken to    *)
(* answer 200 once handle_webhook returned and an error if it raised.        *)
EXTENDS WhatsAppConversation, Sequences

CONSTANTS
  Callbacks,    \* callbacks Meta has for the channel
  Payloads,     \* what a callback may carry
  MaxFailures   \* bound on ports that raise, refused replies, lost
                \* answers and timeouts

\* The messages in the order they are listed, and what else there is: delivery
\* statuses, and any piece that makes the whole callback unacceptable, as an
\* unknown field, an image, a list that is there but empty, a missing id.
Payload ==
  [messages : Seq(Message), other : SUBSET {"status", "unsupported"}]

Signature == {"missing", "wrong", "right"}

\* A thread at work on a callback; Meta still waits for its answer if open.
Delivery ==
  [callback : Callbacks, index : Nat \ {0}, step : {"message", "apology"},
   open : BOOLEAN]

ASSUME WebhookAssumption ==
  /\ Payloads \subseteq Payload
  /\ MaxFailures \in Nat
  /\ None \notin Delivery

VARIABLES
  runtime,     \* the runtime's configuration
  subscribed,  \* Meta: the subscription was verified
  sent,        \* Meta: what each callback is
  waiting,     \* Meta: callbacks it is going to deliver
  status,      \* Meta: the last answer to each callback, 0 before any
  delivery,    \* the callback each thread is handling
  taken,       \* how often each message was taken up
  answered,    \* the messages of each callback that got an answer
  failures

meta     == <<subscribed, sent, waiting, status>>
hookVars == <<runtime, meta, delivery, taken, answered, failures>>

-----------------------------------------------------------------------------
(* What a callback is worth.                                                 *)
SupportedIfAny(payload) ==   \* variant: unknown pieces are skipped
  payload.messages # <<>> \/ "status" \in payload.other

SupportedWithMessage(payload) ==   \* variant: delivery statuses alone are refused
  payload.messages # <<>> /\ "unsupported" \notin payload.other

\* normalize_provider_callback raises for any piece it does not know, and for a
\* callback that has neither messages nor statuses.
Supported(payload) ==
  /\ payload.messages # <<>> \/ "status" \in payload.other
  /\ "unsupported" \notin payload.other

Messages(c) == sent[c].payload.messages

\* receive_meta_callback: configuration, then signature, then payload.
Verdict(c) ==
  CASE ~ runtime.configured -> 503
    [] runtime.configured /\ sent[c].signature # "right" -> 401
    [] /\ runtime.configured /\ sent[c].signature = "right"
       /\ ~ Supported(sent[c].payload) -> 400
    [] /\ runtime.configured /\ sent[c].signature = "right"
       /\ Supported(sent[c].payload) -> 200

WebhookTypeOK ==
  /\ TypeOK
  /\ runtime \in [configured : BOOLEAN, dispatch : BOOLEAN]
  /\ subscribed \in BOOLEAN
  /\ sent \in [Callbacks -> [signature : Signature, payload : Payloads]]
  /\ waiting \subseteq Callbacks
  /\ status \in [Callbacks -> {0, 200, 400, 401, 500, 503}]
  /\ delivery \in [Threads -> Opt(Delivery)]
  /\ DOMAIN taken = Callbacks /\ DOMAIN answered = Callbacks
  /\ \A c \in Callbacks : /\ taken[c] \in [DOMAIN Messages(c) -> Nat]
                          /\ answered[c] \subseteq DOMAIN Messages(c)
  /\ failures \in 0..MaxFailures
  /\ \A t \in Threads :
       /\ call[t] # None => delivery[t] # None /\ delivery[t].step = "message"
       /\ delivery[t] # None => Verdict(delivery[t].callback) = 200

WebhookInit ==
  /\ Init
  /\ runtime \in [configured : BOOLEAN, dispatch : BOOLEAN]
  /\ subscribed = FALSE
  /\ sent \in [Callbacks -> [signature : Signature, payload : Payloads]]
  /\ waiting = Callbacks
  /\ status = [c \in Callbacks |-> 0]
  /\ delivery = [t \in Threads |-> None]
  /\ taken = [c \in Callbacks |-> [k \in DOMAIN Messages(c) |-> 0]]
  /\ answered = [c \in Callbacks |-> {}]
  /\ failures = 0

-----------------------------------------------------------------------------
(* The HTTP shell.                                                           *)
VerifiesSubscription(mode, token) == mode = "subscribe" /\ token = "right"

\* Meta delivers once its challenge was returned.
Subscribe(mode, token) ==
  /\ ~ subscribed /\ runtime.configured
  /\ subscribed' = VerifiesSubscription(mode, token)
  /\ UNCHANGED <<vars, runtime, sent, waiting, status, delivery, taken,
                 answered, failures>>

Deliverable(c) == subscribed /\ c \in waiting

\* Meta keeps what was not answered with 200.
Refuse(c) ==
  /\ Deliverable(c) /\ Verdict(c) # 200
  /\ status' = [status EXCEPT ![c] = Verdict(c)]
  /\ UNCHANGED <<vars, runtime, subscribed, sent, waiting, delivery, taken,
                 answered, failures>>

Fail == failures < MaxFailures /\ failures' = failures + 1

Heard(c) ==
  /\ status' = [status EXCEPT ![c] = 200]
  /\ waiting' = waiting \ {c}
  /\ UNCHANGED failures

AnswerLost(c) ==
  /\ Fail
  /\ waiting' = waiting \cup {c}
  /\ UNCHANGED status

\* What the shell does today with a callback it accepts.
Accept(c) ==
  /\ Deliverable(c) /\ Verdict(c) = 200 /\ ~ runtime.dispatch
  /\ Heard(c) \/ AnswerLost(c)
  /\ UNCHANGED <<vars, runtime, subscribed, sent, delivery, taken, answered>>

-----------------------------------------------------------------------------
(* handle_webhook.                                                           *)
Handling(t, step) == delivery[t] # None /\ delivery[t].step = step

Callback(t) == delivery[t].callback
Index(t)    == delivery[t].index

Receive(t, c) ==
  /\ delivery[t] = None
  /\ Deliverable(c) /\ Verdict(c) = 200 /\ runtime.dispatch
  /\ delivery' = [delivery EXCEPT ![t] =
       [callback |-> c, index |-> 1, step |-> "message", open |-> TRUE]]
  /\ waiting' = waiting \ {c}
  /\ UNCHANGED <<vars, runtime, subscribed, sent, status, taken, answered,
                 failures>>

\* The next message, with the state loaded for its sender.
NextMessage(t) ==
  /\ Handling(t, "message") /\ call[t] = None
  /\ Index(t) \in DOMAIN Messages(Callback(t))

TakeUp(t) ==
  /\ NextMessage(t)
  /\ call' = [call EXCEPT ![t] =
       [pc |-> "route", message |-> Messages(Callback(t))[Index(t)],
        state |-> stored]]
  /\ taken' = [taken EXCEPT ![Callback(t)][Index(t)] = @ + 1]
  /\ UNCHANGED <<stored, world, handled, runtime, meta, delivery, answered,
                 failures>>

Apologetic(t) == delivery' = [delivery EXCEPT ![t].step = "apology"]

LoadFails(t) ==
  /\ NextMessage(t)
  /\ Apologetic(t)
  /\ Fail
  /\ UNCHANGED <<vars, runtime, meta, taken, answered>>

\* The conversation goes on as in WhatsAppConversation.
Converse(t) ==
  /\ \/ Route(t) \/ PrepareFails(t) \/ NotReady(t) \/ Submit(t)
     \/ SubmitFails(t) \/ PaymentOptionsFail(t) \/ Save(t)
     \/ \E c \in Confirmations : Prepare(t, c)
     \/ \E options \in [order : Confirmations, methods : SUBSET Methods \ {{}}] :
          PaymentOptions(t, options)
  /\ UNCHANGED hookVars

\* Meta's API took the reply or the apology: the loop goes on.
Answered(t) ==
  /\ answered' = [answered EXCEPT ![Callback(t)] = @ \cup {Index(t)}]
  /\ delivery' = [delivery EXCEPT ![t].index = @ + 1, ![t].step = "message"]

Reply(t) ==
  /\ Send(t)
  /\ Answered(t)
  /\ UNCHANGED <<runtime, meta, taken, failures>>

\* A reply Meta refuses, for now or for good, or one too long to be sent.
ReplyRefused(t) ==
  /\ Send(t)
  /\ Apologetic(t)
  /\ Fail
  /\ UNCHANGED <<runtime, meta, taken, answered>>

Interrupted(t) ==
  /\ Abort(t)
  /\ Apologetic(t)
  /\ Fail
  /\ UNCHANGED <<runtime, meta, taken, answered>>

Apologise(t) ==
  /\ Handling(t, "apology")
  /\ Answered(t)
  /\ UNCHANGED <<vars, runtime, meta, taken, failures>>

\* The apology is refused as well: the exception leaves the loop, and the rest
\* of the callback with it.
SkipMessage(t) ==   \* variant: the loop swallows the failure
  /\ delivery' = [delivery EXCEPT ![t].index = @ + 1, ![t].step = "message"]
  /\ UNCHANGED <<status, waiting>>

LeaveLoop(t) ==
  /\ delivery' = [delivery EXCEPT ![t] = None]
  /\ IF delivery[t].open
     THEN /\ status' = [status EXCEPT ![Callback(t)] = 500]
          /\ waiting' = waiting \cup {Callback(t)}
     ELSE UNCHANGED <<status, waiting>>

ApologyRefused(t) ==
  /\ Handling(t, "apology")
  /\ LeaveLoop(t)
  /\ Fail
  /\ UNCHANGED <<vars, runtime, subscribed, sent, taken, answered>>

Return(t) ==
  /\ Handling(t, "message") /\ call[t] = None
  /\ Index(t) \notin DOMAIN Messages(Callback(t))
  /\ delivery' = [delivery EXCEPT ![t] = None]
  /\ IF delivery[t].open
     THEN Heard(Callback(t)) \/ AnswerLost(Callback(t))
     ELSE UNCHANGED <<status, waiting, failures>>
  /\ UNCHANGED <<vars, runtime, subscribed, sent, taken, answered>>

\* Meta waits no longer and will deliver again; the thread goes on unheard.
TimeOut(t) ==
  /\ delivery[t] # None /\ delivery[t].open
  /\ delivery' = [delivery EXCEPT ![t].open = FALSE]
  /\ waiting' = waiting \cup {Callback(t)}
  /\ Fail
  /\ UNCHANGED <<vars, runtime, subscribed, sent, status, taken, answered>>

Handle(t) ==
  \/ TakeUp(t) \/ LoadFails(t) \/ Converse(t) \/ Reply(t) \/ ReplyRefused(t)
  \/ Interrupted(t) \/ Apologise(t) \/ ApologyRefused(t) \/ Return(t)

WebhookNext ==
  \/ \E mode \in {"subscribe", "unsubscribe"}, token \in {"right", "wrong"} :
       Subscribe(mode, token)
  \/ \E c \in Callbacks :
       Refuse(c) \/ Accept(c) \/ \E t \in Threads : Receive(t, c)
  \/ \E t \in Threads : Handle(t) \/ TimeOut(t)

\* Meta subscribes and delivers again and again, and threads run.
WebhookSpec ==
  /\ WebhookInit /\ [][WebhookNext]_<<vars, hookVars>>
  /\ WF_<<vars, hookVars>>(Subscribe("subscribe", "right"))
  /\ \A c \in Callbacks :
       WF_<<vars, hookVars>>(Accept(c) \/ \E t \in Threads : Receive(t, c))
  /\ \A t \in Threads : WF_<<vars, hookVars>>(Handle(t))
-----------------------------------------------------------------------------
(* Properties.                                                               *)

\* A callback that handle_webhook acknowledged has every message answered, by
\* its reply or an apology, in this delivery or an earlier one: what could not
\* be answered is never acknowledged away.
AcknowledgedIsAnswered ==
  runtime.dispatch =>
    \A c \in Callbacks :
      status[c] = 200 => answered[c] = DOMAIN Messages(c)

\* A customer's later message is not answered before her earlier one of the
\* same callback, although deliveries overlap and start over.
AnsweredInOrder ==
  \A c \in Callbacks : \A k \in answered[c] : 1..k \subseteq answered[c]

Genuine(c) ==
  /\ sent[c].signature = "right" /\ "unsupported" \notin sent[c].payload.other
  /\ Messages(c) # <<>> \/ "status" \in sent[c].payload.other

\* The times messages of a kind were taken up out of genuine callbacks: the
\* n-th time of the k-th message of c is <<c, k, n>>.
Uptakes(kind) ==
  UNION {UNION {{<<c, k, n>> : n \in 1..taken[c][k]} :
                k \in {j \in DOMAIN Messages(c) : Messages(c)[j].kind = kind}} :
         c \in {g \in Callbacks : Genuine(g)}}

Taken(kind) == Cardinality(Uptakes(kind))

IssuedOnes == {c \in Confirmations : issued[c] # None}

\* Whatever reaches the cart, the confirmations and the orders was asked for
\* by a genuine callback: no more is added than adds were taken up, no more
\* confirmations are issued than services chosen, no more orders made than
\* confirmed.  A confirm that Meta delivers again orders nothing again, as an
\* order rests on a confirmation of its own: only a choice of service that is
\* delivered again can lead to a second one.
EffectsAreDelivered ==
  /\ Taken("qty") = 0 => \A i \in Items : stored.cart[i] <= Taken("add")
  /\ Cardinality(IssuedOnes) <= Taken("service")
  /\ Cardinality(ordered) <= Taken("order:confirm")
  /\ ordered \subseteq IssuedOnes

\* Meta's callbacks do not pile up: a genuine one, all of whose pieces the
\* channel knows, is acknowledged in the end, whatever failed on the way.
EveryCallbackIsAcknowledged ==
  \A c \in Callbacks :
    runtime.configured /\ Genuine(c) ~> status[c] = 200
=============================================================================
