------------------------ MODULE WhatsAppWebhook_proofs ------------------------
(* WhatsAppConversation, alone and behind its callbacks, for any number of   *)
(* items, confirmations, messages, callbacks and threads: the review is of   *)
(* the cart and the payment is for the order, what is acknowledged was       *)
(* answered, in order, and nothing comes of a message that was not taken up. *)
EXTENDS WhatsAppWebhook, FiniteSetTheorems, TLAPS

-----------------------------------------------------------------------------
(* The conversation.                                                         *)

\* What makes a conversation's state sound, whether it is stored or carried by
\* a call that read it long ago.
Sound(w) ==
  LET k == w.checkout IN
  /\ k.confirmation # None =>
       issued[k.confirmation] # None /\ issued[k.confirmation].cart = w.cart
  /\ k.options # None =>
       /\ k.confirmation \in ordered
       /\ k.order = k.confirmation
       /\ k.options.order = k.order
  /\ k.method # None => k.options # None /\ k.method \in k.options.methods

ConversationInv ==
  /\ TypeOK
  /\ Sound(stored)
  /\ \A t \in Threads : call[t] # None => Sound(call[t].state)

\* What no step takes back: a confirmation stays what it was issued for, an
\* order is never unmade.
Grows ==
  /\ \A c \in Confirmations : issued[c] # None => issued'[c] = issued[c]
  /\ ordered \subseteq ordered'

\* States in which nothing is reviewed, offered or chosen.
Blank(k) == k.confirmation = None /\ k.options = None /\ k.method = None

-----------------------------------------------------------------------------
(* Lemmas about what the router makes of a state.                            *)
LEMMA StateFields ==
  ASSUME NEW w \in W1RuntimeConversationState
  PROVE  /\ w.cart \in Cart /\ w.navigation \in W1NavigationCursor
         /\ w.checkout \in W1CheckoutState
         /\ w.navigation.section \in Opt(Sections) /\ w.navigation.item \in Opt(Items)
         /\ w.navigation.quantity \in Quantities
         /\ w.checkout.confirmation \in Opt(Confirmations)
         /\ w.checkout.options \in Opt(Options)
  BY DEF W1RuntimeConversationState, W1NavigationCursor, W1CheckoutState

LEMMA Stages ==
  ASSUME NEW s \in {"none", "cart_review", "service_mode", "order_review",
                    "payment_options", "method_selected", "error"}
  PROVE  /\ Stage(s) \in W1CheckoutState /\ Blank(Stage(s))
         /\ Stage(s) = [stage |-> s, confirmation |-> None, order |-> None,
                        options |-> None, method |-> None]
         /\ NoCheckout \in W1CheckoutState /\ Blank(NoCheckout)
         /\ NoNavigation \in W1NavigationCursor
  BY DEF Stage, NoCheckout, W1CheckoutState, Blank, Opt, NoNavigation,
         W1NavigationCursor, Quantities

\* A message that ends the checkout leaves a sound state, whatever cart.
LEMMA Blanks ==
  ASSUME NEW cart \in Cart, NEW n \in W1NavigationCursor, NEW k \in W1CheckoutState,
         Blank(k), NEW d, d = [cart |-> cart, navigation |-> n, checkout |-> k]
  PROVE  d \in W1RuntimeConversationState /\ Sound(d)
  BY DEF W1RuntimeConversationState, Sound, Blank

LEMMA BlankCheckouts ==
  ASSUME NEW w \in W1RuntimeConversationState, NEW k \in W1CheckoutState, Blank(k)
  PROVE  /\ [w EXCEPT !.checkout = k] \in W1RuntimeConversationState
         /\ Sound([w EXCEPT !.checkout = k])
<1> PICK d : d = [w EXCEPT !.checkout = k]
  OBVIOUS
<1>1. d = [cart |-> w.cart, navigation |-> w.navigation, checkout |-> k]
  BY DEF W1RuntimeConversationState
<1> QED BY <1>1, Blanks, StateFields

LEMMA FailureIsSound ==
  ASSUME NEW w \in W1RuntimeConversationState
  PROVE  Failure(w) \in W1RuntimeConversationState /\ Sound(Failure(w))
<1>1. Stage("error") \in W1CheckoutState /\ Blank(Stage("error"))
  BY Stages
<1> QED BY <1>1, BlankCheckouts DEF Failure

LEMMA GoingIsSound ==
  ASSUME NEW w \in W1RuntimeConversationState, NEW n \in W1NavigationCursor
  PROVE  /\ Going(w, n, NoCheckout) \in W1RuntimeConversationState
         /\ Sound(Going(w, n, NoCheckout))
<1> PICK d : d = Going(w, n, NoCheckout)
  OBVIOUS
<1>1. d = [cart |-> w.cart, navigation |-> n, checkout |-> NoCheckout]
  BY DEF Going, W1RuntimeConversationState
<1>2. NoCheckout \in W1CheckoutState /\ Blank(NoCheckout)
  BY Stages
<1> QED BY <1>1, <1>2, Blanks, StateFields

LEMMA RootIsSound ==
  ASSUME NEW w \in W1RuntimeConversationState
  PROVE  /\ Root(w) \in W1RuntimeConversationState /\ Sound(Root(w))
         /\ Unsupported(w) \in W1RuntimeConversationState /\ Sound(Unsupported(w))
  BY GoingIsSound, Stages DEF Root, Unsupported

LEMMA SectionIsSound ==
  ASSUME NEW w \in W1RuntimeConversationState, NEW s \in Sections
  PROVE  Section(w, s) \in W1RuntimeConversationState /\ Sound(Section(w, s))
<1>1. [NoNavigation EXCEPT !.section = s] \in W1NavigationCursor
  BY DEF NoNavigation, W1NavigationCursor, Opt, Quantities
<1> QED BY <1>1, GoingIsSound, RootIsSound DEF Section

LEMMA ItemIsSound ==
  ASSUME NEW w \in W1RuntimeConversationState, NEW i \in Items \cup GoneItems
  PROVE  Item(w, i) \in W1RuntimeConversationState /\ Sound(Item(w, i))
<1>1. CASE i \in Items
  <2>1. [section |-> SectionOf[i], item |-> i, quantity |-> 1] \in W1NavigationCursor
    BY <1>1, ConversationAssumption DEF W1NavigationCursor, Opt, Quantities
  <2> QED BY <1>1, <2>1, GoingIsSound DEF Item
<1>2. CASE i \notin Items
  BY <1>2, RootIsSound DEF Item
<1> QED BY <1>1, <1>2

LEMMA QuantityIsSound ==
  ASSUME NEW w \in W1RuntimeConversationState, NEW q \in Quantities
  PROVE  Quantity(w, q) \in W1RuntimeConversationState /\ Sound(Quantity(w, q))
<1>1. [w.navigation EXCEPT !.quantity = q] \in W1NavigationCursor
  BY StateFields DEF W1NavigationCursor
<1> QED BY <1>1, GoingIsSound, RootIsSound DEF Quantity

\* Whatever is added, the checkout that rested on the cart is over.
LEMMA AddIsSound ==
  ASSUME NEW w \in W1RuntimeConversationState
  PROVE  Add(w) \in W1RuntimeConversationState /\ Sound(Add(w))
<1>1. CASE w.navigation.item # None
  <2> PICK i : i = w.navigation.item
    OBVIOUS
  <2> PICK d : d = Add(w)
    OBVIOUS
  <2> PICK cart : cart = [w.cart EXCEPT ![i] = w.cart[i] + w.navigation.quantity]
    OBVIOUS
  <2>1. i \in Items /\ w.cart \in Cart /\ w.navigation.quantity \in Nat
        /\ w.navigation \in W1NavigationCursor
    BY <1>1, StateFields DEF Opt, Quantities
  <2>2. cart \in Cart
    BY <2>1 DEF Cart
  <2>3. d = [cart |-> cart, navigation |-> w.navigation, checkout |-> NoCheckout]
    BY <1>1 DEF Add, W1RuntimeConversationState
  <2>4. NoCheckout \in W1CheckoutState /\ Blank(NoCheckout)
    BY Stages
  <2> QED BY <2>1, <2>2, <2>3, <2>4, Blanks
<1>2. CASE w.navigation.item = None
  BY <1>2, RootIsSound DEF Add
<1> QED BY <1>1, <1>2

LEMMA BackIsSound ==
  ASSUME NEW w \in W1RuntimeConversationState
  PROVE  Back(w) \in W1RuntimeConversationState /\ Sound(Back(w))
  BY StateFields, SectionIsSound, RootIsSound DEF Back, Opt

\* The cart review and the choice of a service mode come before a review.
LEMMA CheckoutIsSound ==
  ASSUME NEW w \in W1RuntimeConversationState
  PROVE  /\ CartReview(w) \in W1RuntimeConversationState /\ Sound(CartReview(w))
         /\ ChooseMode(w) \in W1RuntimeConversationState /\ Sound(ChooseMode(w))
<1>1. /\ Stage("cart_review") \in W1CheckoutState /\ Blank(Stage("cart_review"))
      /\ Stage("service_mode") \in W1CheckoutState /\ Blank(Stage("service_mode"))
  BY Stages
<1> QED BY <1>1, BlankCheckouts, FailureIsSound DEF CartReview, ChooseMode

\* A method is chosen among those offered, for the same order.
LEMMA SelectIsSound ==
  ASSUME NEW w \in W1RuntimeConversationState, Sound(w), NEW m \in Methods
  PROVE  /\ SelectPaymentMethod(w, m) \in W1RuntimeConversationState
         /\ Sound(SelectPaymentMethod(w, m))
<1>1. CASE w.checkout.options # None /\ m \in w.checkout.options.methods
  <2> PICK k0 : k0 = w.checkout
    OBVIOUS
  <2> PICK k : k = [k0 EXCEPT !.stage = "method_selected", !.method = m]
    OBVIOUS
  <2> PICK d : d = SelectPaymentMethod(w, m)
    OBVIOUS
  <2>1. k0 \in W1CheckoutState
    BY StateFields
  <2>2. k \in W1CheckoutState /\ k.confirmation = k0.confirmation
        /\ k.order = k0.order /\ k.options = k0.options /\ k.method = m
    BY <2>1 DEF W1CheckoutState, Opt
  <2>3. d = [cart |-> w.cart, navigation |-> w.navigation, checkout |-> k]
    BY <1>1, <2>1 DEF SelectPaymentMethod, W1RuntimeConversationState, W1CheckoutState
  <2>4. d \in W1RuntimeConversationState
    BY <2>2, <2>3, StateFields DEF W1RuntimeConversationState
  <2>5. d.cart = w.cart /\ d.checkout = k
    BY <2>3
  <2> QED BY <1>1, <2>2, <2>4, <2>5 DEF Sound
<1>2. CASE ~ (w.checkout.options # None /\ m \in w.checkout.options.methods)
  BY <1>2, FailureIsSound DEF SelectPaymentMethod
<1> QED BY <1>1, <1>2

\* What an offer makes of a checkout with nothing in it: the provers tell its
\* fields apart only where nothing is known of n.
Offering(k, c, o) == [k EXCEPT !.confirmation = c, !.order = c, !.options = o]

Offered(n, c, o) == [stage |-> "payment_options", confirmation |-> c, order |-> c,
                     options |-> o, method |-> n]

LEMMA OfferedRecord ==
  ASSUME NEW n, NEW c, NEW o, NEW k,
         k = [stage |-> "payment_options", confirmation |-> n, order |-> n,
              options |-> n, method |-> n]
  PROVE  Offering(k, c, o) = Offered(n, c, o)
<1> PICK k1 : k1 = [k EXCEPT !.confirmation = c]
  OBVIOUS
<1> PICK k2 : k2 = [k1 EXCEPT !.order = c]
  OBVIOUS
<1> PICK k3 : k3 = [k2 EXCEPT !.options = o]
  OBVIOUS
<1>1. k1 = [stage |-> "payment_options", confirmation |-> c, order |-> n,
            options |-> n, method |-> n]
  OBVIOUS
<1>2. k2 = [stage |-> "payment_options", confirmation |-> c, order |-> c,
            options |-> n, method |-> n]
  BY <1>1
<1>3. k3 = Offered(n, c, o)
  BY <1>2 DEF Offered
<1>4. k3 = Offering(k, c, o)
  BY DEF Offering
<1> QED BY <1>3, <1>4

LEMMA OfferedCheckout ==
  ASSUME NEW c, NEW offer
  PROVE  Offering(Stage("payment_options"), c, offer) = Offered(None, c, offer)
<1>1. Stage("payment_options")
        = [stage |-> "payment_options", confirmation |-> None, order |-> None,
           options |-> None, method |-> None]
  BY Stages
<1> QED BY <1>1, OfferedRecord

\* The options of an order are shown with it.
LEMMA OfferIsSound ==
  ASSUME NEW w \in W1RuntimeConversationState, Sound(w), NEW c \in Confirmations,
         c = w.checkout.confirmation, c \in ordered, NEW offer \in Options,
         offer.order = c,
         NEW d, d = [w EXCEPT !.checkout =
                       [Stage("payment_options") EXCEPT !.confirmation = c, !.order = c,
                                                        !.options = offer]]
  PROVE  d \in W1RuntimeConversationState /\ Sound(d)
<1> PICK k : k = Offered(None, c, offer)
  OBVIOUS
<1>1. k = Offering(Stage("payment_options"), c, offer)
  BY OfferedCheckout
<1>2. k \in W1CheckoutState
  BY DEF Offered, W1CheckoutState, Opt
<1>3. d = [cart |-> w.cart, navigation |-> w.navigation, checkout |-> k]
  BY <1>1 DEF Offering, W1RuntimeConversationState
<1>4. d \in W1RuntimeConversationState /\ d.cart = w.cart /\ d.checkout = k
  BY <1>2, <1>3, StateFields DEF W1RuntimeConversationState
<1>5. c # None /\ issued[c] # None /\ issued[c].cart = w.cart
  BY ConversationAssumption DEF Sound
<1>6. k.confirmation = c /\ k.order = c /\ k.options = offer /\ k.method = None
  BY DEF Offered
<1> QED BY <1>4, <1>5, <1>6 DEF Sound

\* W1ConversationRouter.route keeps a sound state sound.
LEMMA RoutedIsSound ==
  ASSUME NEW w \in W1RuntimeConversationState, Sound(w), NEW m \in Message,
         m.kind \in Local
  PROVE  Routed(w, m) \in W1RuntimeConversationState /\ Sound(Routed(w, m))
<1>1. CASE m.kind = "menu"
  BY <1>1, RootIsSound DEF Routed
<1>2. CASE m.kind \in {"help", "other"}
  BY <1>2 DEF Routed
<1>3. CASE m.kind = "back"
  BY <1>3, BackIsSound DEF Routed
<1>4. CASE m.kind = "section"
  <2>1. m.ref \in Sections
    BY <1>4 DEF Message, Plain
  <2> QED BY <1>4, <2>1, SectionIsSound DEF Routed
<1>5. CASE m.kind = "item"
  <2>1. m.ref \in Items \cup GoneItems
    BY <1>5 DEF Message, Plain
  <2> QED BY <1>5, <2>1, ItemIsSound DEF Routed
<1>6. CASE m.kind = "qty"
  <2>1. m.ref \in Quantities
    BY <1>6 DEF Message, Plain
  <2> QED BY <1>6, <2>1, QuantityIsSound DEF Routed
<1>7. CASE m.kind = "add"
  BY <1>7, AddIsSound DEF Routed
<1>8. CASE m.kind \in {"cart", "order:change"}
  BY <1>8, CheckoutIsSound DEF Routed
<1>9. CASE m.kind = "checkout"
  BY <1>9, CheckoutIsSound DEF Routed
<1>10. CASE m.kind = "pay"
  <2>1. m.ref \in Methods
    BY <1>10 DEF Message, Plain
  <2> QED BY <1>10, <2>1, SelectIsSound DEF Routed
<1> QED
  BY <1>1, <1>2, <1>3, <1>4, <1>5, <1>6, <1>7, <1>8, <1>9, <1>10 DEF Local, Plain

-----------------------------------------------------------------------------
(* Steps of the conversation.                                                *)
LEMMA CallFields ==
  ASSUME ConversationInv, NEW t \in Threads, call[t] # None
  PROVE  /\ call[t] \in Call /\ Loaded(t) \in W1RuntimeConversationState
         /\ call[t].message \in Message /\ Sound(Loaded(t))
         /\ Loaded(t).checkout \in W1CheckoutState /\ Loaded(t).cart \in Cart
         /\ Loaded(t).checkout.confirmation # None =>
              Loaded(t).checkout.confirmation \in Confirmations
         /\ call[t].pc = "options" => Loaded(t).checkout.confirmation \in ordered
  BY StateFields DEF ConversationInv, TypeOK, Call, Opt, Loaded

LEMMA SoundStays ==
  ASSUME TypeOK, Grows, NEW w \in W1RuntimeConversationState, Sound(w)
  PROVE  Sound(w)'
  BY StateFields DEF Sound, Grows, Opt

\* A step of one call, whatever else it changes on the way.
LEMMA CallSteps ==
  ASSUME ConversationInv, Grows, NEW t \in Threads, NEW d \in Opt(Call),
         call' = [call EXCEPT ![t] = d],
         d # None => Sound(d.state)',
         d # None /\ d.pc = "options" => d.state.checkout.confirmation \in ordered',
         NEW w \in W1RuntimeConversationState, stored' = w, Sound(w)',
         issued' \in [Confirmations -> Opt([cart : Cart, mode : ServiceMode])],
         ordered' \subseteq Confirmations, handled' \in Nat
  PROVE  ConversationInv' /\ Grows
<1>1. \A u \in Threads : call'[u] = IF u = t THEN d ELSE call[u]
  BY DEF ConversationInv, TypeOK
<1>2. call' \in [Threads -> Opt(Call)]
  BY DEF ConversationInv, TypeOK
<1>3. ASSUME NEW u \in Threads, NEW c, c = call'[u], c # None
      PROVE  /\ Sound(c.state)'
             /\ c.pc = "options" => c.state.checkout.confirmation \in ordered'
  <2>1. CASE u = t
    BY <1>1, <1>3, <2>1
  <2>2. CASE u # t
    <3> PICK v : v = c.state
      OBVIOUS
    <3>1. c = call[u] /\ c \in Call
      BY <1>1, <1>3, <2>2 DEF ConversationInv, TypeOK, Opt
    <3>2. v \in W1RuntimeConversationState /\ Sound(v)
          /\ (c.pc = "options" => c.state.checkout.confirmation \in ordered)
      BY <1>3, <3>1 DEF ConversationInv, TypeOK, Call
    <3>3. Sound(v)'
      BY <3>2, SoundStays DEF ConversationInv
    <3> QED BY <3>2, <3>3 DEF Grows
  <2> QED BY <2>1, <2>2
<1>4. TypeOK'
  BY <1>2, <1>3 DEF TypeOK
<1>5. (\A u \in Threads : call[u] # None => Sound(call[u].state))'
  BY <1>3 DEF Sound
<1>6. Sound(stored)'
  BY DEF Sound
<1> QED BY <1>4, <1>5, <1>6 DEF ConversationInv

\* A step that changes nothing but its call.
LEMMA OnlyTheCall ==
  ASSUME ConversationInv, NEW t \in Threads, NEW d \in Opt(Call),
         call' = [call EXCEPT ![t] = d],
         d # None => Sound(d.state) /\ d.pc # "options",
         UNCHANGED <<stored, world>>, handled' \in Nat
  PROVE  ConversationInv' /\ Grows
<1>1. Grows
  BY DEF Grows, world
<1>2. stored \in W1RuntimeConversationState /\ Sound(stored) /\ TypeOK
  BY DEF ConversationInv, TypeOK
<1>3. Sound(stored)' /\ stored' \in W1RuntimeConversationState
  BY <1>2 DEF Sound, world
<1>4. ASSUME d # None PROVE Sound(d.state)'
  BY <1>4 DEF Sound, world
<1>5. issued' \in [Confirmations -> Opt([cart : Cart, mode : ServiceMode])]
      /\ ordered' \subseteq Confirmations
  BY <1>2 DEF TypeOK, world
<1> PICK w \in W1RuntimeConversationState : w = stored
  BY <1>2
<1>6. stored' = w /\ Sound(w)'
  BY <1>2 DEF Sound, world
<1> QED BY <1>1, <1>4, <1>5, <1>6, CallSteps

\* A call goes on with a sound state, nothing else changes.
LEMMA Continues ==
  ASSUME ConversationInv, NEW t \in Threads, call[t] # None,
         NEW w \in W1RuntimeConversationState, Sound(w), Continue(t, "save", w),
         UNCHANGED <<stored, world, handled>>
  PROVE  ConversationInv' /\ Grows
<1> PICK d : d = [call[t] EXCEPT !.pc = "save", !.state = w]
  OBVIOUS
<1>1. d \in Call /\ d.pc = "save" /\ d.state = w
  BY CallFields DEF Call
<1>2. call' = [call EXCEPT ![t] = d]
  BY DEF Continue
<1>3. handled' \in Nat
  BY DEF ConversationInv, TypeOK
<1> QED BY <1>1, <1>2, <1>3, OnlyTheCall DEF Opt

LEMMA FailureStep ==
  ASSUME ConversationInv, NEW t \in Threads, call[t] # None,
         Continue(t, "save", Failure(Loaded(t))), UNCHANGED <<stored, world, handled>>
  PROVE  ConversationInv' /\ Grows
<1> PICK w : w = Failure(Loaded(t))
  OBVIOUS
<1>1. w \in W1RuntimeConversationState /\ Sound(w)
  BY CallFields, FailureIsSound
<1> QED BY <1>1, Continues

LEMMA TakenUp ==
  ASSUME ConversationInv, NEW t \in Threads, NEW m \in Message,
         call' = [call EXCEPT ![t] = [pc |-> "route", message |-> m, state |-> stored]],
         UNCHANGED <<stored, world>>, handled' \in Nat
  PROVE  ConversationInv' /\ Grows
<1> PICK d : d = [pc |-> "route", message |-> m, state |-> stored]
  OBVIOUS
<1>1. d \in Call /\ d.pc = "route" /\ d.state = stored /\ Sound(d.state)
  BY DEF ConversationInv, TypeOK, Call
<1> QED BY <1>1, OnlyTheCall DEF Opt

LEMMA RouteStep ==
  ASSUME ConversationInv, NEW t \in Threads, Route(t)
  PROVE  ConversationInv' /\ Grows
<1> PICK w : w = Routed(Loaded(t), call[t].message)
  OBVIOUS
<1>1. call[t] # None /\ call[t].message.kind \in Local /\ Continue(t, "save", w)
      /\ UNCHANGED <<stored, world, handled>>
  BY DEF Route, At, Kind
<1>2. w \in W1RuntimeConversationState /\ Sound(w)
  BY <1>1, CallFields, RoutedIsSound
<1> QED BY <1>1, <1>2, Continues

\* select_service_mode: the confirmation is issued for the very cart it is
\* stored with.
LEMMA PrepareStep ==
  ASSUME ConversationInv, NEW t \in Threads, NEW c \in Confirmations, Prepare(t, c)
  PROVE  ConversationInv' /\ Grows
<1> PICK w0 : w0 = Loaded(t)
  OBVIOUS
<1> PICK r : r = [cart |-> w0.cart, mode |-> call[t].message.ref]
  OBVIOUS
<1> PICK k : k = [Stage("order_review") EXCEPT !.confirmation = c]
  OBVIOUS
<1> PICK w : w = [w0 EXCEPT !.checkout = k]
  OBVIOUS
<1> PICK d : d = [call[t] EXCEPT !.pc = "save", !.state = w]
  OBVIOUS
<1>1. /\ call[t] # None /\ call[t].message.ref \in Modes /\ issued[c] = None
      /\ issued' = [issued EXCEPT ![c] = r]
      /\ call' = [call EXCEPT ![t] = d]
      /\ UNCHANGED <<stored, ordered, handled>>
  BY DEF Prepare, At, Continue
<1>2. w0 \in W1RuntimeConversationState /\ w0.cart \in Cart /\ c # None
      /\ r \in [cart : Cart, mode : ServiceMode] /\ r # None /\ r.cart = w0.cart
      /\ call[t] \in Call
  BY <1>1, CallFields, ConversationAssumption
<1>3. k \in W1CheckoutState /\ k.confirmation = c /\ k.options = None /\ k.method = None
  BY Stages DEF W1CheckoutState, Opt
<1>4. w \in W1RuntimeConversationState /\ w.cart = w0.cart /\ w.checkout = k
  BY <1>2, <1>3 DEF W1RuntimeConversationState
<1>5. d \in Call /\ d.pc = "save" /\ d.state = w
  BY <1>2, <1>4 DEF Call
<1>6. \A b \in Confirmations : issued'[b] = IF b = c THEN r ELSE issued[b]
  BY <1>1 DEF ConversationInv, TypeOK
<1>7. Grows /\ issued' \in [Confirmations -> Opt([cart : Cart, mode : ServiceMode])]
      /\ ordered' \subseteq Confirmations /\ handled' \in Nat
  BY <1>1, <1>2, <1>6 DEF Grows, ConversationInv, TypeOK, Opt
<1>8. Sound(w)'
  <2>1. issued'[c] = r /\ r # None /\ r.cart = w.cart
    BY <1>2, <1>4, <1>6
  <2> QED BY ONLY <1>3, <1>4, <2>1 DEF Sound
<1>9. PICK s \in W1RuntimeConversationState : s = stored /\ Sound(s)
  BY DEF ConversationInv, TypeOK
<1>10. stored' = s /\ Sound(s)'
  <2>1. TypeOK
    BY DEF ConversationInv
  <2> QED BY ONLY <1>1, <1>7, <1>9, <2>1, SoundStays
<1>11. d \in Opt(Call) /\ call' = [call EXCEPT ![t] = d] /\ d.pc # "options"
  BY <1>1, <1>5 DEF Opt
<1> QED BY <1>5, <1>7, <1>8, <1>10, <1>11, CallSteps

\* confirm_order: the order is there before its options are asked for.
LEMMA SubmitStep ==
  ASSUME ConversationInv, NEW t \in Threads, Submit(t)
  PROVE  ConversationInv' /\ Grows
<1> PICK w0 : w0 = Loaded(t)
  OBVIOUS
<1>1. /\ call[t] # None /\ w0.checkout.confirmation # None
      /\ ordered' = ordered \cup {w0.checkout.confirmation}
      /\ Continue(t, "options", w0) \/ Continue(t, "save", Failure(w0))
      /\ UNCHANGED <<stored, issued, handled>>
  BY DEF Submit, Confirmable, At
<1>2. /\ w0 \in W1RuntimeConversationState /\ Sound(w0) /\ call[t] \in Call
      /\ w0.checkout.confirmation \in Confirmations
  BY <1>1, CallFields
<1>3. Grows /\ issued' \in [Confirmations -> Opt([cart : Cart, mode : ServiceMode])]
      /\ ordered' \subseteq Confirmations /\ handled' \in Nat
  BY <1>1, <1>2 DEF Grows, ConversationInv, TypeOK
<1> PICK s \in W1RuntimeConversationState : s = stored /\ Sound(s)
  BY DEF ConversationInv, TypeOK
<1>4. stored' = s /\ Sound(s)'
  BY <1>1, <1>3, SoundStays DEF ConversationInv
<1>5. ASSUME NEW pc \in {"options", "save"}, NEW w \in W1RuntimeConversationState,
             Sound(w), Continue(t, pc, w),
             pc = "options" => w.checkout.confirmation \in ordered'
      PROVE  ConversationInv' /\ Grows
  <2> PICK d : d = [call[t] EXCEPT !.pc = pc, !.state = w]
    OBVIOUS
  <2>1. d \in Call /\ d.pc = pc /\ d.state = w
    BY <1>2 DEF Call
  <2>2. call' = [call EXCEPT ![t] = d]
    BY <1>5 DEF Continue
  <2>3. Sound(w)'
    BY <1>3, <1>5, SoundStays DEF ConversationInv
  <2> QED BY <1>3, <1>4, <1>5, <2>1, <2>2, <2>3, CallSteps DEF Opt
<1>6. CASE Continue(t, "options", w0)
  BY <1>1, <1>2, <1>5, <1>6
<1>7. CASE Continue(t, "save", Failure(w0))
  BY <1>2, <1>5, <1>7, FailureIsSound
<1> QED BY <1>1, <1>6, <1>7

\* payment_options: options of another order are refused.
LEMMA PaymentOptionsStep ==
  ASSUME ConversationInv, NEW t \in Threads, NEW offer \in Options,
         PaymentOptions(t, offer)
  PROVE  ConversationInv' /\ Grows
<1> PICK w0 : w0 = Loaded(t)
  OBVIOUS
<1> PICK c : c = w0.checkout.confirmation
  OBVIOUS
<1>1. call[t] # None /\ call[t].pc = "options" /\ UNCHANGED <<stored, world, handled>>
  BY DEF PaymentOptions, At
<1>2. w0 \in W1RuntimeConversationState /\ Sound(w0) /\ c \in ordered /\ c \in Confirmations
  BY <1>1, CallFields DEF ConversationInv, TypeOK
<1>3. CASE OptionsMatch(t, offer)
  <2> PICK w : w = [w0 EXCEPT !.checkout =
                      [Stage("payment_options") EXCEPT !.confirmation = c, !.order = c,
                                                       !.options = offer]]
    OBVIOUS
  <2>1. Continue(t, "save", w)
    BY <1>3 DEF PaymentOptions
  <2>2. offer.order = c
    BY <1>3 DEF OptionsMatch
  <2>3. w \in W1RuntimeConversationState /\ Sound(w)
    BY <1>2, <2>2, OfferIsSound
  <2> QED BY <1>1, <2>1, <2>3, Continues
<1>4. CASE ~ OptionsMatch(t, offer)
  BY <1>1, <1>4, FailureStep DEF PaymentOptions
<1> QED BY <1>3, <1>4

LEMMA SaveStep ==
  ASSUME ConversationInv, NEW t \in Threads, Save(t)
  PROVE  ConversationInv' /\ Grows
<1> PICK w : w = call[t].state
  OBVIOUS
<1> PICK d : d = [call[t] EXCEPT !.pc = "send"]
  OBVIOUS
<1>1. /\ call[t] # None /\ stored' = w /\ call' = [call EXCEPT ![t] = d]
      /\ UNCHANGED <<world, handled>>
  BY DEF Save, At
<1>2. w \in W1RuntimeConversationState /\ Sound(w) /\ call[t] \in Call
  BY <1>1, CallFields DEF Loaded
<1>3. d \in Call /\ d.pc = "send" /\ d.state = w
  BY <1>2 DEF Call
<1>4. Grows /\ issued' \in [Confirmations -> Opt([cart : Cart, mode : ServiceMode])]
      /\ ordered' \subseteq Confirmations /\ handled' \in Nat
  BY <1>1 DEF Grows, ConversationInv, TypeOK, world
<1>5. Sound(w)'
  BY <1>2, <1>4, SoundStays DEF ConversationInv
<1> QED BY <1>1, <1>2, <1>3, <1>4, <1>5, CallSteps DEF Opt

LEMMA EndStep ==
  ASSUME ConversationInv, NEW t \in Threads, Send(t) \/ Abort(t)
  PROVE  ConversationInv' /\ Grows
<1>1. call' = [call EXCEPT ![t] = None] /\ UNCHANGED <<stored, world, handled>>
  BY DEF Send, Abort
<1>2. handled' \in Nat
  BY <1>1 DEF ConversationInv, TypeOK
<1> QED BY <1>1, <1>2, OnlyTheCall DEF Opt

\* The steps that a call shares, whether it serves a callback or not.
Talks(t) ==
  \/ Route(t) \/ PrepareFails(t) \/ NotReady(t) \/ Submit(t)
  \/ SubmitFails(t) \/ PaymentOptionsFail(t) \/ Save(t)
  \/ \E c \in Confirmations : Prepare(t, c)
  \/ \E options \in [order : Confirmations, methods : SUBSET Methods \ {{}}] :
       PaymentOptions(t, options)

LEMMA TalkStep ==
  ASSUME ConversationInv, NEW t \in Threads, Talks(t)
  PROVE  ConversationInv' /\ Grows
<1>1. CASE PrepareFails(t) \/ NotReady(t) \/ SubmitFails(t) \/ PaymentOptionsFail(t)
  BY <1>1, FailureStep
     DEF PrepareFails, NotReady, SubmitFails, Confirmable, PaymentOptionsFail, At
<1>2. ASSUME NEW options \in [order : Confirmations, methods : SUBSET Methods \ {{}}],
             PaymentOptions(t, options)
      PROVE  ConversationInv' /\ Grows
  <2>1. options \in Options
    BY DEF Options
  <2> QED BY <1>2, <2>1, PaymentOptionsStep
<1> QED BY <1>1, <1>2, RouteStep, SubmitStep, SaveStep, PrepareStep DEF Talks

\* They are steps of a call there is, and touch no other.
LEMMA TalkFrame ==
  ASSUME ConversationInv, NEW t \in Threads, Talks(t)
  PROVE  call[t] # None /\ \A u \in Threads : u # t => call'[u] = call[u]
<1>1. ASSUME NEW pc, NEW w, At(t, "route") \/ At(t, "options"), Continue(t, pc, w)
      PROVE  call[t] # None /\ \A u \in Threads : u # t => call'[u] = call[u]
  BY <1>1 DEF At, Continue, ConversationInv, TypeOK
<1>2. CASE Route(t)
  BY <1>1, <1>2 DEF Route
<1>3. CASE PrepareFails(t) \/ NotReady(t) \/ SubmitFails(t) \/ PaymentOptionsFail(t)
  BY <1>1, <1>3 DEF PrepareFails, NotReady, SubmitFails, Confirmable, PaymentOptionsFail
<1>4. CASE Submit(t)
  BY <1>1, <1>4 DEF Submit, Confirmable
<1>5. CASE Save(t)
  BY <1>5 DEF Save, At
<1>6. ASSUME NEW c \in Confirmations, Prepare(t, c)
      PROVE  call[t] # None /\ \A u \in Threads : u # t => call'[u] = call[u]
  BY <1>1, <1>6 DEF Prepare
<1>7. ASSUME NEW options, PaymentOptions(t, options)
      PROVE  call[t] # None /\ \A u \in Threads : u # t => call'[u] = call[u]
  <2>1. CASE OptionsMatch(t, options)
    BY <1>1, <1>7, <2>1 DEF PaymentOptions
  <2>2. CASE ~ OptionsMatch(t, options)
    BY <1>1, <1>7, <2>2 DEF PaymentOptions
  <2> QED BY <2>1, <2>2
<1> QED BY <1>2, <1>3, <1>4, <1>5, <1>6, <1>7 DEF Talks

LEMMA ConversationIdle ==
  ASSUME ConversationInv, UNCHANGED vars
  PROVE  ConversationInv' /\ Grows
<1>1. Grows /\ TypeOK'
  BY DEF ConversationInv, TypeOK, Grows, vars, world
<1>2. Sound(stored)' /\ (\A t \in Threads : call[t] # None => Sound(call[t].state))'
  BY DEF ConversationInv, Sound, vars, world
<1> QED BY <1>1, <1>2 DEF ConversationInv

LEMMA ConversationInit == Init => ConversationInv
<1> SUFFICES ASSUME Init PROVE ConversationInv
  OBVIOUS
<1>1. NoCheckout \in W1CheckoutState /\ Blank(NoCheckout)
      /\ NoNavigation \in W1NavigationCursor
  BY Stages
<1>2. [i \in Items |-> 0] \in Cart
  BY DEF Cart
<1>3. stored \in W1RuntimeConversationState /\ Sound(stored)
  BY <1>1, <1>2, Blanks DEF Init
<1> QED BY <1>3 DEF Init, ConversationInv, TypeOK, Opt

LEMMA ConversationStep == ConversationInv /\ [Next]_vars => ConversationInv' /\ Grows
<1> SUFFICES ASSUME ConversationInv, [Next]_vars PROVE ConversationInv' /\ Grows
  OBVIOUS
<1>1. ASSUME NEW t \in Threads, Step(t) PROVE ConversationInv' /\ Grows
  BY <1>1, TalkStep, EndStep DEF Step, Talks
<1>2. ASSUME NEW t \in Threads, NEW m \in Message, Load(t, m)
      PROVE  ConversationInv' /\ Grows
  <2>1. handled' \in Nat
    BY <1>2 DEF Load, ConversationInv, TypeOK
  <2> QED BY <1>2, <2>1, TakenUp DEF Load
<1> QED BY <1>1, <1>2, ConversationIdle DEF Next

LEMMA ConversationInvariant == Spec => []ConversationInv
  BY ConversationInit, ConversationStep, PTL DEF Spec

\* Every reachable state is typed, and options are asked for only once the
\* order is there (confirm_order).
THEOREM TypeCorrect == Spec => []TypeOK
<1>1. ConversationInv => TypeOK
  BY DEF ConversationInv
<1> QED BY <1>1, ConversationInvariant, PTL

\* The review a customer may confirm is of the cart that is stored with it, in
\* whatever order messages are handled and saved (W1ConversationRouter.route).
THEOREM ReviewsMatch == Spec => []ReviewIsOfTheCart
<1>1. ConversationInv => ReviewIsOfTheCart
  BY DEF ConversationInv, Sound, ReviewIsOfTheCart
<1> QED BY <1>1, ConversationInvariant, PTL

\* Options are shown and a method is chosen for the order that was made only,
\* among the methods permitted for it (payment_options, select_payment_method).
THEOREM PaysForTheOrder == Spec => []PaymentIsForTheOrder
<1>1. ConversationInv => PaymentIsForTheOrder
  BY DEF ConversationInv, Sound, PaymentIsForTheOrder
<1> QED BY <1>1, ConversationInvariant, PTL

-----------------------------------------------------------------------------
(* The callbacks.                                                            *)

\* A thread at work on a callback has answered the messages before the one it
\* is at, and is at a message while it converses or apologises.
InProgress(d) ==
  /\ runtime.dispatch
  /\ 1..(d.index - 1) \subseteq answered[d.callback]
  /\ d.step = "apology" => d.index \in DOMAIN Messages(d.callback)

DeliveriesProgress ==
  \A t \in Threads :
    delivery[t] # None =>
      /\ InProgress(delivery[t])
      /\ call[t] # None => delivery[t].index \in DOMAIN Messages(delivery[t].callback)

WebhookInv ==
  /\ ConversationInv
  /\ WebhookTypeOK
  /\ DeliveriesProgress
  /\ AnsweredInOrder
  /\ AcknowledgedIsAnswered

LEMMA DeliveryFields ==
  ASSUME WebhookInv, NEW t \in Threads, delivery[t] # None
  PROVE  /\ delivery[t] \in Delivery /\ Callback(t) \in Callbacks
         /\ Index(t) \in Nat \ {0} /\ delivery[t].open \in BOOLEAN
         /\ Verdict(Callback(t)) = 200 /\ InProgress(delivery[t])
         /\ call[t] # None => Index(t) \in DOMAIN Messages(Callback(t))
  BY DEF WebhookInv, WebhookTypeOK, DeliveriesProgress, Delivery, Opt, Callback, Index

LEMMA CallbackFields ==
  ASSUME WebhookInv, NEW c \in Callbacks
  PROVE  /\ sent[c].signature \in Signature /\ sent[c].payload \in Payload
         /\ Messages(c) \in Seq(Message) /\ Len(Messages(c)) \in Nat
         /\ DOMAIN Messages(c) = 1..Len(Messages(c))
         /\ answered[c] \subseteq DOMAIN Messages(c)
         /\ taken[c] \in [DOMAIN Messages(c) -> Nat]
  BY WebhookAssumption DEF WebhookInv, WebhookTypeOK, Payload, Messages

\* A step of one thread on its callback, whatever else it changes on the way.
LEMMA HookSteps ==
  ASSUME WebhookInv, ConversationInv', NEW t \in Threads, NEW d, d = delivery'[t],
         delivery' \in [Threads -> Opt(Delivery)],
         \A u \in Threads : u # t => delivery'[u] = delivery[u] /\ call'[u] = call[u],
         UNCHANGED <<runtime, sent>>, subscribed' \in BOOLEAN, waiting' \subseteq Callbacks,
         status' \in [Callbacks -> {0, 200, 400, 401, 500, 503}],
         failures' \in 0..MaxFailures,
         DOMAIN taken' = Callbacks, DOMAIN answered' = Callbacks,
         \A c \in Callbacks : /\ taken'[c] \in [DOMAIN Messages(c) -> Nat]
                              /\ answered'[c] \subseteq DOMAIN Messages(c)
                              /\ answered[c] \subseteq answered'[c],
         call'[t] # None => d # None /\ d.step = "message",
         d # None => Verdict(d.callback) = 200 /\ InProgress(d)',
         call'[t] # None => d.index \in DOMAIN Messages(d.callback),
         \A c \in Callbacks : \A k \in answered'[c] : 1..k \subseteq answered'[c],
         \A c \in Callbacks :
           status'[c] = 200 /\ status[c] # 200 => answered'[c] = DOMAIN Messages(c)
  PROVE  WebhookInv'
<1>1. \A c \in Callbacks : Messages(c)' = Messages(c) /\ Verdict(c)' = Verdict(c)
  BY DEF Messages, Verdict
<1>2. ASSUME NEW u \in Threads, NEW e, e = delivery'[u], e # None
      PROVE  /\ e \in Delivery /\ (Verdict(e.callback) = 200)'
             /\ InProgress(e)'
             /\ call'[u] # None => e.index \in DOMAIN Messages(e.callback)'
  <2>1. e \in Delivery /\ e.callback \in Callbacks
    BY <1>2 DEF Opt, Delivery
  <2>2. CASE u = t
    BY <1>1, <1>2, <2>1, <2>2
  <2>3. CASE u # t
    <3>1. e = delivery[u] /\ call'[u] = call[u]
      BY <1>2, <2>3
    <3>2. Verdict(e.callback) = 200 /\ InProgress(e)
          /\ (call[u] # None => e.index \in DOMAIN Messages(e.callback))
      BY <1>2, <3>1, DeliveryFields DEF Callback, Index
    <3>3. answered[e.callback] \subseteq answered'[e.callback]
      BY <2>1
    <3>4. InProgress(e)'
      BY <1>1, <2>1, <3>2, <3>3 DEF InProgress
    <3> QED BY <1>1, <2>1, <3>1, <3>2, <3>4
  <2> QED BY <2>2, <2>3
<1>3. WebhookTypeOK'
  <2>1. TypeOK' /\ runtime' \in [configured : BOOLEAN, dispatch : BOOLEAN]
        /\ sent' \in [Callbacks -> [signature : Signature, payload : Payloads]]
    BY DEF ConversationInv, WebhookInv, WebhookTypeOK
  <2>2. \A c \in Callbacks : /\ taken'[c] \in [DOMAIN Messages(c)' -> Nat]
                             /\ answered'[c] \subseteq DOMAIN Messages(c)'
    BY <1>1
  <2>3. ASSUME NEW u \in Threads
        PROVE  /\ call'[u] # None => delivery'[u] # None /\ delivery'[u].step = "message"
               /\ delivery'[u] # None => (Verdict(delivery[u].callback) = 200)'
    <3>1. call'[u] # None => delivery'[u] # None /\ delivery'[u].step = "message"
      BY DEF WebhookInv, WebhookTypeOK
    <3>2. ASSUME delivery'[u] # None
          PROVE  (Verdict(delivery[u].callback) = 200)'
      BY <1>2, <3>2 DEF Verdict
    <3> QED BY <3>1, <3>2
  <2> QED BY <2>1, <2>2, <2>3 DEF WebhookTypeOK, Verdict, Messages
<1>4. DeliveriesProgress'
  BY <1>2 DEF DeliveriesProgress, InProgress, Messages
<1>5. AnsweredInOrder'
  BY DEF AnsweredInOrder
<1>6. AcknowledgedIsAnswered'
  <2> SUFFICES ASSUME runtime.dispatch, NEW c \in Callbacks, status'[c] = 200
               PROVE  answered'[c] = DOMAIN Messages(c)'
    BY DEF AcknowledgedIsAnswered, Messages
  <2>1. CASE status[c] = 200
    <3>1. answered[c] = DOMAIN Messages(c)
      BY <2>1 DEF WebhookInv, AcknowledgedIsAnswered
    <3>2. answered[c] \subseteq answered'[c] /\ answered'[c] \subseteq DOMAIN Messages(c)
      OBVIOUS
    <3> PICK m : m = DOMAIN Messages(c)
      OBVIOUS
    <3>3. DOMAIN Messages(c)' = m
      BY <1>1
    <3> PICK n : n = answered'[c]
      OBVIOUS
    <3>4. n \subseteq m /\ m \subseteq n
      BY <3>1, <3>2
    <3>5. n = m
      BY ONLY <3>4
    <3> QED BY <3>3, <3>5
  <2>2. CASE status[c] # 200
    BY <1>1, <2>2
  <2> QED BY <2>1, <2>2
<1> QED BY <1>3, <1>4, <1>5, <1>6 DEF WebhookInv

\* A step that answers nothing.
LEMMA SilentSteps ==
  ASSUME WebhookInv, ConversationInv', NEW t \in Threads, NEW d, d = delivery'[t],
         delivery' \in [Threads -> Opt(Delivery)],
         \A u \in Threads : u # t => delivery'[u] = delivery[u] /\ call'[u] = call[u],
         UNCHANGED <<runtime, subscribed, sent, answered>>,
         waiting' \subseteq Callbacks, failures' \in 0..MaxFailures,
         status' \in [Callbacks -> {0, 200, 400, 401, 500, 503}],
         DOMAIN taken' = Callbacks,
         \A c \in Callbacks : taken'[c] \in [DOMAIN Messages(c) -> Nat],
         call'[t] # None => d # None /\ d.step = "message",
         d # None => Verdict(d.callback) = 200 /\ InProgress(d),
         call'[t] # None => d.index \in DOMAIN Messages(d.callback),
         \A c \in Callbacks :
           status'[c] = 200 /\ status[c] # 200 => answered[c] = DOMAIN Messages(c)
  PROVE  WebhookInv'
<1>1. d # None => InProgress(d)'
  BY DEF InProgress, Messages
<1>2. /\ DOMAIN answered' = Callbacks /\ subscribed' \in BOOLEAN
      /\ \A c \in Callbacks : answered'[c] \subseteq DOMAIN Messages(c)
                              /\ answered[c] \subseteq answered'[c]
      /\ \A c \in Callbacks : \A k \in answered'[c] : 1..k \subseteq answered'[c]
  BY DEF WebhookInv, WebhookTypeOK, AnsweredInOrder
<1> QED BY <1>1, <1>2, HookSteps

LEMMA FailTyped == ASSUME WebhookInv, Fail PROVE failures' \in 0..MaxFailures
  BY WebhookAssumption DEF WebhookInv, WebhookTypeOK, Fail

\* Going over to the apology, or waiting for no answer, changes a delivery but
\* not where it is.
LEMMA ApologyIndex ==
  ASSUME WebhookInv, NEW t \in Threads, delivery[t] # None, Apologetic(t)
  PROVE  /\ delivery' \in [Threads -> Opt(Delivery)]
         /\ \A u \in Threads : u # t => delivery'[u] = delivery[u]
         /\ delivery'[t] # None
         /\ delivery'[t].callback = Callback(t) /\ delivery'[t].index = Index(t)
<1>1. delivery \in [Threads -> Opt(Delivery)] /\ delivery[t] \in Delivery
  BY DeliveryFields DEF WebhookInv, WebhookTypeOK
<1> PICK d : d = [delivery[t] EXCEPT !.step = "apology"]
  OBVIOUS
<1>2. d \in Delivery /\ d.callback = delivery[t].callback /\ d.index = delivery[t].index
  BY <1>1 DEF Delivery
<1>3. delivery' = [delivery EXCEPT ![t] = d]
  BY DEF Apologetic
<1> QED BY <1>1, <1>2, <1>3, WebhookAssumption DEF Opt, Callback, Index

LEMMA UnheardIndex ==
  ASSUME WebhookInv, NEW t \in Threads, delivery[t] # None,
         delivery' = [delivery EXCEPT ![t].open = FALSE]
  PROVE  /\ delivery' \in [Threads -> Opt(Delivery)]
         /\ \A u \in Threads : u # t => delivery'[u] = delivery[u]
         /\ delivery'[t] # None /\ delivery'[t].step = delivery[t].step
         /\ delivery'[t].callback = Callback(t) /\ delivery'[t].index = Index(t)
<1>1. delivery \in [Threads -> Opt(Delivery)] /\ delivery[t] \in Delivery
  BY DeliveryFields DEF WebhookInv, WebhookTypeOK
<1> PICK d : d = [delivery[t] EXCEPT !.open = FALSE]
  OBVIOUS
<1>2. d \in Delivery /\ d.callback = delivery[t].callback /\ d.index = delivery[t].index
      /\ d.step = delivery[t].step
  BY <1>1 DEF Delivery
<1>3. delivery' = [delivery EXCEPT ![t] = d]
  OBVIOUS
<1> QED BY <1>1, <1>2, <1>3, WebhookAssumption DEF Opt, Callback, Index

LEMMA NextIndex ==
  ASSUME WebhookInv, NEW t \in Threads, delivery[t] # None, Answered(t)
  PROVE  /\ delivery' \in [Threads -> Opt(Delivery)]
         /\ \A u \in Threads : u # t => delivery'[u] = delivery[u]
         /\ delivery'[t] # None /\ delivery'[t].step = "message"
         /\ delivery'[t].callback = Callback(t) /\ delivery'[t].index = Index(t) + 1
<1> PICK d : d = [delivery[t] EXCEPT !.index = Index(t) + 1, !.step = "message"]
  OBVIOUS
<1>1. delivery \in [Threads -> Opt(Delivery)] /\ delivery[t] \in Delivery
      /\ Index(t) \in Nat \ {0} /\ Index(t) + 1 \in Nat \ {0}
  BY DeliveryFields DEF WebhookInv, WebhookTypeOK
<1>2. d \in Delivery /\ d.callback = delivery[t].callback /\ d.index = Index(t) + 1
      /\ d.step = "message"
  BY <1>1 DEF Delivery
<1>3. delivery' = [delivery EXCEPT ![t] = d]
  BY <1>1 DEF Answered, Index
<1> QED BY <1>1, <1>2, <1>3, WebhookAssumption DEF Opt, Callback

-----------------------------------------------------------------------------
(* Steps on a callback.                                                      *)

\* The conversation a thread is in moves on: its callback stays where it is.
LEMMA ConverseStep ==
  ASSUME WebhookInv, NEW t \in Threads, Converse(t)
  PROVE  WebhookInv' /\ Grows
<1>1. ConversationInv' /\ Grows
  BY TalkStep DEF Converse, Talks, WebhookInv
<1>2. UNCHANGED <<runtime, meta, delivery, taken, answered, failures>>
  BY DEF Converse, hookVars
<1>3. call[t] # None /\ \A u \in Threads : u # t => call'[u] = call[u]
  BY TalkFrame DEF Converse, Talks, WebhookInv
<1>4. delivery[t] # None /\ delivery[t].step = "message"
  BY <1>3 DEF WebhookInv, WebhookTypeOK
<1>5. /\ delivery' \in [Threads -> Opt(Delivery)] /\ waiting' \subseteq Callbacks
      /\ failures' \in 0..MaxFailures /\ DOMAIN taken' = Callbacks
      /\ status' \in [Callbacks -> {0, 200, 400, 401, 500, 503}]
      /\ \A c \in Callbacks : taken'[c] \in [DOMAIN Messages(c) -> Nat]
      /\ \A c \in Callbacks : status'[c] = status[c]
      /\ \A u \in Threads : delivery'[u] = delivery[u]
      /\ UNCHANGED <<runtime, subscribed, sent, answered>>
  BY <1>2 DEF meta, WebhookInv, WebhookTypeOK
<1> PICK d : d = delivery'[t]
  OBVIOUS
<1>6. d = delivery[t] /\ d # None /\ d.step = "message" /\ Verdict(d.callback) = 200
      /\ InProgress(d) /\ d.index \in DOMAIN Messages(d.callback)
  BY <1>3, <1>4, <1>5, DeliveryFields DEF Callback, Index
<1> QED BY <1>1, <1>3, <1>5, <1>6, SilentSteps

LEMMA TakeUpStep ==
  ASSUME WebhookInv, NEW t \in Threads, TakeUp(t)
  PROVE  WebhookInv' /\ Grows
<1> PICK c : c = Callback(t)
  OBVIOUS
<1> PICK k : k = Index(t)
  OBVIOUS
<1>1. /\ delivery[t] # None /\ delivery[t].step = "message" /\ call[t] = None
      /\ k \in DOMAIN Messages(c)
      /\ call' = [call EXCEPT ![t] = [pc |-> "route", message |-> Messages(c)[k],
                                      state |-> stored]]
      /\ taken' = [taken EXCEPT ![c][k] = @ + 1]
      /\ UNCHANGED <<stored, world, handled, runtime, meta, delivery, answered, failures>>
  BY DEF TakeUp, NextMessage, Handling
<1>2. c \in Callbacks /\ Messages(c) \in Seq(Message) /\ Messages(c)[k] \in Message
  BY <1>1, DeliveryFields, CallbackFields
<1>3. ConversationInv' /\ Grows
  <2>1. handled' \in Nat
    BY <1>1 DEF WebhookInv, ConversationInv, TypeOK
  <2> QED BY <1>1, <1>2, <2>1, TakenUp DEF WebhookInv
<1>4. \A u \in Threads : u # t => call'[u] = call[u]
  BY <1>1
<1>5. DOMAIN taken' = Callbacks
      /\ \A b \in Callbacks : taken'[b] \in [DOMAIN Messages(b) -> Nat]
  BY <1>1, <1>2, CallbackFields DEF WebhookInv, WebhookTypeOK
<1>6. /\ delivery' \in [Threads -> Opt(Delivery)] /\ waiting' \subseteq Callbacks
      /\ failures' \in 0..MaxFailures
      /\ status' \in [Callbacks -> {0, 200, 400, 401, 500, 503}]
      /\ \A b \in Callbacks : status'[b] = status[b]
      /\ \A u \in Threads : delivery'[u] = delivery[u]
      /\ UNCHANGED <<runtime, subscribed, sent, answered>>
  BY <1>1 DEF meta, WebhookInv, WebhookTypeOK
<1> PICK d : d = delivery'[t]
  OBVIOUS
<1>7. d = delivery[t] /\ d # None /\ d.step = "message" /\ Verdict(d.callback) = 200
      /\ InProgress(d) /\ d.index \in DOMAIN Messages(d.callback)
  BY <1>1, <1>6, DeliveryFields DEF Callback, Index
<1> QED BY <1>3, <1>4, <1>5, <1>6, <1>7, SilentSteps

\* Whatever failed, the apology is for the message the thread is at.
LEMMA ApologeticSteps ==
  ASSUME WebhookInv, ConversationInv', NEW t \in Threads, delivery[t] # None,
         Index(t) \in DOMAIN Messages(Callback(t)), Apologetic(t), Fail,
         \A u \in Threads : u # t => call'[u] = call[u], call'[t] = None,
         UNCHANGED <<runtime, meta, taken, answered>>
  PROVE  WebhookInv'
<1>1. /\ waiting' \subseteq Callbacks /\ DOMAIN taken' = Callbacks
      /\ status' \in [Callbacks -> {0, 200, 400, 401, 500, 503}]
      /\ \A c \in Callbacks : taken'[c] \in [DOMAIN Messages(c) -> Nat]
      /\ \A c \in Callbacks : status'[c] = status[c]
      /\ UNCHANGED <<runtime, subscribed, sent, answered>>
  BY DEF meta, WebhookInv, WebhookTypeOK
<1>2. failures' \in 0..MaxFailures
  BY FailTyped
<1> PICK d : d = delivery'[t]
  OBVIOUS
<1>3. /\ delivery' \in [Threads -> Opt(Delivery)]
      /\ \A u \in Threads : u # t => delivery'[u] = delivery[u]
      /\ d # None /\ d.callback = Callback(t) /\ d.index = Index(t)
  BY ApologyIndex
<1>4. Verdict(d.callback) = 200 /\ InProgress(d)
  BY <1>3, DeliveryFields DEF InProgress, Callback, Index
<1> QED BY <1>1, <1>2, <1>3, <1>4, SilentSteps

LEMMA LoadFailsStep ==
  ASSUME WebhookInv, NEW t \in Threads, LoadFails(t)
  PROVE  WebhookInv' /\ Grows
<1>1. ConversationInv' /\ Grows
  BY ConversationIdle DEF LoadFails, WebhookInv
<1>2. UNCHANGED call /\ call[t] = None /\ delivery[t] # None
      /\ Index(t) \in DOMAIN Messages(Callback(t))
  BY DEF LoadFails, NextMessage, Handling, vars
<1> QED BY <1>1, <1>2, ApologeticSteps DEF LoadFails

\* Sending or giving up ends the conversation about one message.
LEMMA EndsTheCall ==
  ASSUME WebhookInv, NEW t \in Threads, Send(t) \/ Abort(t)
  PROVE  /\ ConversationInv' /\ Grows
         /\ \A u \in Threads : u # t => call'[u] = call[u]
         /\ call'[t] = None /\ delivery[t] # None
         /\ Index(t) \in DOMAIN Messages(Callback(t))
<1>1. ConversationInv' /\ Grows
  BY EndStep DEF WebhookInv
<1>2. call[t] # None /\ call' = [call EXCEPT ![t] = None]
  BY DEF Send, Abort, At
<1>3. delivery[t] # None /\ Index(t) \in DOMAIN Messages(Callback(t))
  BY <1>2, DeliveryFields DEF WebhookInv, WebhookTypeOK
<1>4. (\A u \in Threads : u # t => call'[u] = call[u]) /\ call'[t] = None
  BY <1>2 DEF WebhookInv, ConversationInv, TypeOK
<1> QED BY <1>1, <1>3, <1>4

LEMMA RefusedStep ==
  ASSUME WebhookInv, NEW t \in Threads, ReplyRefused(t) \/ Interrupted(t)
  PROVE  WebhookInv' /\ Grows
  BY EndsTheCall, ApologeticSteps DEF ReplyRefused, Interrupted

\* An answer is added behind those before it.
LEMMA AnsweredSteps ==
  ASSUME WebhookInv, ConversationInv', NEW t \in Threads, delivery[t] # None,
         Index(t) \in DOMAIN Messages(Callback(t)), Answered(t),
         \A u \in Threads : u # t => call'[u] = call[u], call'[t] = None,
         UNCHANGED <<runtime, meta, taken, failures>>
  PROVE  WebhookInv'
<1> PICK c : c = Callback(t)
  OBVIOUS
<1> PICK k : k = Index(t)
  OBVIOUS
<1>1. c \in Callbacks /\ k \in Nat \ {0} /\ k \in DOMAIN Messages(c)
      /\ 1..(k - 1) \subseteq answered[c] /\ runtime.dispatch
  BY DeliveryFields DEF InProgress, Callback, Index
<1>2. answered' = [answered EXCEPT ![c] = answered[c] \cup {k}]
  BY DEF Answered
<1>3. DOMAIN answered = Callbacks /\ DOMAIN answered' = Callbacks
      /\ \A b \in Callbacks :
           answered'[b] = IF b = c THEN answered[c] \cup {k} ELSE answered[b]
  BY <1>2 DEF WebhookInv, WebhookTypeOK
<1>4. 1..k \subseteq answered'[c]
  <2>1. 1..k = (1..(k - 1)) \cup {k}
    BY <1>1
  <2> QED BY <1>1, <1>3, <2>1
<1>5. \A b \in Callbacks : \A j \in answered'[b] : 1..j \subseteq answered'[b]
  <2> SUFFICES ASSUME NEW b \in Callbacks, NEW j \in answered'[b]
               PROVE  1..j \subseteq answered'[b]
    OBVIOUS
  <2>1. CASE j \in answered[b]
    BY <1>3, <2>1 DEF WebhookInv, AnsweredInOrder
  <2>2. CASE j \notin answered[b]
    BY <1>3, <1>4, <2>2
  <2> QED BY <2>1, <2>2
<1>6. \A b \in Callbacks : /\ answered'[b] \subseteq DOMAIN Messages(b)
                           /\ answered[b] \subseteq answered'[b]
  BY <1>1, <1>3, CallbackFields
<1>7. /\ waiting' \subseteq Callbacks /\ DOMAIN taken' = Callbacks
      /\ status' \in [Callbacks -> {0, 200, 400, 401, 500, 503}]
      /\ \A b \in Callbacks : taken'[b] \in [DOMAIN Messages(b) -> Nat]
      /\ \A b \in Callbacks : status'[b] = status[b]
      /\ failures' \in 0..MaxFailures /\ subscribed' \in BOOLEAN
      /\ UNCHANGED <<runtime, sent>>
  BY DEF meta, WebhookInv, WebhookTypeOK
<1> PICK d : d = delivery'[t]
  OBVIOUS
<1>8. /\ delivery' \in [Threads -> Opt(Delivery)]
      /\ \A u \in Threads : u # t => delivery'[u] = delivery[u]
      /\ d # None /\ d.step = "message" /\ d.callback = c /\ d.index = k + 1
  BY NextIndex
<1>9. InProgress(d)'
  <2>1. d.index - 1 = k
    BY <1>1, <1>8
  <2> QED BY <1>1, <1>4, <1>7, <1>8, <2>1 DEF InProgress
<1>10. Verdict(d.callback) = 200
  BY <1>8, DeliveryFields
<1> QED BY <1>3, <1>5, <1>6, <1>7, <1>8, <1>9, <1>10, HookSteps

LEMMA ReplyStep ==
  ASSUME WebhookInv, NEW t \in Threads, Reply(t)
  PROVE  WebhookInv' /\ Grows
  BY EndsTheCall, AnsweredSteps DEF Reply

LEMMA ApologiseStep ==
  ASSUME WebhookInv, NEW t \in Threads, Apologise(t)
  PROVE  WebhookInv' /\ Grows
<1>1. ConversationInv' /\ Grows /\ UNCHANGED call
  BY ConversationIdle DEF Apologise, WebhookInv, vars
<1>2. delivery[t] # None /\ delivery[t].step = "apology"
  BY DEF Apologise, Handling
<1>3. call[t] = None
  BY <1>2 DEF WebhookInv, WebhookTypeOK
<1>4. Index(t) \in DOMAIN Messages(Callback(t))
  BY <1>2, DeliveryFields DEF InProgress, Index, Callback
<1> QED BY <1>1, <1>2, <1>3, <1>4, AnsweredSteps DEF Apologise

\* A thread is done with a callback: when it is acknowledged, its last message
\* was answered, and so all were.
LEMMA EndsDelivery ==
  ASSUME WebhookInv, NEW t \in Threads, delivery[t] # None, call[t] = None,
         delivery' = [delivery EXCEPT ![t] = None],
         UNCHANGED <<vars, runtime, subscribed, sent, taken, answered>>,
         waiting' \subseteq Callbacks, failures' \in 0..MaxFailures,
         status' \in [Callbacks -> {0, 200, 400, 401, 500, 503}],
         \A c \in Callbacks : status'[c] = 200 /\ status[c] # 200 =>
           c = Callback(t) /\ Index(t) \notin DOMAIN Messages(c)
  PROVE  WebhookInv' /\ Grows
<1>1. ConversationInv' /\ Grows /\ UNCHANGED call
  BY ConversationIdle DEF WebhookInv, vars
<1> PICK d : d = delivery'[t]
  OBVIOUS
<1>2. /\ delivery' \in [Threads -> Opt(Delivery)] /\ d = None
      /\ \A u \in Threads : u # t => delivery'[u] = delivery[u]
      /\ DOMAIN taken' = Callbacks
      /\ \A c \in Callbacks : taken'[c] \in [DOMAIN Messages(c) -> Nat]
  BY DEF WebhookInv, WebhookTypeOK, Opt
<1>3. ASSUME NEW c \in Callbacks, status'[c] = 200, status[c] # 200
      PROVE  answered[c] = DOMAIN Messages(c)
  <2> PICK k : k = Index(t)
    OBVIOUS
  <2> PICK n : n = Len(Messages(c))
    OBVIOUS
  <2>1. c = Callback(t) /\ k \notin 1..n /\ n \in Nat /\ DOMAIN Messages(c) = 1..n
    BY <1>3, CallbackFields
  <2>2. k \in Nat \ {0} /\ 1..(k - 1) \subseteq answered[c]
    BY <2>1, DeliveryFields DEF InProgress, Callback, Index
  <2>3. 1..n \subseteq 1..(k - 1)
    BY <2>1, <2>2
  <2> QED BY <2>1, <2>2, <2>3, CallbackFields
<1> QED BY <1>1, <1>2, <1>3, SilentSteps

LEMMA ApologyRefusedStep ==
  ASSUME WebhookInv, NEW t \in Threads, ApologyRefused(t)
  PROVE  WebhookInv' /\ Grows
<1>1. /\ delivery[t] # None /\ delivery[t].step = "apology"
      /\ delivery' = [delivery EXCEPT ![t] = None]
      /\ UNCHANGED <<vars, runtime, subscribed, sent, taken, answered>>
  BY DEF ApologyRefused, Handling, LeaveLoop
<1>2. call[t] = None
  BY <1>1 DEF WebhookInv, WebhookTypeOK
<1>3. failures' \in 0..MaxFailures
  BY FailTyped DEF ApologyRefused
<1>4. Callback(t) \in Callbacks
  BY <1>1, DeliveryFields
<1>5. /\ waiting' \subseteq Callbacks
      /\ status' \in [Callbacks -> {0, 200, 400, 401, 500, 503}]
      /\ \A c \in Callbacks : status'[c] = 200 => status[c] = 200
  BY <1>4 DEF ApologyRefused, LeaveLoop, WebhookInv, WebhookTypeOK
<1>6. \A c \in Callbacks : status'[c] = 200 /\ status[c] # 200 =>
        c = Callback(t) /\ Index(t) \notin DOMAIN Messages(c)
  BY <1>5
<1> QED BY <1>1, <1>2, <1>3, <1>5, <1>6, EndsDelivery

LEMMA ReturnStep ==
  ASSUME WebhookInv, NEW t \in Threads, Return(t)
  PROVE  WebhookInv' /\ Grows
<1> PICK c : c = Callback(t)
  OBVIOUS
<1>1. /\ delivery[t] # None /\ call[t] = None
      /\ Index(t) \notin DOMAIN Messages(c)
      /\ delivery' = [delivery EXCEPT ![t] = None]
      /\ UNCHANGED <<vars, runtime, subscribed, sent, taken, answered>>
  BY DEF Return, Handling
<1>2. c \in Callbacks
  BY <1>1, DeliveryFields
<1>3. \/ Heard(c)
      \/ AnswerLost(c)
      \/ UNCHANGED <<status, waiting, failures>>
  BY DEF Return
<1>4. failures' \in 0..MaxFailures
  BY <1>3, FailTyped DEF Heard, AnswerLost, WebhookInv, WebhookTypeOK
<1>5. /\ waiting' \subseteq Callbacks
      /\ status' \in [Callbacks -> {0, 200, 400, 401, 500, 503}]
      /\ \A b \in Callbacks : b # c /\ status'[b] = 200 => status[b] = 200
  BY <1>2, <1>3 DEF Heard, AnswerLost, WebhookInv, WebhookTypeOK
<1>6. \A b \in Callbacks : status'[b] = 200 /\ status[b] # 200 =>
        b = Callback(t) /\ Index(t) \notin DOMAIN Messages(b)
  BY <1>1, <1>5
<1> QED BY <1>1, <1>4, <1>5, <1>6, EndsDelivery

LEMMA TimeOutStep ==
  ASSUME WebhookInv, NEW t \in Threads, TimeOut(t)
  PROVE  WebhookInv' /\ Grows
<1>1. ConversationInv' /\ Grows /\ UNCHANGED call
  BY ConversationIdle DEF TimeOut, WebhookInv, vars
<1>2. /\ delivery[t] # None /\ Callback(t) \in Callbacks
      /\ UNCHANGED <<runtime, subscribed, sent, status, taken, answered>>
  BY DeliveryFields DEF TimeOut
<1>3. failures' \in 0..MaxFailures
  BY FailTyped DEF TimeOut
<1>4. /\ waiting' \subseteq Callbacks /\ DOMAIN taken' = Callbacks
      /\ status' \in [Callbacks -> {0, 200, 400, 401, 500, 503}]
      /\ \A c \in Callbacks : taken'[c] \in [DOMAIN Messages(c) -> Nat]
  BY <1>2 DEF TimeOut, WebhookInv, WebhookTypeOK
<1> PICK d : d = delivery'[t]
  OBVIOUS
<1>5. delivery' = [delivery EXCEPT ![t].open = FALSE]
  BY DEF TimeOut
<1>7. /\ delivery' \in [Threads -> Opt(Delivery)]
      /\ \A u \in Threads : u # t => delivery'[u] = delivery[u]
      /\ d # None /\ d.callback = Callback(t) /\ d.index = Index(t)
      /\ d.step = delivery[t].step
  BY <1>2, <1>5, UnheardIndex
<1>6. Verdict(d.callback) = 200 /\ InProgress(d)
      /\ (call[t] # None => d.step = "message" /\ d.index \in DOMAIN Messages(d.callback))
  BY <1>2, <1>7, DeliveryFields DEF InProgress, Callback, Index, WebhookInv, WebhookTypeOK
<1> QED BY <1>1, <1>2, <1>3, <1>4, <1>6, <1>7, SilentSteps

\* A thread takes a callback on, at its first message.
LEMMA ReceiveStep ==
  ASSUME WebhookInv, NEW t \in Threads, NEW c \in Callbacks, Receive(t, c)
  PROVE  WebhookInv' /\ Grows
<1>1. ConversationInv' /\ Grows /\ UNCHANGED call
  BY ConversationIdle DEF Receive, WebhookInv, vars
<1>2. /\ delivery[t] = None /\ Verdict(c) = 200 /\ runtime.dispatch
      /\ UNCHANGED <<runtime, subscribed, sent, status, taken, answered, failures>>
      /\ waiting' = waiting \ {c}
  BY DEF Receive
<1>3. call[t] = None
  BY <1>2 DEF WebhookInv, WebhookTypeOK
<1>4. /\ waiting' \subseteq Callbacks /\ DOMAIN taken' = Callbacks
      /\ failures' \in 0..MaxFailures
      /\ status' \in [Callbacks -> {0, 200, 400, 401, 500, 503}]
      /\ \A b \in Callbacks : taken'[b] \in [DOMAIN Messages(b) -> Nat]
      /\ \A b \in Callbacks : status'[b] = status[b]
  BY <1>2 DEF WebhookInv, WebhookTypeOK
<1> PICK d : d = delivery'[t]
  OBVIOUS
<1>5. [callback |-> c, index |-> 1, step |-> "message", open |-> TRUE] \in Delivery
  BY DEF Delivery
<1>6. /\ delivery' \in [Threads -> Opt(Delivery)]
      /\ d = [callback |-> c, index |-> 1, step |-> "message", open |-> TRUE]
      /\ \A u \in Threads : u # t => delivery'[u] = delivery[u]
  BY <1>5 DEF Receive, WebhookInv, WebhookTypeOK, Opt
<1>7. d # None /\ Verdict(d.callback) = 200 /\ InProgress(d)
  <2>1. d.index = 1 /\ d.callback = c /\ d.step = "message"
    BY <1>6
  <2>2. 1..(d.index - 1) = {}
    BY <2>1
  <2>3. d # None
    BY <1>5, <1>6, WebhookAssumption
  <2> QED BY <1>2, <2>1, <2>2, <2>3 DEF InProgress
<1>8. /\ \A u \in Threads :
           u # t => delivery'[u] = delivery[u] /\ call'[u] = call[u]
      /\ call'[t] = None
      /\ UNCHANGED <<runtime, subscribed, sent, answered>>
      /\ \A b \in Callbacks :
           status'[b] = 200 /\ status[b] # 200 => answered[b] = DOMAIN Messages(b)
  BY <1>1, <1>2, <1>3, <1>4, <1>6
<1>9. delivery' \in [Threads -> Opt(Delivery)]
  BY <1>6
<1> QED BY <1>1, <1>4, <1>7, <1>8, <1>9, SilentSteps

\* Meta waits no longer for a thread's answer, or the shell answers on its own:
\* what no thread handles is acknowledged only while dispatch is off.
LEMMA ShellSteps ==
  ASSUME WebhookInv,
         UNCHANGED <<vars, runtime, sent, delivery, taken, answered>>,
         subscribed' \in BOOLEAN, waiting' \subseteq Callbacks,
         failures' \in 0..MaxFailures,
         status' \in [Callbacks -> {0, 200, 400, 401, 500, 503}],
         \A c \in Callbacks :
           runtime.dispatch /\ status'[c] = 200 => status[c] = 200
  PROVE  WebhookInv' /\ Grows
<1>1. ConversationInv' /\ Grows /\ UNCHANGED call
  BY ConversationIdle DEF WebhookInv, vars
<1>2. \A c \in Callbacks : Messages(c)' = Messages(c) /\ Verdict(c)' = Verdict(c)
  BY DEF Messages, Verdict
<1>3. WebhookTypeOK'
  <2>1. TypeOK'
    BY <1>1 DEF ConversationInv
  <2>2. /\ runtime' \in [configured : BOOLEAN, dispatch : BOOLEAN]
        /\ sent' \in [Callbacks -> [signature : Signature, payload : Payloads]]
        /\ delivery' \in [Threads -> Opt(Delivery)]
        /\ DOMAIN taken' = Callbacks /\ DOMAIN answered' = Callbacks
    BY DEF WebhookInv, WebhookTypeOK
  <2>3. \A c \in Callbacks : /\ taken'[c] \in [DOMAIN Messages(c)' -> Nat]
                             /\ answered'[c] \subseteq DOMAIN Messages(c)'
    BY <1>2 DEF WebhookInv, WebhookTypeOK
  <2>4. \A u \in Threads :
          call'[u] # None => delivery'[u] # None /\ delivery'[u].step = "message"
    BY <1>1 DEF WebhookInv, WebhookTypeOK
  <2>5. \A u \in Threads :
          delivery'[u] # None => (Verdict(delivery[u].callback) = 200)'
    BY DEF WebhookInv, WebhookTypeOK, Verdict
  <2> QED BY <2>1, <2>2, <2>3, <2>4, <2>5 DEF WebhookTypeOK, Messages, Verdict
<1>4. DeliveriesProgress'
  BY <1>1 DEF WebhookInv, DeliveriesProgress, InProgress, Messages
<1>5. AnsweredInOrder'
  BY DEF WebhookInv, AnsweredInOrder
<1>6. AcknowledgedIsAnswered'
  BY DEF WebhookInv, AcknowledgedIsAnswered, Messages
<1> QED BY <1>1, <1>3, <1>4, <1>5, <1>6 DEF WebhookInv

LEMMA Verdicts == \A c : Verdict(c) \in {200, 400, 401, 503}
  BY DEF Verdict

LEMMA SubscribeStep ==
  ASSUME WebhookInv, NEW mode, NEW token, Subscribe(mode, token)
  PROVE  WebhookInv' /\ Grows
<1>1. subscribed' \in BOOLEAN
  BY DEF Subscribe, VerifiesSubscription
<1>2. /\ waiting' \subseteq Callbacks /\ failures' \in 0..MaxFailures
      /\ status' \in [Callbacks -> {0, 200, 400, 401, 500, 503}]
      /\ \A c \in Callbacks :
           runtime.dispatch /\ status'[c] = 200 => status[c] = 200
      /\ UNCHANGED <<vars, runtime, sent, delivery, taken, answered>>
  BY DEF Subscribe, WebhookInv, WebhookTypeOK
<1> QED BY <1>1, <1>2, ShellSteps

LEMMA RefuseStep ==
  ASSUME WebhookInv, NEW c \in Callbacks, Refuse(c)
  PROVE  WebhookInv' /\ Grows
<1> PICK v : v = Verdict(c)
  OBVIOUS
<1>1. v \in {400, 401, 503} /\ status' = [status EXCEPT ![c] = v]
  BY Verdicts DEF Refuse
<1>2. /\ status' \in [Callbacks -> {0, 200, 400, 401, 500, 503}]
      /\ \A b \in Callbacks :
           runtime.dispatch /\ status'[b] = 200 => status[b] = 200
  BY <1>1 DEF WebhookInv, WebhookTypeOK
<1>3. /\ waiting' \subseteq Callbacks /\ failures' \in 0..MaxFailures
      /\ subscribed' \in BOOLEAN
      /\ UNCHANGED <<vars, runtime, sent, delivery, taken, answered>>
  BY DEF Refuse, WebhookInv, WebhookTypeOK
<1> QED BY <1>2, <1>3, ShellSteps

LEMMA AcceptStep ==
  ASSUME WebhookInv, NEW c \in Callbacks, Accept(c)
  PROVE  WebhookInv' /\ Grows
<1>1. ~ runtime.dispatch /\ (Heard(c) \/ AnswerLost(c))
  BY DEF Accept
<1>2. failures' \in 0..MaxFailures
  BY <1>1, FailTyped DEF Heard, AnswerLost, WebhookInv, WebhookTypeOK
<1>3. /\ waiting' \subseteq Callbacks
      /\ status' \in [Callbacks -> {0, 200, 400, 401, 500, 503}]
  BY <1>1 DEF Heard, AnswerLost, WebhookInv, WebhookTypeOK
<1>4. \A b \in Callbacks :
        runtime.dispatch /\ status'[b] = 200 => status[b] = 200
  BY <1>1
<1>5. /\ subscribed' \in BOOLEAN
      /\ UNCHANGED <<vars, runtime, sent, delivery, taken, answered>>
  BY DEF Accept, WebhookInv, WebhookTypeOK
<1> QED BY <1>2, <1>3, <1>4, <1>5, ShellSteps

-----------------------------------------------------------------------------
(* The invariant of the transport, and what it shows.                        *)
LEMMA WebhookInitial == WebhookInit => WebhookInv
<1> SUFFICES ASSUME WebhookInit PROVE WebhookInv
  OBVIOUS
<1>1. ConversationInv
  BY ConversationInit DEF WebhookInit
<1>2. \A c \in Callbacks : /\ taken[c] \in [DOMAIN Messages(c) -> Nat]
                           /\ answered[c] = {} /\ status[c] = 0
  BY DEF WebhookInit
<1>3. \A t \in Threads : delivery[t] = None /\ call[t] = None
  BY DEF WebhookInit, Init
<1>4. WebhookTypeOK
  <2>1. TypeOK
    BY <1>1 DEF ConversationInv
  <2>2. failures \in 0..MaxFailures
    BY WebhookAssumption DEF WebhookInit
  <2>3. /\ status \in [Callbacks -> {0, 200, 400, 401, 500, 503}]
        /\ delivery \in [Threads -> Opt(Delivery)]
        /\ waiting \subseteq Callbacks
    BY DEF WebhookInit, Opt
  <2>4. DOMAIN taken = Callbacks /\ DOMAIN answered = Callbacks
    BY DEF WebhookInit
  <2>5. /\ runtime \in [configured : BOOLEAN, dispatch : BOOLEAN]
        /\ subscribed \in BOOLEAN
        /\ sent \in [Callbacks -> [signature : Signature, payload : Payloads]]
    BY DEF WebhookInit
  <2>6. \A c \in Callbacks : /\ taken[c] \in [DOMAIN Messages(c) -> Nat]
                            /\ answered[c] \subseteq DOMAIN Messages(c)
    BY <1>2
  <2> QED BY ONLY <1>3, <2>1, <2>2, <2>3, <2>4, <2>5, <2>6 DEF WebhookTypeOK
<1>5. DeliveriesProgress /\ AnsweredInOrder /\ AcknowledgedIsAnswered
  BY <1>2, <1>3 DEF DeliveriesProgress, AnsweredInOrder, AcknowledgedIsAnswered
<1> QED BY <1>1, <1>4, <1>5 DEF WebhookInv

LEMMA WebhookStep ==
  WebhookInv /\ [WebhookNext]_<<vars, hookVars>> => WebhookInv' /\ Grows
<1> SUFFICES ASSUME WebhookInv, [WebhookNext]_<<vars, hookVars>>
             PROVE  WebhookInv' /\ Grows
  OBVIOUS
<1>1. ASSUME NEW t \in Threads, Handle(t) PROVE WebhookInv' /\ Grows
  BY <1>1, TakeUpStep, LoadFailsStep, ConverseStep, ReplyStep, RefusedStep,
     ApologiseStep, ApologyRefusedStep, ReturnStep DEF Handle
<1>2. ASSUME NEW c \in Callbacks,
             Refuse(c) \/ Accept(c) \/ \E t \in Threads : Receive(t, c)
      PROVE  WebhookInv' /\ Grows
  BY <1>2, RefuseStep, AcceptStep, ReceiveStep
<1>3. CASE UNCHANGED <<vars, hookVars>>
  <2>1. /\ UNCHANGED <<vars, runtime, subscribed, sent, waiting, status, delivery,
                       taken, answered, failures>>
    BY <1>3 DEF hookVars, meta
  <2>2. /\ subscribed' \in BOOLEAN /\ waiting' \subseteq Callbacks
        /\ failures' \in 0..MaxFailures
        /\ status' \in [Callbacks -> {0, 200, 400, 401, 500, 503}]
        /\ \A c \in Callbacks :
             runtime.dispatch /\ status'[c] = 200 => status[c] = 200
    BY <2>1 DEF WebhookInv, WebhookTypeOK
  <2> QED BY <2>1, <2>2, ShellSteps
<1> QED BY <1>1, <1>2, <1>3, SubscribeStep, TimeOutStep DEF WebhookNext

LEMMA WebhookInvariant == WebhookSpec => []WebhookInv
<1>1. WebhookSpec => WebhookInit /\ [][WebhookNext]_<<vars, hookVars>>
  BY PTL DEF WebhookSpec
<1> QED BY <1>1, WebhookInitial, WebhookStep, PTL

\* Every reachable state is typed: a thread converses only on a callback that
\* the shell accepted (receive_meta_callback, handle_webhook).
THEOREM WebhookTypeCorrect == WebhookSpec => []WebhookTypeOK
<1>1. WebhookInv => WebhookTypeOK
  BY DEF WebhookInv
<1> QED BY <1>1, WebhookInvariant, PTL

\* With dispatch, a callback is acknowledged only when each of its messages was
\* answered by a reply or an apology, whatever failed and however deliveries
\* overlapped (handle_webhook).
THEOREM AcknowledgedCallbacks == WebhookSpec => []AcknowledgedIsAnswered
<1>1. WebhookInv => AcknowledgedIsAnswered
  BY DEF WebhookInv
<1> QED BY <1>1, WebhookInvariant, PTL

\* No message of a callback is answered before the ones listed before it.
THEOREM OrderOfAnswers == WebhookSpec => []AnsweredInOrder
<1>1. WebhookInv => AnsweredInOrder
  BY DEF WebhookInv
<1> QED BY <1>1, WebhookInvariant, PTL

\* What holds of the conversation holds of it behind the transport too, where
\* messages are taken up twice, out of turn and by several threads.
THEOREM ConversationBehindTheHook ==
  WebhookSpec => [](ReviewIsOfTheCart /\ PaymentIsForTheOrder)
<1>1. WebhookInv => ReviewIsOfTheCart /\ PaymentIsForTheOrder
  BY DEF WebhookInv, ConversationInv, Sound, ReviewIsOfTheCart, PaymentIsForTheOrder
<1> QED BY <1>1, WebhookInvariant, PTL

-----------------------------------------------------------------------------
(* What was taken up and what came of it.                                    *)

\* The calls whose message is taken up and not acted upon yet.
Pending(kind) ==
  {t \in Threads :
     call[t] # None /\ call[t].pc = "route" /\ call[t].message.kind = kind}

Waiting(kind) == Cardinality(Pending(kind))

Finite ==
  /\ IsFiniteSet(IssuedOnes) /\ IsFiniteSet(ordered)
  /\ \A kind \in {"add", "qty", "service", "order:confirm"} :
       IsFiniteSet(Pending(kind)) /\ IsFiniteSet(Uptakes(kind))

\* A state whose cart, with one more of each item for every add still to be
\* acted upon, holds no more than was taken up.
Modest(w) ==
  /\ w.navigation.quantity = 1
  /\ \A i \in Items : w.cart[i] + Waiting("add") <= Taken("add")

\* A confirmation uses up a choice of service and an order a confirm, and those
\* still to be acted upon are left for others.
EffectsInv ==
  /\ Finite
  /\ ordered \subseteq IssuedOnes
  /\ Cardinality(IssuedOnes) + Waiting("service") <= Taken("service")
  /\ Cardinality(ordered) + Waiting("order:confirm") <= Taken("order:confirm")
  /\ Uptakes("qty") = {} =>
       /\ Modest(stored)
       /\ \A t \in Threads :
            call[t] # None => call[t].message.kind # "qty" /\ Modest(call[t].state)

LEMMA Counts ==
  ASSUME Finite, NEW kind \in {"add", "qty", "service", "order:confirm"}
  PROVE  /\ Waiting(kind) \in Nat /\ Taken(kind) \in Nat
         /\ Cardinality(IssuedOnes) \in Nat /\ Cardinality(ordered) \in Nat
         /\ Taken(kind) = 0 => Uptakes(kind) = {}
  BY FS_CardinalityType, FS_EmptySet DEF Finite, Waiting, Taken

\* A set that gains an element at most.
LEMMA Gains ==
  ASSUME NEW S, IsFiniteSet(S), NEW x
  PROVE  /\ IsFiniteSet(S \cup {x}) /\ Cardinality(S) \in Nat
         /\ Cardinality(S \cup {x}) \in Nat
         /\ Cardinality(S \cup {x}) <= Cardinality(S) + 1
         /\ x \notin S => Cardinality(S \cup {x}) = Cardinality(S) + 1
<1>1. Cardinality(S) \in Nat
  BY FS_CardinalityType
<1>2. IsFiniteSet(S \cup {x})
      /\ Cardinality(S \cup {x}) = IF x \in S THEN Cardinality(S) ELSE Cardinality(S) + 1
  BY FS_AddElement
<1> QED BY <1>1, <1>2

LEMMA Loses ==
  ASSUME NEW S, IsFiniteSet(S), NEW x
  PROVE  /\ IsFiniteSet(S \ {x}) /\ Cardinality(S \ {x}) \in Nat
         /\ Cardinality(S) \in Nat
         /\ Cardinality(S \ {x}) <= Cardinality(S)
         /\ x \in S => Cardinality(S \ {x}) = Cardinality(S) - 1
<1>1. Cardinality(S) \in Nat /\ Cardinality(S \ {x}) \in Nat /\ IsFiniteSet(S \ {x})
  BY FS_CardinalityType, FS_RemoveElement
<1>2. Cardinality(S \ {x}) = IF x \in S THEN Cardinality(S) - 1 ELSE Cardinality(S)
  BY FS_RemoveElement
<1> QED BY <1>1, <1>2

\* What is pending after a call moved on to d.
LEMMA PendingAfter ==
  ASSUME ConversationInv, NEW t \in Threads, NEW d, call' = [call EXCEPT ![t] = d],
         NEW kind
  PROVE  /\ d # None /\ d.pc = "route" /\ d.message.kind = kind =>
              Pending(kind)' = Pending(kind) \cup {t}
         /\ ~ (d # None /\ d.pc = "route" /\ d.message.kind = kind) =>
              Pending(kind)' = Pending(kind) \ {t}
<1>1. \A u \in Threads : call'[u] = IF u = t THEN d ELSE call[u]
  BY DEF ConversationInv, TypeOK
<1> PICK P : P = Pending(kind)'
  OBVIOUS
<1> PICK Q : Q = Pending(kind)
  OBVIOUS
<1>2. \A u : u \in P <=> /\ u \in Threads /\ call'[u] # None
                         /\ call'[u].pc = "route" /\ call'[u].message.kind = kind
  BY DEF Pending
<1>3. \A u : u \in Q <=> /\ u \in Threads /\ call[u] # None
                         /\ call[u].pc = "route" /\ call[u].message.kind = kind
  BY DEF Pending
<1>4. \A u : u # t => (u \in P <=> u \in Q)
  BY <1>1, <1>2, <1>3
<1>5. t \in P <=> d # None /\ d.pc = "route" /\ d.message.kind = kind
  BY <1>1, <1>2
<1>6. CASE d # None /\ d.pc = "route" /\ d.message.kind = kind
  <2>1. P = Q \cup {t}
    BY <1>4, <1>5, <1>6
  <2> QED BY <1>6, <2>1
<1>7. CASE ~ (d # None /\ d.pc = "route" /\ d.message.kind = kind)
  <2>1. P = Q \ {t}
    BY <1>4, <1>5, <1>7
  <2> QED BY <1>7, <2>1
<1> QED BY <1>6, <1>7

LEMMA UptakesStay ==
  ASSUME UNCHANGED <<sent, taken>>, NEW kind
  PROVE  Uptakes(kind)' = Uptakes(kind) /\ Taken(kind)' = Taken(kind)
  BY DEF Uptakes, Taken, Genuine, Messages

LEMMA UptakesMembers ==
  ASSUME NEW kind, NEW x
  PROVE  x \in Uptakes(kind) <=>
           \E c \in Callbacks : \E k \in DOMAIN Messages(c) : \E n \in 1..taken[c][k] :
             /\ Genuine(c) /\ Messages(c)[k].kind = kind
             /\ x = <<c, k, n>>
  BY DEF Uptakes

\* Taking a message up counts once, for its kind.
LEMMA UptakesGrow ==
  ASSUME WebhookInv, NEW t \in Threads, TakeUp(t), NEW kind
  PROVE  \E x :
           /\ x \notin Uptakes(kind)
           /\ Uptakes(kind)' = IF Messages(Callback(t))[Index(t)].kind = kind
                               THEN Uptakes(kind) \cup {x} ELSE Uptakes(kind)
<1> PICK c : c = Callback(t)
  OBVIOUS
<1> PICK k : k = Index(t)
  OBVIOUS
<1> PICK m : m = Messages(c)[k]
  OBVIOUS
<1> PICK j : j = taken[c][k] + 1
  OBVIOUS
<1> PICK x : x = <<c, k, j>>
  OBVIOUS
<1>1. /\ delivery[t] # None /\ k \in DOMAIN Messages(c)
      /\ taken' = [taken EXCEPT ![c][k] = @ + 1] /\ UNCHANGED sent
  BY DEF TakeUp, NextMessage, Handling, meta
<1>2. c \in Callbacks /\ Verdict(c) = 200 /\ taken[c][k] \in Nat
  BY <1>1, DeliveryFields, CallbackFields
<1>3. Genuine(c)
  BY <1>2 DEF Verdict, Genuine, Supported, Messages
<1>4. \A b \in Callbacks : \A i \in DOMAIN Messages(b) :
        /\ taken[b][i] \in Nat
        /\ (b = c /\ i = k => taken'[b][i] = taken[b][i] + 1 /\ taken'[b][i] = j)
        /\ (b # c \/ i # k => taken'[b][i] = taken[b][i])
  BY <1>1, <1>2, CallbackFields DEF WebhookInv, WebhookTypeOK
<1>5. x \notin Uptakes(kind)
  BY <1>2, UptakesMembers
<1> PICK U : U = Uptakes(kind)
  OBVIOUS
<1> PICK V : V = Uptakes(kind)'
  OBVIOUS
<1>6. \A y : y \in U <=>
        \E b \in Callbacks : \E i \in DOMAIN Messages(b) : \E n \in 1..taken[b][i] :
          Genuine(b) /\ Messages(b)[i].kind = kind /\ y = <<b, i, n>>
  BY UptakesMembers
<1>7. \A y : y \in V <=>
        \E b \in Callbacks : \E i \in DOMAIN Messages(b) : \E n \in 1..taken'[b][i] :
          Genuine(b) /\ Messages(b)[i].kind = kind /\ y = <<b, i, n>>
  BY <1>1 DEF Uptakes, Genuine, Messages
<1>8. U \subseteq V
  <2> SUFFICES ASSUME NEW y \in U PROVE y \in V
    OBVIOUS
  <2>1. PICK b, i, n :
          b \in Callbacks /\ i \in DOMAIN Messages(b) /\ n \in 1..taken[b][i]
          /\ Genuine(b) /\ Messages(b)[i].kind = kind /\ y = <<b, i, n>>
    BY <1>6
  <2>2. n \in 1..taken'[b][i]
    BY <1>2, <1>4, <2>1
  <2> QED BY <1>7, <2>1, <2>2
<1>9. ASSUME NEW y \in V, y \notin U PROVE y = x /\ m.kind = kind
  <2>1. PICK b, i, n :
          b \in Callbacks /\ i \in DOMAIN Messages(b) /\ n \in 1..taken'[b][i]
          /\ Genuine(b) /\ Messages(b)[i].kind = kind /\ y = <<b, i, n>>
    BY <1>7
  <2>2. n \notin 1..taken[b][i]
    BY <1>6, <1>9, <2>1
  <2>3. b = c /\ i = k
    BY <1>4, <2>1, <2>2
  <2>4. n = j
    BY <1>2, <1>4, <2>1, <2>2, <2>3
  <2> QED BY <2>1, <2>3, <2>4
<1>10. m.kind = kind => x \in V
  <2> SUFFICES ASSUME m.kind = kind PROVE x \in V
    OBVIOUS
  <2>1. j \in 1..taken'[c][k]
    BY <1>1, <1>2, <1>4
  <2> QED BY <1>1, <1>2, <1>3, <1>7, <2>1
<1>11. V = IF m.kind = kind THEN U \cup {x} ELSE U
  <2>1. CASE m.kind = kind
    <3>1. V \subseteq U \cup {x} /\ U \cup {x} \subseteq V
      BY <1>8, <1>9, <1>10, <2>1
    <3> QED BY <2>1, <3>1
  <2>2. CASE m.kind # kind
    BY <1>8, <1>9, <2>2
  <2> QED BY <2>1, <2>2
<1> QED BY <1>5, <1>11
-----------------------------------------------------------------------------
\* A modest state stays so while no more is waiting than was taken up since.
LEMMA ModestStays ==
  ASSUME NEW w \in W1RuntimeConversationState, Modest(w),
         Waiting("add") \in Nat, Waiting("add")' \in Nat,
         Taken("add") \in Nat, Taken("add")' \in Nat,
         Taken("add") + Waiting("add")' <= Taken("add")' + Waiting("add")
  PROVE  Modest(w)'
<1>1. \A i \in Items : w.cart[i] \in Nat /\ w.cart[i] + Waiting("add") <= Taken("add")
  BY StateFields DEF Modest, Cart
<1>2. \A i \in Items : w.cart[i] + Waiting("add")' <= Taken("add")'
  BY <1>1
<1> QED BY <1>2 DEF Modest

\* What a call that goes on makes of its state w0.
Follows(t, w0, w) ==
  w0.navigation.quantity = 1 =>
    /\ w.navigation.quantity = 1
    /\ \A i \in Items : \/ w.cart[i] = w0.cart[i]
                        \/ t \in Pending("add") /\ w.cart[i] = w0.cart[i] + 1

\* A call acts upon its message, once: it uses up what was waiting for it.
LEMMA ActsOnce ==
  ASSUME WebhookInv, EffectsInv, NEW t \in Threads, call[t] # None,
         NEW d, call' = [call EXCEPT ![t] = d], UNCHANGED <<sent, taken>>,
         d # None => /\ d.pc # "route" /\ d.message = call[t].message
                     /\ call[t].message.kind # "qty" => Follows(t, Loaded(t), d.state),
         stored' = stored \/ stored' = Loaded(t),
         NEW c,
         \/ IssuedOnes' = IssuedOnes
         \/ t \in Pending("service") /\ IssuedOnes' = IssuedOnes \cup {c},
         \/ ordered' = ordered
         \/ t \in Pending("order:confirm") /\ c \in IssuedOnes
            /\ ordered' = ordered \cup {c}
  PROVE  EffectsInv'
<1>1. \A u \in Threads : call'[u] = IF u = t THEN d ELSE call[u]
  BY DEF WebhookInv, ConversationInv, TypeOK
<1>2. \A kind : Uptakes(kind)' = Uptakes(kind) /\ Taken(kind)' = Taken(kind)
  BY UptakesStay
<1>3. \A kind : Pending(kind)' = Pending(kind) \ {t}
  BY PendingAfter DEF WebhookInv
<1>4. Finite
  BY DEF EffectsInv
<1>5. ASSUME NEW kind \in {"add", "qty", "service", "order:confirm"}
      PROVE  /\ IsFiniteSet(Pending(kind)') /\ IsFiniteSet(Uptakes(kind)')
             /\ Waiting(kind) \in Nat /\ Waiting(kind)' \in Nat /\ Taken(kind) \in Nat
             /\ Waiting(kind)' <= Waiting(kind)
             /\ t \in Pending(kind) => Waiting(kind)' = Waiting(kind) - 1
  <2> PICK P : P = Pending(kind)
    OBVIOUS
  <2>1. IsFiniteSet(P) /\ IsFiniteSet(Uptakes(kind)) /\ Taken(kind) \in Nat
    BY <1>4, Counts DEF Finite
  <2>2. Waiting(kind) = Cardinality(P) /\ Waiting(kind)' = Cardinality(P \ {t})
    BY <1>3 DEF Waiting
  <2> QED BY <1>2, <1>3, <2>1, <2>2, Loses
<1>6. /\ IsFiniteSet(IssuedOnes')
      /\ Cardinality(IssuedOnes') + Waiting("service")' <= Taken("service")'
  <2> PICK S : S = IssuedOnes
    OBVIOUS
  <2>1. IsFiniteSet(S) /\ Cardinality(S) \in Nat
        /\ Cardinality(S) + Waiting("service") <= Taken("service")
    BY <1>4, Counts DEF EffectsInv, Finite
  <2>2. CASE IssuedOnes' = S
    BY <1>2, <1>5, <2>1, <2>2
  <2>3. CASE t \in Pending("service") /\ IssuedOnes' = S \cup {c}
    <3> PICK G : G = S \cup {c}
      OBVIOUS
    <3>1. IsFiniteSet(G) /\ Cardinality(G) \in Nat /\ Cardinality(G) <= Cardinality(S) + 1
      BY <2>1, Gains
    <3>2. IssuedOnes' = G
      BY <2>3
    <3>3. Waiting("service")' = Waiting("service") - 1 /\ Waiting("service") \in Nat
          /\ Taken("service")' = Taken("service") /\ Taken("service") \in Nat
      BY <1>2, <1>5, <2>3
    <3> QED BY <2>1, <3>1, <3>2, <3>3
  <2> QED BY <2>2, <2>3
<1>7. /\ IsFiniteSet(ordered')
      /\ Cardinality(ordered') + Waiting("order:confirm")' <= Taken("order:confirm")'
  <2> PICK S : S = ordered
    OBVIOUS
  <2>1. IsFiniteSet(S) /\ Cardinality(S) \in Nat
        /\ Cardinality(S) + Waiting("order:confirm") <= Taken("order:confirm")
    BY <1>4, Counts DEF EffectsInv, Finite
  <2>2. CASE ordered' = S
    BY <1>2, <1>5, <2>1, <2>2
  <2>3. CASE t \in Pending("order:confirm") /\ ordered' = S \cup {c}
    <3> PICK G : G = S \cup {c}
      OBVIOUS
    <3>1. IsFiniteSet(G) /\ Cardinality(G) \in Nat /\ Cardinality(G) <= Cardinality(S) + 1
      BY <2>1, Gains
    <3>2. ordered' = G
      BY <2>3
    <3>3. Waiting("order:confirm")' = Waiting("order:confirm") - 1 /\ Waiting("order:confirm") \in Nat
          /\ Taken("order:confirm")' = Taken("order:confirm") /\ Taken("order:confirm") \in Nat
      BY <1>2, <1>5, <2>3
    <3> QED BY <2>1, <3>1, <3>2, <3>3
  <2> QED BY <2>2, <2>3
<1>8. ASSUME Uptakes("qty") = {}
      PROVE  /\ Modest(stored)'
             /\ \A u \in Threads :
                  call'[u] # None => call'[u].message.kind # "qty" /\ Modest(call[u].state)'
  <2>1. Modest(stored) /\ Modest(Loaded(t)) /\ call[t].message.kind # "qty"
        /\ \A u \in Threads :
             call[u] # None => call[u].message.kind # "qty" /\ Modest(call[u].state)
    BY <1>8 DEF EffectsInv, Loaded
  <2>2. ASSUME NEW w \in W1RuntimeConversationState, Modest(w) PROVE Modest(w)'
    BY <1>2, <1>5, <2>2, ModestStays
  <2>3. stored \in W1RuntimeConversationState /\ Loaded(t) \in W1RuntimeConversationState
        /\ \A u \in Threads : call[u] # None => call[u].state \in W1RuntimeConversationState
    BY CallFields DEF WebhookInv, ConversationInv, TypeOK, Loaded
  <2>4. Modest(stored)'
    <3> PICK w \in W1RuntimeConversationState : w = stored' /\ Modest(w)
      BY <2>1, <2>3
    <3>1. Modest(w)'
      BY <2>2
    <3> QED BY <3>1 DEF Modest
  <2>5. ASSUME NEW u \in Threads, NEW e, e = call'[u], e # None
        PROVE  e.message.kind # "qty" /\ Modest(e.state)'
    <3>1. CASE u # t
      <4> PICK w \in W1RuntimeConversationState : w = e.state /\ Modest(w)
        BY <1>1, <2>1, <2>3, <2>5, <3>1
      <4>1. Modest(w)'
        BY <2>2
      <4> QED BY <1>1, <2>1, <2>5, <3>1, <4>1
    <3>2. CASE u = t
      <4> PICK w0 : w0 = Loaded(t)
        OBVIOUS
      <4>1. e = d /\ d.message = call[t].message /\ Follows(t, w0, d.state)
        BY <1>1, <2>1, <2>5, <3>2
      <4>2. \A i \in Items : w0.cart[i] \in Nat /\ w0.cart[i] + Waiting("add") <= Taken("add")
        BY <2>1, <2>3, StateFields DEF Modest, Cart
      <4>3. ASSUME NEW i \in Items
            PROVE  d.state.cart[i] + Waiting("add")' <= Taken("add")'
        <5>1. CASE d.state.cart[i] = w0.cart[i]
          BY <1>2, <1>5, <4>2, <5>1
        <5>2. CASE t \in Pending("add") /\ d.state.cart[i] = w0.cart[i] + 1
          BY <1>2, <1>5, <4>2, <5>2
        <5> QED BY <2>1, <4>1, <5>1, <5>2 DEF Follows, Modest
      <4>4. d.state.navigation.quantity = 1
        BY <2>1, <4>1 DEF Follows, Modest
      <4> QED BY <2>1, <4>1, <4>3, <4>4 DEF Modest
    <3> QED BY <3>1, <3>2
  <2> QED BY <2>4, <2>5 DEF Modest
<1>9. ordered' \subseteq IssuedOnes'
  <2>1. ordered \subseteq IssuedOnes /\ IssuedOnes \subseteq IssuedOnes'
    BY DEF EffectsInv
  <2> QED BY <2>1
<1> QED
  BY <1>2, <1>5, <1>6, <1>7, <1>8, <1>9 DEF EffectsInv, Finite
\* Taking a message up makes room for what its call will do.
LEMMA TakeUpEffects ==
  ASSUME WebhookInv, EffectsInv, NEW t \in Threads, TakeUp(t)
  PROVE  EffectsInv'
<1> PICK m : m = Messages(Callback(t))[Index(t)]
  OBVIOUS
<1> PICK d : d = [pc |-> "route", message |-> m, state |-> stored]
  OBVIOUS
<1>1. /\ delivery[t] # None /\ call[t] = None /\ call' = [call EXCEPT ![t] = d]
      /\ Index(t) \in DOMAIN Messages(Callback(t)) /\ UNCHANGED <<stored, issued, ordered>>
  BY DEF TakeUp, NextMessage, Handling, world
<1>2. m \in Message
  BY <1>1, DeliveryFields, CallbackFields
<1>3. stored \in W1RuntimeConversationState
  BY DEF WebhookInv, ConversationInv, TypeOK
<1>4. d # None /\ d.pc = "route" /\ d.message = m /\ d.state = stored
  <2>1. d \in Call
    BY <1>2, <1>3 DEF Call
  <2> QED BY <2>1, ConversationAssumption
<1>5. \A u \in Threads : call'[u] = IF u = t THEN d ELSE call[u]
  BY <1>1 DEF WebhookInv, ConversationInv, TypeOK
<1>6. \A kind :
         /\ d # None /\ d.pc = "route" /\ d.message.kind = kind =>
              Pending(kind)' = Pending(kind) \cup {t}
         /\ ~ (d # None /\ d.pc = "route" /\ d.message.kind = kind) =>
              Pending(kind)' = Pending(kind) \ {t}
  <2>1. ConversationInv /\ call' = [call EXCEPT ![t] = d]
    BY <1>1 DEF WebhookInv
  <2> QED BY ONLY <2>1, PendingAfter, t \in Threads
<1>7. Finite
  BY DEF EffectsInv
<1>8. ASSUME NEW kind \in {"add", "qty", "service", "order:confirm"}
      PROVE  /\ IsFiniteSet(Pending(kind)') /\ IsFiniteSet(Uptakes(kind)')
             /\ Waiting(kind) \in Nat /\ Waiting(kind)' \in Nat
             /\ Taken(kind) \in Nat /\ Taken(kind)' \in Nat
             /\ Waiting(kind)' + Taken(kind) <= Waiting(kind) + Taken(kind)'
             /\ Uptakes(kind)' = {} => Uptakes(kind) = {} /\ m.kind # kind
  <2> PICK P : P = Pending(kind)
    OBVIOUS
  <2> PICK U : U = Uptakes(kind)
    OBVIOUS
  <2>1. IsFiniteSet(P) /\ IsFiniteSet(U)
    BY <1>7 DEF Finite
  <2>2. Waiting(kind) = Cardinality(P) /\ Taken(kind) = Cardinality(U)
    BY DEF Waiting, Taken
  <2>3. PICK x : x \notin U /\ Uptakes(kind)' = IF m.kind = kind THEN U \cup {x} ELSE U
    BY UptakesGrow
  <2>4. t \notin P
    BY <1>1 DEF Pending
  <2>5. CASE m.kind = kind
    <3> PICK Q : Q = P \cup {t}
      OBVIOUS
    <3> PICK V : V = U \cup {x}
      OBVIOUS
    <3>1. Pending(kind)' = Q /\ Uptakes(kind)' = V
      <4>1. d # None /\ d.pc = "route" /\ d.message.kind = kind /\ ConversationInv
        BY <1>4, <2>5 DEF WebhookInv
      <4>2. Pending(kind)' = Pending(kind) \cup {t}
        BY <1>6, <4>1
      <4> QED BY <2>3, <2>5, <4>2
    <3>2. Waiting(kind)' = Cardinality(Q) /\ Taken(kind)' = Cardinality(V)
      BY <3>1 DEF Waiting, Taken
    <3>3. IsFiniteSet(Q) /\ Cardinality(Q) = Cardinality(P) + 1 /\ Cardinality(P) \in Nat
      BY <2>1, <2>4, Gains
    <3>4. IsFiniteSet(V) /\ Cardinality(V) = Cardinality(U) + 1 /\ Cardinality(U) \in Nat
      BY <2>1, <2>3, Gains
    <3> QED BY <2>2, <3>1, <3>2, <3>3, <3>4
  <2>6. CASE m.kind # kind
    <3>1. Pending(kind)' = P \ {t} /\ Uptakes(kind)' = U
      <4>1. ~ (d # None /\ d.pc = "route" /\ d.message.kind = kind) /\ ConversationInv
        BY <1>4, <2>6 DEF WebhookInv
      <4>2. Pending(kind)' = Pending(kind) \ {t}
        BY <1>6, <4>1
      <4> QED BY <2>3, <2>6, <4>2
    <3>2. Pending(kind)' = P
      BY <2>4, <3>1
    <3>3. Waiting(kind)' = Cardinality(P) /\ Taken(kind)' = Cardinality(U)
      BY <3>1, <3>2 DEF Waiting, Taken
    <3>4. Cardinality(P) \in Nat /\ Cardinality(U) \in Nat
      BY <2>1, FS_CardinalityType
    <3>5. Waiting(kind)' = Waiting(kind) /\ Taken(kind)' = Taken(kind)
          /\ Waiting(kind) \in Nat /\ Taken(kind) \in Nat
      BY <2>2, <3>3, <3>4
    <3>6. IsFiniteSet(Pending(kind)') /\ IsFiniteSet(Uptakes(kind)')
      BY <2>1, <3>1, <3>2
    <3>7. Uptakes(kind)' = {} => Uptakes(kind) = {} /\ m.kind # kind
      BY <2>6, <3>1
    <3> QED BY <3>5, <3>6, <3>7
  <2> QED BY <2>5, <2>6
<1>9. IssuedOnes' = IssuedOnes /\ ordered' = ordered
  BY <1>1 DEF IssuedOnes
<1>10. /\ Cardinality(IssuedOnes') + Waiting("service")' <= Taken("service")'
      /\ Cardinality(ordered') + Waiting("order:confirm")' <= Taken("order:confirm")'
  <2>1. /\ Cardinality(IssuedOnes) + Waiting("service") <= Taken("service")
        /\ Cardinality(ordered) + Waiting("order:confirm") <= Taken("order:confirm")
        /\ Cardinality(IssuedOnes) \in Nat /\ Cardinality(ordered) \in Nat
    BY <1>7, Counts DEF EffectsInv
  <2> QED BY <1>8, <1>9, <2>1
<1>11. ASSUME Uptakes("qty")' = {}
       PROVE  /\ Modest(stored)'
              /\ \A u \in Threads :
                   call'[u] # None => call'[u].message.kind # "qty" /\ Modest(call[u].state)'
  <2>1. m.kind # "qty" /\ Modest(stored)
        /\ \A u \in Threads :
             call[u] # None => call[u].message.kind # "qty" /\ Modest(call[u].state)
    BY <1>8, <1>11 DEF EffectsInv
  <2>2. ASSUME NEW w \in W1RuntimeConversationState, Modest(w) PROVE Modest(w)'
    BY <1>8, <2>2, ModestStays
  <2> PICK s \in W1RuntimeConversationState : s = stored
    BY <1>3
  <2>3. Modest(s)' /\ stored' = s
    BY <1>1, <2>1, <2>2
  <2>4. ASSUME NEW u \in Threads, NEW e, e = call'[u], e # None
        PROVE  e.message.kind # "qty" /\ Modest(e.state)'
    <3>1. CASE u = t
      BY <1>4, <1>5, <2>1, <2>3, <2>4, <3>1
    <3>2. CASE u # t
      <4> PICK w \in W1RuntimeConversationState : w = e.state /\ Modest(w)
        BY <1>5, <2>1, <2>4, <3>2, CallFields DEF WebhookInv, Loaded
      <4>1. Modest(w)'
        BY <2>2
      <4> QED BY <1>5, <2>1, <2>4, <3>2, <4>1
    <3> QED BY <3>1, <3>2
  <2> QED BY <2>3, <2>4 DEF Modest
<1> QED
  BY <1>7, <1>8, <1>9, <1>10, <1>11 DEF EffectsInv, Finite

LEMMA EffectsStay ==
  ASSUME EffectsInv, UNCHANGED <<stored, issued, ordered, call, sent, taken>>
  PROVE  EffectsInv'
<1>1. IssuedOnes' = IssuedOnes /\ ordered' = ordered /\ stored' = stored
  BY DEF IssuedOnes
<1>2. \A kind : Uptakes(kind)' = Uptakes(kind) /\ Taken(kind)' = Taken(kind)
  BY UptakesStay
<1>3. \A kind : Pending(kind)' = Pending(kind) /\ Waiting(kind)' = Waiting(kind)
  BY DEF Pending, Waiting
<1>4. Finite'
  BY <1>1, <1>2, <1>3 DEF EffectsInv, Finite
<1> QED BY <1>1, <1>2, <1>3, <1>4 DEF EffectsInv, Modest

LEMMA EffectsInit == WebhookInit => EffectsInv
<1> SUFFICES ASSUME WebhookInit PROVE EffectsInv
  OBVIOUS
<1>1. IssuedOnes = {} /\ ordered = {}
  BY DEF WebhookInit, Init, IssuedOnes
<1>2. \A kind : Pending(kind) = {}
  BY DEF WebhookInit, Init, Pending
<1>3. ASSUME NEW kind PROVE Uptakes(kind) = {}
  <2> SUFFICES ASSUME NEW x \in Uptakes(kind) PROVE FALSE
    OBVIOUS
  <2>1. PICK c, k, n : c \in Callbacks /\ k \in DOMAIN Messages(c) /\ n \in 1..taken[c][k]
    BY UptakesMembers
  <2>2. taken[c][k] = 0
    BY <2>1 DEF WebhookInit
  <2> QED BY <2>1, <2>2
<1>4. IsFiniteSet({}) /\ Cardinality({}) = 0
  BY FS_EmptySet
<1>5. Modest(stored)
  <2>1. stored.navigation.quantity = 1 /\ \A i \in Items : stored.cart[i] = 0
    BY DEF WebhookInit, Init, NoNavigation
  <2> QED BY <1>2, <1>3, <1>4, <2>1 DEF Modest, Waiting, Taken
<1>6. \A t \in Threads : call[t] = None
  BY DEF WebhookInit, Init
<1>7. Finite
  BY <1>1, <1>2, <1>3, <1>4 DEF Finite
<1>8. /\ Cardinality(IssuedOnes) = 0 /\ Cardinality(ordered) = 0
      /\ \A kind : Waiting(kind) = 0 /\ Taken(kind) = 0
  BY <1>1, <1>2, <1>3, <1>4 DEF Waiting, Taken
<1> QED BY <1>1, <1>5, <1>6, <1>7, <1>8 DEF EffectsInv

-----------------------------------------------------------------------------
(* What the router makes of a state's cart and quantity.                     *)
Keeps(w0, w) ==
  /\ w.cart = w0.cart
  /\ w0.navigation.quantity = 1 => w.navigation.quantity = 1

LEMMA GoingKeeps ==
  ASSUME NEW w \in W1RuntimeConversationState, NEW n, NEW k, n.quantity = 1
  PROVE  Keeps(w, Going(w, n, k))
<1> PICK d : d = Going(w, n, k)
  OBVIOUS
<1>1. d.cart = w.cart /\ d.navigation = n
  BY DEF Going, W1RuntimeConversationState
<1> QED BY <1>1 DEF Keeps

\* A new checkout is all that changes.
LEMMA CheckoutKeeps ==
  ASSUME NEW w \in W1RuntimeConversationState, NEW k
  PROVE  Keeps(w, [w EXCEPT !.checkout = k])
<1> PICK d : d = [w EXCEPT !.checkout = k]
  OBVIOUS
<1>1. d.cart = w.cart /\ d.navigation = w.navigation
  BY DEF W1RuntimeConversationState
<1> QED BY <1>1 DEF Keeps

LEMMA FailureKeeps ==
  ASSUME NEW w \in W1RuntimeConversationState
  PROVE  Keeps(w, Failure(w))
  BY CheckoutKeeps DEF Failure

LEMMA MenuKeeps ==
  ASSUME NEW w \in W1RuntimeConversationState, NEW s, NEW i
  PROVE  /\ Keeps(w, Root(w)) /\ Keeps(w, Unsupported(w)) /\ Keeps(w, Section(w, s))
         /\ Keeps(w, Item(w, i)) /\ Keeps(w, Back(w))
<1>1. NoNavigation.quantity = 1 /\ [NoNavigation EXCEPT !.section = s].quantity = 1
      /\ [section |-> SectionOf[i], item |-> i, quantity |-> 1].quantity = 1
      /\ [NoNavigation EXCEPT !.section = w.navigation.section].quantity = 1
  BY DEF NoNavigation
<1>2. Keeps(w, Root(w)) /\ Keeps(w, Unsupported(w))
  BY <1>1, GoingKeeps DEF Root, Unsupported
<1>3. Keeps(w, Section(w, s)) /\ Keeps(w, Section(w, w.navigation.section))
  BY <1>1, <1>2, GoingKeeps DEF Section
<1>4. Keeps(w, Item(w, i))
  BY <1>1, <1>2, GoingKeeps DEF Item
<1> QED BY <1>2, <1>3, <1>4 DEF Back

LEMMA SelectKeeps ==
  ASSUME NEW w \in W1RuntimeConversationState, NEW m
  PROVE  Keeps(w, SelectPaymentMethod(w, m))
<1>1. CASE w.checkout.options # None /\ m \in w.checkout.options.methods
  <2> PICK d : d = SelectPaymentMethod(w, m)
    OBVIOUS
  <2>1. d = [w EXCEPT !.checkout.stage = "method_selected", !.checkout.method = m]
    BY <1>1 DEF SelectPaymentMethod
  <2>2. d.cart = w.cart /\ d.navigation = w.navigation
    BY <2>1 DEF W1RuntimeConversationState
  <2> QED BY <2>2 DEF Keeps
<1>2. CASE ~ (w.checkout.options # None /\ m \in w.checkout.options.methods)
  BY <1>2, FailureKeeps DEF SelectPaymentMethod
<1> QED BY <1>1, <1>2

\* Adding adds the quantity of the item that is shown.
LEMMA AddAddsOne ==
  ASSUME NEW w \in W1RuntimeConversationState, w.navigation.quantity = 1
  PROVE  /\ Add(w).navigation.quantity = 1
         /\ \A i \in Items : Add(w).cart[i] = w.cart[i] \/ Add(w).cart[i] = w.cart[i] + 1
<1> PICK d : d = Add(w)
  OBVIOUS
<1>1. CASE w.navigation.item # None
  <2> PICK i : i = w.navigation.item
    OBVIOUS
  <2>1. d = [w EXCEPT !.cart[i] = @ + w.navigation.quantity, !.checkout = NoCheckout]
    BY <1>1 DEF Add
  <2>2. d.cart = [w.cart EXCEPT ![i] = @ + 1] /\ d.navigation = w.navigation
    BY <2>1 DEF W1RuntimeConversationState
  <2>3. w.cart \in Cart
    BY StateFields
  <2> QED BY <2>2, <2>3 DEF Cart
<1>2. CASE w.navigation.item = None
  BY <1>2, MenuKeeps DEF Add, Keeps
<1> QED BY <1>1, <1>2

\* W1ConversationRouter.route adds one of an item at most, and only for an add,
\* while no other quantity was asked for.
LEMMA RoutedFollows ==
  ASSUME WebhookInv, NEW t \in Threads, At(t, "route"), Kind(t) \in Local,
         Kind(t) # "qty", NEW w, w = Routed(Loaded(t), call[t].message)
  PROVE  Follows(t, Loaded(t), w)
<1> PICK w0 : w0 = Loaded(t)
  OBVIOUS
<1> PICK m : m = call[t].message
  OBVIOUS
<1>1. w0 \in W1RuntimeConversationState
  BY CallFields DEF WebhookInv, At
<1>2. Keeps(w0, w) => Follows(t, w0, w)
  BY DEF Keeps, Follows
<1>3. CASE m.kind = "add"
  <2>1. t \in Pending("add") /\ w = Add(w0)
    BY <1>3 DEF Pending, At, Routed
  <2> QED BY <1>1, <2>1, AddAddsOne DEF Follows
<1>4. CASE m.kind \in {"menu", "back", "section", "item"}
  BY <1>1, <1>2, <1>4, MenuKeeps DEF Routed
<1>5. CASE m.kind \in {"help", "other"}
  BY <1>2, <1>5 DEF Routed, Keeps
<1>6. CASE m.kind \in {"cart", "order:change", "checkout"}
  BY <1>1, <1>2, <1>6, CheckoutKeeps, FailureKeeps DEF Routed, CartReview, ChooseMode
<1>7. CASE m.kind = "pay"
  BY <1>1, <1>2, <1>7, SelectKeeps DEF Routed
<1> QED BY <1>3, <1>4, <1>5, <1>6, <1>7 DEF Local, Plain, Kind

-----------------------------------------------------------------------------
(* Every step keeps to what was taken up.                                    *)
LEMMA ContinuesOnce ==
  ASSUME WebhookInv, EffectsInv, NEW t \in Threads, call[t] # None,
         NEW pc, pc # "route", NEW w, Continue(t, pc, w),
         call[t].message.kind # "qty" => Follows(t, Loaded(t), w),
         UNCHANGED <<stored, sent, taken>>,
         NEW c,
         \/ IssuedOnes' = IssuedOnes
         \/ t \in Pending("service") /\ IssuedOnes' = IssuedOnes \cup {c},
         \/ ordered' = ordered
         \/ t \in Pending("order:confirm") /\ c \in IssuedOnes
            /\ ordered' = ordered \cup {c}
  PROVE  EffectsInv'
<1> PICK d : d = [call[t] EXCEPT !.pc = pc, !.state = w]
  OBVIOUS
<1>1. call[t] \in Call
  BY CallFields DEF WebhookInv
<1>2. d.pc = pc /\ d.message = call[t].message /\ d.state = w
  BY <1>1 DEF Call
<1>3. call' = [call EXCEPT ![t] = d]
  BY DEF Continue
<1> QED BY <1>2, <1>3, ActsOnce

LEMMA FailsOnce ==
  ASSUME WebhookInv, EffectsInv, NEW t \in Threads, call[t] # None,
         Continue(t, "save", Failure(Loaded(t))), UNCHANGED <<stored, issued, sent, taken>>,
         NEW c,
         \/ ordered' = ordered
         \/ t \in Pending("order:confirm") /\ c \in IssuedOnes
            /\ ordered' = ordered \cup {c}
  PROVE  EffectsInv'
<1> PICK w : w = Failure(Loaded(t))
  OBVIOUS
<1>1. Follows(t, Loaded(t), w)
  BY CallFields, FailureKeeps DEF WebhookInv, Keeps, Follows
<1>2. IssuedOnes' = IssuedOnes
  BY DEF IssuedOnes
<1> QED BY <1>1, <1>2, ContinuesOnce

\* A service that is chosen leads to one confirmation at most.
LEMMA PreparesOnce ==
  ASSUME WebhookInv, EffectsInv, NEW t \in Threads, NEW c \in Confirmations,
         Prepare(t, c), UNCHANGED <<sent, taken>>
  PROVE  EffectsInv'
<1> PICK r : r = [cart |-> Loaded(t).cart, mode |-> call[t].message.ref]
  OBVIOUS
<1> PICK w : w = [Loaded(t) EXCEPT
                    !.checkout = [Stage("order_review") EXCEPT !.confirmation = c]]
  OBVIOUS
<1>1. /\ call[t] # None /\ call[t].pc = "route" /\ call[t].message.kind = "service"
      /\ issued' = [issued EXCEPT ![c] = r] /\ Continue(t, "save", w)
      /\ call[t].message.ref \in Modes /\ UNCHANGED <<stored, ordered>>
  BY DEF Prepare, At, Kind
<1>2. Loaded(t) \in W1RuntimeConversationState /\ r # None
  <2>1. r \in [cart : Cart, mode : ServiceMode]
    BY <1>1, CallFields, ConversationAssumption DEF WebhookInv
  <2> QED BY <1>1, <2>1, CallFields, ConversationAssumption DEF WebhookInv
<1>3. t \in Pending("service")
  BY <1>1 DEF Pending
<1>4. IssuedOnes' = IssuedOnes \cup {c}
  <2>1. \A b \in Confirmations : issued'[b] = IF b = c THEN r ELSE issued[b]
    BY <1>1 DEF WebhookInv, ConversationInv, TypeOK
  <2> QED BY <1>2, <2>1 DEF IssuedOnes
<1>5. Follows(t, Loaded(t), w)
  BY <1>2, CheckoutKeeps DEF Keeps, Follows
<1> QED BY <1>1, <1>3, <1>4, <1>5, ContinuesOnce

\* A confirm leads to one order at most.
LEMMA SubmitsOnce ==
  ASSUME WebhookInv, EffectsInv, NEW t \in Threads, Submit(t), UNCHANGED <<sent, taken>>
  PROVE  EffectsInv'
<1> PICK w : w = Loaded(t)
  OBVIOUS
<1> PICK c : c = w.checkout.confirmation
  OBVIOUS
<1>1. /\ call[t] # None /\ t \in Pending("order:confirm")
      /\ ordered' = ordered \cup {c} /\ UNCHANGED <<stored, issued>>
      /\ Continue(t, "options", w) \/ Continue(t, "save", Failure(w))
      /\ c # None
  BY DEF Submit, Confirmable, At, Kind, Pending
<1>2. c \in IssuedOnes
  BY <1>1, CallFields DEF WebhookInv, Sound, IssuedOnes
<1>3. CASE Continue(t, "options", w)
  <2>1. Follows(t, Loaded(t), w) /\ IssuedOnes' = IssuedOnes
    BY <1>1 DEF Follows, IssuedOnes
  <2> QED BY <1>1, <1>2, <1>3, <2>1, ContinuesOnce
<1>4. CASE Continue(t, "save", Failure(w))
  BY <1>1, <1>2, <1>4, FailsOnce
<1> QED BY <1>1, <1>3, <1>4

LEMMA OffersOnce ==
  ASSUME WebhookInv, EffectsInv, NEW t \in Threads, NEW options,
         PaymentOptions(t, options), UNCHANGED <<sent, taken>>
  PROVE  EffectsInv'
<1>1. call[t] # None /\ UNCHANGED <<stored, issued, ordered>>
  BY DEF PaymentOptions, At, world
<1>2. IssuedOnes' = IssuedOnes
  BY <1>1 DEF IssuedOnes
<1>3. CASE OptionsMatch(t, options)
  <2> PICK k : k = [Stage("payment_options") EXCEPT
                      !.confirmation = Loaded(t).checkout.confirmation,
                      !.order = Loaded(t).checkout.confirmation,
                      !.options = options]
    OBVIOUS
  <2> PICK w : w = [Loaded(t) EXCEPT !.checkout = k]
    OBVIOUS
  <2>1. Continue(t, "save", w)
    BY <1>3 DEF PaymentOptions
  <2>2. Follows(t, Loaded(t), w)
    <3>1. Loaded(t) \in W1RuntimeConversationState
      BY <1>1, CallFields DEF WebhookInv
    <3> QED BY <3>1, CheckoutKeeps DEF Keeps, Follows
  <2> QED BY <1>1, <1>2, <2>1, <2>2, ContinuesOnce
<1>4. CASE ~ OptionsMatch(t, options)
  BY <1>1, <1>4, FailsOnce DEF PaymentOptions
<1> QED BY <1>3, <1>4

LEMMA RoutesOnce ==
  ASSUME WebhookInv, EffectsInv, NEW t \in Threads, Route(t), UNCHANGED <<sent, taken>>
  PROVE  EffectsInv'
<1> PICK w : w = Routed(Loaded(t), call[t].message)
  OBVIOUS
<1>1. /\ At(t, "route") /\ Kind(t) \in Local /\ call[t] # None
      /\ Continue(t, "save", w) /\ UNCHANGED <<stored, issued, ordered>>
  BY DEF Route, At, world
<1>2. call[t].message.kind # "qty" => Follows(t, Loaded(t), w)
  BY <1>1, RoutedFollows DEF Kind
<1>3. IssuedOnes' = IssuedOnes
  BY <1>1 DEF IssuedOnes
<1> QED BY <1>1, <1>2, <1>3, ContinuesOnce

\* What is saved is what the call made of the state it loaded.
LEMMA SavesOnce ==
  ASSUME WebhookInv, EffectsInv, NEW t \in Threads, Save(t), UNCHANGED <<sent, taken>>
  PROVE  EffectsInv'
<1> PICK d : d = [call[t] EXCEPT !.pc = "send"]
  OBVIOUS
<1>1. /\ call[t] # None /\ stored' = Loaded(t) /\ UNCHANGED <<issued, ordered>>
      /\ call' = [call EXCEPT ![t] = d]
  BY DEF Save, At, Loaded, world
<1>2. call[t] \in Call
  BY <1>1, CallFields DEF WebhookInv
<1>3. d.pc = "send" /\ d.message = call[t].message /\ d.state = Loaded(t)
  BY <1>2 DEF Call, Loaded
<1>4. Follows(t, Loaded(t), d.state) /\ IssuedOnes' = IssuedOnes
  BY <1>1, <1>3 DEF Follows, IssuedOnes
<1> QED BY <1>1, <1>3, <1>4, ActsOnce

LEMMA EndsOnce ==
  ASSUME WebhookInv, EffectsInv, NEW t \in Threads, Send(t) \/ Abort(t),
         UNCHANGED <<sent, taken>>
  PROVE  EffectsInv'
<1>1. /\ call[t] # None /\ call' = [call EXCEPT ![t] = None]
      /\ UNCHANGED <<stored, issued, ordered>>
  BY DEF Send, Abort, At, world
<1>2. IssuedOnes' = IssuedOnes
  BY <1>1 DEF IssuedOnes
<1> QED BY <1>1, <1>2, ActsOnce

LEMMA ConversesOnce ==
  ASSUME WebhookInv, EffectsInv, NEW t \in Threads, Converse(t)
  PROVE  EffectsInv'
<1>1. UNCHANGED <<sent, taken>>
  BY DEF Converse, hookVars, meta
<1>2. ASSUME PrepareFails(t) \/ NotReady(t) \/ SubmitFails(t) \/ PaymentOptionsFail(t)
      PROVE  EffectsInv'
  <2>1. /\ call[t] # None /\ Continue(t, "save", Failure(Loaded(t)))
        /\ UNCHANGED <<stored, issued, ordered>>
    BY <1>2 DEF PrepareFails, NotReady, SubmitFails, Confirmable, PaymentOptionsFail, At,
                world
  <2> QED BY <1>1, <2>1, FailsOnce
<1> QED
  BY <1>1, <1>2, RoutesOnce, SubmitsOnce, SavesOnce, PreparesOnce, OffersOnce
     DEF Converse

LEMMA EffectsStep ==
  WebhookInv /\ EffectsInv /\ [WebhookNext]_<<vars, hookVars>> => EffectsInv'
<1> SUFFICES ASSUME WebhookInv, EffectsInv, [WebhookNext]_<<vars, hookVars>>
             PROVE  EffectsInv'
  OBVIOUS
<1>1. CASE UNCHANGED <<vars, sent, taken>>
  BY <1>1, EffectsStay DEF vars, world
<1>2. ASSUME NEW t \in Threads, Handle(t) PROVE EffectsInv'
  <2>1. CASE Reply(t) \/ ReplyRefused(t) \/ Interrupted(t)
    BY <2>1, EndsOnce DEF Reply, ReplyRefused, Interrupted, meta
  <2>2. CASE LoadFails(t) \/ Apologise(t) \/ ApologyRefused(t) \/ Return(t)
    BY <1>1, <2>2 DEF LoadFails, Apologise, ApologyRefused, Return, meta
  <2> QED BY <1>2, <2>1, <2>2, TakeUpEffects, ConversesOnce DEF Handle
<1>3. ASSUME NEW c \in Callbacks,
             Refuse(c) \/ Accept(c) \/ \E t \in Threads : Receive(t, c)
      PROVE  EffectsInv'
  BY <1>1, <1>3 DEF Refuse, Accept, Receive
<1>4. ASSUME NEW mode, NEW token, Subscribe(mode, token) PROVE EffectsInv'
  BY <1>1, <1>4 DEF Subscribe
<1>5. ASSUME NEW t \in Threads, TimeOut(t) PROVE EffectsInv'
  BY <1>1, <1>5 DEF TimeOut
<1>6. CASE UNCHANGED <<vars, hookVars>>
  BY <1>1, <1>6 DEF hookVars, meta
<1> QED BY <1>2, <1>3, <1>4, <1>5, <1>6 DEF WebhookNext

\* Nothing reaches the cart, the confirmations or the orders that was not taken
\* up out of a genuine callback, however often Meta delivers and whatever fails
\* (receive_meta_callback, handle_webhook, W1ConversationRouter.route).
THEOREM EffectsDelivered == WebhookSpec => []EffectsAreDelivered
<1>1. WebhookSpec => WebhookInit /\ [][WebhookNext]_<<vars, hookVars>>
  BY PTL DEF WebhookSpec
<1>2. WebhookSpec => [](WebhookInv /\ EffectsInv)
  BY <1>1, EffectsInit, EffectsStep, WebhookInvariant, PTL
<1>3. WebhookInv /\ EffectsInv => EffectsAreDelivered
  <2> SUFFICES ASSUME WebhookInv, EffectsInv PROVE EffectsAreDelivered
    OBVIOUS
  <2>1. Finite
    BY DEF EffectsInv
  <2>2. /\ Cardinality(IssuedOnes) <= Taken("service")
        /\ Cardinality(ordered) <= Taken("order:confirm")
        /\ ordered \subseteq IssuedOnes
    BY <2>1, Counts DEF EffectsInv
  <2>3. ASSUME Taken("qty") = 0, NEW i \in Items PROVE stored.cart[i] <= Taken("add")
    <3>1. Modest(stored)
      BY <2>1, <2>3, Counts DEF EffectsInv
    <3>2. stored.cart[i] \in Nat /\ stored.cart[i] + Waiting("add") <= Taken("add")
      BY <3>1, StateFields DEF Modest, Cart, WebhookInv, ConversationInv, TypeOK
    <3> QED BY <2>1, <3>2, Counts
  <2> QED BY <2>2, <2>3 DEF EffectsAreDelivered
<1> QED BY <1>2, <1>3, PTL
=============================================================================
