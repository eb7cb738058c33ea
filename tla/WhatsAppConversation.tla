------------------------- MODULE WhatsAppConversation -------------------------
(* The W1 conversation: W1WhatsAppRuntime loads what it keeps of a customer, *)
(* W1ConversationRouter and W1CheckoutUX answer one message, the result is   *)
(* saved and then sent.  Messages come from buttons of any age and several   *)
(* may be handled at once.  The state port and the order and payment         *)
(* boundary are protocols the caller injects: what they do here is what the  *)
(* router relies on, one order per confirmation among it.  A router built    *)
(* without a checkout, which can only browse, is left out.  One customer.    *)
EXTENDS Naturals, FiniteSets

CONSTANTS
  None,
  Items,           \* items of the catalog projection the customer browses
  Sections,
  SectionOf,       \* the section of an item
  GoneItems,       \* items only an old message still names
  Modes,           \* service modes the entry context and table allow
  Methods,         \* payment methods XBOS may permit
  Confirmations,   \* confirmations the boundary may issue
  Threads,
  MaxQuantity,     \* bound on the quantities of one item in the cart
  MaxMessages      \* bound on the messages the customer sends

ServiceMode == {"dine_in", "takeaway", "delivery"}
Quantities  == 1..3
Opt(S) == S \cup {None}

\* Lines of one item are added up.
Cart == [Items -> Nat]

Options == [order : Confirmations, methods : SUBSET Methods]

\* Stage "none" is no checkout at all.  An order is named after the
\* confirmation it was made from.
W1CheckoutState ==
  [stage : {"none", "cart_review", "service_mode", "order_review",
            "payment_options", "method_selected", "error"},
   confirmation : Opt(Confirmations), order : Opt(Confirmations),
   options : Opt(Options), method : Opt(Methods)]

W1NavigationCursor ==
  [section : Opt(Sections), item : Opt(Items), quantity : Quantities]

W1RuntimeConversationState ==
  [cart : Cart, navigation : W1NavigationCursor, checkout : W1CheckoutState]

Plain == {"menu", "help", "back", "add", "cart", "checkout", "order:confirm",
          "order:change", "other"}

Message ==
  [kind : Plain, ref : {None}]
    \cup [kind : {"section"}, ref : Sections]
    \cup [kind : {"item"}, ref : Items \cup GoneItems]
    \cup [kind : {"qty"}, ref : Quantities]
    \cup [kind : {"service"}, ref : ServiceMode]
    \cup [kind : {"pay"}, ref : Methods]

\* A thread at work on a message, with the state it loaded or made of it.
Call ==
  [pc : {"route", "options", "save", "send"}, message : Message,
   state : W1RuntimeConversationState]

ASSUME ConversationAssumption ==
  /\ SectionOf \in [Items -> Sections]
  /\ Items \cap GoneItems = {}
  /\ Modes \subseteq ServiceMode
  /\ MaxQuantity \in Nat /\ MaxMessages \in Nat
  /\ None \notin Items \cup Sections \cup Methods \cup Confirmations
                 \cup Options \cup Call \cup [cart : Cart, mode : ServiceMode]

VARIABLES
  stored,    \* what the state port keeps of the customer
  issued,    \* the boundary: what each confirmation was issued for
  ordered,   \* the boundary: confirmations an order was made from
  call,      \* what each thread is doing
  handled    \* how many messages were taken up

world == <<issued, ordered>>
vars  == <<stored, issued, ordered, call, handled>>

TypeOK ==
  /\ stored \in W1RuntimeConversationState
  /\ issued \in [Confirmations -> Opt([cart : Cart, mode : ServiceMode])]
  /\ ordered \subseteq Confirmations
  /\ call \in [Threads -> Opt(Call)]
  /\ handled \in Nat
  /\ \A t \in Threads :
       call[t] # None /\ call[t].pc = "options" =>
         call[t].state.checkout.confirmation \in ordered

NoCheckout == [stage |-> "none", confirmation |-> None, order |-> None,
               options |-> None, method |-> None]

Stage(stage) == [NoCheckout EXCEPT !.stage = stage]

NoNavigation == [section |-> None, item |-> None, quantity |-> 1]

Init ==
  /\ stored = [cart |-> [i \in Items |-> 0], navigation |-> NoNavigation,
               checkout |-> NoCheckout]
  /\ issued = [c \in Confirmations |-> None]
  /\ ordered = {}
  /\ call = [t \in Threads |-> None]
  /\ handled = 0

-----------------------------------------------------------------------------
(* W1ConversationRouter.route for messages that concern the router and the   *)
(* checkout alone: what becomes of the conversation's state w.               *)
Going(w, navigation, checkout) ==
  [w EXCEPT !.navigation = navigation, !.checkout = checkout]

Root(w)        == Going(w, NoNavigation, NoCheckout)
Unsupported(w) == Going(w, NoNavigation, NoCheckout)
Failure(w)     == [w EXCEPT !.checkout = Stage("error")]

Section(w, s) ==
  IF \E i \in Items : SectionOf[i] = s
  THEN Going(w, [NoNavigation EXCEPT !.section = s], NoCheckout)
  ELSE Unsupported(w)

Item(w, i) ==
  IF i \in Items
  THEN Going(w, [section |-> SectionOf[i], item |-> i, quantity |-> 1], NoCheckout)
  ELSE Unsupported(w)

Quantity(w, q) ==
  IF w.navigation.item # None
  THEN Going(w, [w.navigation EXCEPT !.quantity = q], NoCheckout)
  ELSE Unsupported(w)

AddKeepingReview(w) ==   \* variant: a review survives a change of the cart
  IF w.navigation.item # None
  THEN [w EXCEPT !.cart[w.navigation.item] = @ + w.navigation.quantity]
  ELSE Unsupported(w)

Add(w) ==
  IF w.navigation.item # None
  THEN [w EXCEPT !.cart[w.navigation.item] = @ + w.navigation.quantity,
                 !.checkout = NoCheckout]
  ELSE Unsupported(w)

Back(w) ==
  IF w.navigation.item # None /\ w.navigation.section # None
  THEN Section(w, w.navigation.section)
  ELSE Root(w)

CartReview(w) ==
  IF \E i \in Items : w.cart[i] > 0
  THEN [w EXCEPT !.checkout = Stage("cart_review")]
  ELSE Failure(w)

ChooseMode(w) ==
  IF Modes # {} THEN [w EXCEPT !.checkout = Stage("service_mode")]
                ELSE Failure(w)

SelectPaymentMethod(w, method) ==
  IF w.checkout.options # None /\ method \in w.checkout.options.methods
  THEN [w EXCEPT !.checkout.stage = "method_selected",
                 !.checkout.method = method]
  ELSE Failure(w)

Local == (Plain \ {"order:confirm"}) \cup {"section", "item", "qty", "pay"}

Routed(w, m) ==
  CASE m.kind = "menu"                      -> Root(w)
    [] m.kind \in {"help", "other"}         -> w
    [] m.kind = "back"                      -> Back(w)
    [] m.kind = "section"                   -> Section(w, m.ref)
    [] m.kind = "item"                      -> Item(w, m.ref)
    [] m.kind = "qty"                       -> Quantity(w, m.ref)
    [] m.kind = "add"                       -> Add(w)
    [] m.kind \in {"cart", "order:change"}  -> CartReview(w)
    [] m.kind = "checkout"                  -> ChooseMode(w)
    [] m.kind = "pay"                       -> SelectPaymentMethod(w, m.ref)

-----------------------------------------------------------------------------
(* W1WhatsAppRuntime.handle_webhook for one message.                         *)
At(t, pc) == call[t] # None /\ call[t].pc = pc
Loaded(t) == call[t].state
Kind(t)   == call[t].message.kind

Continue(t, pc, w) == call' = [call EXCEPT ![t].pc = pc, ![t].state = w]

Load(t, m) ==
  /\ call[t] = None /\ handled < MaxMessages
  /\ call' = [call EXCEPT ![t] = [pc |-> "route", message |-> m, state |-> stored]]
  /\ handled' = handled + 1
  /\ UNCHANGED <<stored, world>>

Fits(w) == \A i \in Items : w.cart[i] <= MaxQuantity

Route(t) ==
  /\ At(t, "route") /\ Kind(t) \in Local
  /\ LET next == Routed(Loaded(t), call[t].message) IN
     Fits(next) /\ Continue(t, "save", next)
  /\ UNCHANGED <<stored, world, handled>>

\* select_service_mode: a mode the context does not allow, or a boundary that
\* answers with a domain error, leaves the error stage.
PrepareFails(t) ==
  /\ At(t, "route") /\ Kind(t) = "service"
  /\ Continue(t, "save", Failure(Loaded(t)))
  /\ UNCHANGED <<stored, world, handled>>

Prepare(t, c) ==
  /\ At(t, "route") /\ Kind(t) = "service"
  /\ call[t].message.ref \in Modes
  /\ issued[c] = None
  /\ issued' = [issued EXCEPT ![c] =
       [cart |-> Loaded(t).cart, mode |-> call[t].message.ref]]
  /\ Continue(t, "save", [Loaded(t) EXCEPT
       !.checkout = [Stage("order_review") EXCEPT !.confirmation = c]])
  /\ UNCHANGED <<stored, ordered, handled>>

\* confirm_order: the boundary submits the confirmation the state holds, now
\* or once more.  A domain error forgets it, whether or not an order was made.
Confirmable(t) ==
  /\ At(t, "route") /\ Kind(t) = "order:confirm"
  /\ Loaded(t).checkout.confirmation # None

SubmitIgnoringErrors(t) ==   \* variant: goes on although no order was made
  /\ Confirmable(t)
  /\ Continue(t, "options", Loaded(t))
  /\ UNCHANGED <<stored, world, handled>>

NotReady(t) ==
  /\ At(t, "route") /\ Kind(t) = "order:confirm"
  /\ Loaded(t).checkout.confirmation = None
  /\ Continue(t, "save", Failure(Loaded(t)))
  /\ UNCHANGED <<stored, world, handled>>

Submit(t) ==
  /\ Confirmable(t)
  /\ ordered' = ordered \cup {Loaded(t).checkout.confirmation}
  /\ \/ Continue(t, "options", Loaded(t))
     \/ Continue(t, "save", Failure(Loaded(t)))   \* the outcome is unknown
  /\ UNCHANGED <<stored, issued, handled>>

SubmitFails(t) ==
  /\ Confirmable(t)
  /\ Continue(t, "save", Failure(Loaded(t)))
  /\ UNCHANGED <<stored, world, handled>>

AnyOptions(t, options) == TRUE   \* variant: offers another order's options

OptionsMatch(t, options) == options.order = Loaded(t).checkout.confirmation

PaymentOptions(t, options) ==
  /\ At(t, "options")
  /\ Continue(t, "save",
       IF OptionsMatch(t, options)
       THEN [Loaded(t) EXCEPT
               !.checkout = [Stage("payment_options") EXCEPT
                  !.confirmation = Loaded(t).checkout.confirmation,
                  !.order = Loaded(t).checkout.confirmation,
                  !.options = options]]
       ELSE Failure(Loaded(t)))
  /\ UNCHANGED <<stored, world, handled>>

PaymentOptionsFail(t) ==
  /\ At(t, "options")
  /\ Continue(t, "save", Failure(Loaded(t)))
  /\ UNCHANGED <<stored, world, handled>>

Save(t) ==
  /\ At(t, "save")
  /\ stored' = call[t].state
  /\ call' = [call EXCEPT ![t].pc = "send"]
  /\ UNCHANGED <<world, handled>>

\* A message Meta refuses is replaced by an apology; the state stays saved.
Send(t) ==
  /\ At(t, "send")
  /\ call' = [call EXCEPT ![t] = None]
  /\ UNCHANGED <<stored, world, handled>>

\* The session's label is not one the router serves, or a port raises: the
\* customer gets the apology and nothing is saved.
Abort(t) ==
  /\ At(t, "route") \/ At(t, "options") \/ At(t, "save")
  /\ call' = [call EXCEPT ![t] = None]
  /\ UNCHANGED <<stored, world, handled>>

Step(t) ==
  \/ Route(t) \/ PrepareFails(t) \/ NotReady(t) \/ Submit(t) \/ SubmitFails(t)
  \/ PaymentOptionsFail(t) \/ Save(t) \/ Send(t) \/ Abort(t)
  \/ \E c \in Confirmations : Prepare(t, c)
  \/ \E options \in [order : Confirmations, methods : SUBSET Methods \ {{}}] :
       PaymentOptions(t, options)

Next == \E t \in Threads : Step(t) \/ \E m \in Message : Load(t, m)

Spec == Init /\ [][Next]_vars
-----------------------------------------------------------------------------
(* Properties.                                                               *)

\* The review a customer may confirm is of the cart as it is: whatever buttons
\* of whatever age are pressed, at once or in turn, no confirmation survives a
\* change of the cart (the router drops the checkout state with every message
\* that is not about the checkout).
ReviewIsOfTheCart ==
  stored.checkout.confirmation # None =>
    /\ issued[stored.checkout.confirmation] # None
    /\ issued[stored.checkout.confirmation].cart = stored.cart

\* A payment method is chosen, and options are shown, only for the order the
\* reviewed confirmation really became, among the methods XBOS permits for it.
PaymentIsForTheOrder ==
  LET k == stored.checkout IN
  /\ k.options # None =>
       /\ k.confirmation \in ordered
       /\ k.order = k.confirmation
       /\ k.options.order = k.order
  /\ k.method # None => k.options # None /\ k.method \in k.options.methods
=============================================================================
