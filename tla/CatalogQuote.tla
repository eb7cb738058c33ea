----------------------------- MODULE CatalogQuote -----------------------------
(* CatalogQuoteService with the XBOS catalog behind it: a customer browses a *)
(* projection, fills a cart, reviews the cart against the authoritative      *)
(* quote, acknowledges what changed and has a confirmation prepared, while   *)
(* XBOS changes prices, availability and the range.  Cart lines carry no     *)
(* amounts, so a cart is its set of items.  One customer, one location.      *)
EXTENDS Naturals, FiniteSets

CONSTANTS
  None,
  Items,
  Prices,
  MaxVersion     \* bound on the changes XBOS makes

Opt(S) == S \cup {None}

CatalogItemProjection == [price : Prices, available : BOOLEAN]

\* None is an item XBOS does not have.
Catalog == [Items -> Opt(CatalogItemProjection)]

InteractionCart == SUBSET Items

ASSUME CatalogAssumption ==
  /\ Prices # {} /\ MaxVersion \in Nat
  /\ None \notin CatalogItemProjection \cup Nat

VARIABLES
  xbos,       \* the XBOS catalog
  version,    \* how often it changed, which names every quote
  projection, \* what the customer's catalog session displays
  cart,
  reviewed,   \* versions of the quotes the customer was shown a review of
  shown,      \* the changes she was shown, each under its quote's version
  quote,      \* the quote accepted for a confirmation being prepared
  confirmed   \* the latest confirmation prepared, if any

customer == <<projection, cart, reviewed, shown>>
vars == <<xbos, version, customer, quote, confirmed>>

Change == [version : Nat, item : Items, to : Opt(CatalogItemProjection)]

\* Only lines on offer are ever quoted for a confirmation; "displayed" is what
\* the customer's projection said of them.
Line == [price : Prices, available : {TRUE}]

CommercialQuoteSnapshot ==
  [version : Nat, cart : InteractionCart, displayed : Catalog,
   lines : [Items -> Opt(Line)]]

TypeOK ==
  /\ xbos \in Catalog /\ projection \in Catalog
  /\ version \in Nat /\ cart \in InteractionCart
  /\ reviewed \subseteq Nat /\ shown \subseteq Change
  /\ quote \in Opt(CommercialQuoteSnapshot)
  /\ confirmed \in Opt(CommercialQuoteSnapshot)

Init ==
  /\ xbos \in [Items -> CatalogItemProjection]
  /\ version = 1
  /\ projection = xbos /\ cart = {}
  /\ reviewed = {} /\ shown = {}
  /\ quote = None /\ confirmed = None

-----------------------------------------------------------------------------
(* resolve_quote: the lines of the cart that XBOS still has, at what they    *)
(* cost now.                                                                 *)
Quoted(i) == IF i \in cart THEN xbos[i] ELSE None

\* changes: a line of the cart that XBOS misses, or has at another price or
\* availability than the customer's projection.
Changes == {i \in cart : Quoted(i) # projection[i]}

ContinuesUnavailable ==   \* variant: an unavailable line does not stop the review
  \A i \in cart : Quoted(i) # None

CanContinue == \A i \in cart : Quoted(i) # None /\ Quoted(i).available

\* accept_review.  The latest quote is acknowledged by its reference alone.
AcknowledgedAny(acknowledged) ==   \* variant: any earlier quote will do
  Changes # {} => acknowledged # None

Acknowledged(acknowledged) == Changes # {} => acknowledged = version

-----------------------------------------------------------------------------
Browse ==
  /\ projection' = xbos
  /\ cart' = {}
  /\ UNCHANGED <<xbos, version, reviewed, shown, quote, confirmed>>

\* The projection decides what can be added, available or not.
AddToCart(i) ==
  /\ projection[i] # None
  /\ cart' = cart \cup {i}
  /\ UNCHANGED <<xbos, version, projection, reviewed, shown, quote, confirmed>>

ReviewForConfirmation ==
  /\ reviewed' = reviewed \cup {version}
  /\ shown' = shown \cup
       {[version |-> version, item |-> i, to |-> Quoted(i)] : i \in Changes}
  /\ UNCHANGED <<xbos, version, projection, cart, quote, confirmed>>

\* prepare_confirmation reviews the cart once more, an empty one too, and
\* accepts that review on the strength of a reference.  It takes any text for
\* one; a customer is assumed to have only references she was shown.
AcceptReview(acknowledged) ==
  /\ quote = None
  /\ CanContinue
  /\ Acknowledged(acknowledged)
  /\ quote' = [version |-> version, cart |-> cart, displayed |-> projection,
               lines |-> [i \in Items |-> Quoted(i)]]
  /\ UNCHANGED <<xbos, version, customer, confirmed>>

\* XBOS resolves the service context and prepares the confirmation from the
\* accepted quote, whatever the catalog has become meanwhile.
PrepareOrderConfirmation ==
  /\ quote # None
  /\ confirmed' = quote
  /\ quote' = None
  /\ UNCHANGED <<xbos, version, customer>>

\* The service mode is refused, or the quote expired before XBOS prepared it.
ServiceUnavailable ==
  /\ quote # None
  /\ quote' = None
  /\ UNCHANGED <<xbos, version, customer, confirmed>>

\* XBOS: setting an item, if only to what it was, makes another version of
\* every quote.
XbosChanges(i, item) ==
  /\ version < MaxVersion
  /\ xbos' = [xbos EXCEPT ![i] = item]
  /\ version' = version + 1
  /\ UNCHANGED <<customer, quote, confirmed>>

SetPrice(i, p) ==
  /\ xbos[i] # None
  /\ XbosChanges(i, [xbos[i] EXCEPT !.price = p])

SetAvailability(i, a) ==
  /\ xbos[i] # None
  /\ XbosChanges(i, [xbos[i] EXCEPT !.available = a])

Withdraw(i) == XbosChanges(i, None)

Next ==
  \/ Browse \/ ReviewForConfirmation
  \/ PrepareOrderConfirmation \/ ServiceUnavailable
  \/ \E acknowledged \in Opt(reviewed) : AcceptReview(acknowledged)
  \/ \E i \in Items :
       \/ AddToCart(i) \/ Withdraw(i)
       \/ \E p \in Prices : SetPrice(i, p)
       \/ \E a \in BOOLEAN : SetAvailability(i, a)

Spec == Init /\ [][Next]_vars
-----------------------------------------------------------------------------
(* Properties.                                                               *)
Changed == {i \in confirmed.cart : confirmed.lines[i] # confirmed.displayed[i]}

\* A confirmation at other terms than the customer's projection displays rests
\* on a review of that very version of the quote, and says of a line what that
\* review said, however often XBOS changed before and after.
ChangesAreAcknowledged ==
  confirmed # None /\ Changed # {} =>
    /\ confirmed.version \in reviewed
    /\ \A s \in shown : s.version = confirmed.version /\ s.item \in Changed =>
                          s.to = confirmed.lines[s.item]
=============================================================================
