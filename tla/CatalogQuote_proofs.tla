-------------------------- MODULE CatalogQuote_proofs --------------------------
(* CatalogQuote for any range of items and prices and any number of changes: *)
(* terms other than those displayed are confirmed only after a review of the *)
(* same version of the quote.                                                *)
EXTENDS CatalogQuote, TLAPS

-----------------------------------------------------------------------------
(* The inductive invariant.                                                  *)

\* Two reviews that showed a change of an item under one version of the quote
\* said the same of it.
ReviewsAgree ==
  \A s, u \in shown : s.version = u.version /\ s.item = u.item => s.to = u.to

\* A change was shown in a review of its version, and what was shown at the
\* present version is what XBOS has.
ShownIsQuoted ==
  \A s \in shown :
    /\ s.version \in reviewed /\ s.version <= version
    /\ s.version = version => s.to = xbos[s.item]

ChangedIn(q) == {i \in q.cart : q.lines[i] # q.displayed[i]}

\* A quote accepted at the present version is what XBOS has, and at whatever
\* version it rests on a review that said the same.
Faithful(q) ==
  /\ q.version <= version
  /\ q.version = version => \A i \in q.cart : q.lines[i] = xbos[i]
  /\ ChangedIn(q) # {} => q.version \in reviewed
  /\ \A s \in shown :
       s.version = q.version /\ s.item \in q.cart => s.to = q.lines[s.item]

QuoteInv ==
  /\ TypeOK
  /\ ReviewsAgree /\ ShownIsQuoted
  /\ quote # None => Faithful(quote)
  /\ confirmed # None => Faithful(confirmed)

-----------------------------------------------------------------------------
LEMMA InitInvariant == Init => QuoteInv
  BY DEF Init, QuoteInv, TypeOK, Catalog, Opt, InteractionCart, ReviewsAgree,
         ShownIsQuoted

\* A step that leaves XBOS and the reviews alone, with whatever quotes.
LEMMA QuietSteps ==
  ASSUME QuoteInv, UNCHANGED <<xbos, version, reviewed, shown>>,
         projection' \in Catalog, cart' \in InteractionCart,
         NEW q \in Opt(CommercialQuoteSnapshot), quote' = q, q # None => Faithful(q),
         NEW c \in Opt(CommercialQuoteSnapshot), confirmed' = c, c # None => Faithful(c)
  PROVE  QuoteInv'
<1>1. TypeOK' /\ ReviewsAgree' /\ ShownIsQuoted'
  BY DEF QuoteInv, TypeOK, ReviewsAgree, ShownIsQuoted
<1>2. quote' # None => Faithful(quote)'
  BY DEF Faithful, ChangedIn
<1>3. confirmed' # None => Faithful(confirmed)'
  BY DEF Faithful, ChangedIn
<1> QED BY <1>1, <1>2, <1>3 DEF QuoteInv

\* XBOS moves on: what was said of a version stays true of that version.
LEMMA XbosSteps ==
  ASSUME QuoteInv, NEW i \in Items, NEW item \in Opt(CatalogItemProjection),
         XbosChanges(i, item)
  PROVE  QuoteInv'
<1>1. xbos' \in Catalog /\ version' = version + 1 /\ version \in Nat
      /\ UNCHANGED <<customer, quote, confirmed>>
  BY DEF XbosChanges, QuoteInv, TypeOK, Catalog
<1>2. TypeOK' /\ ReviewsAgree'
  BY <1>1 DEF QuoteInv, TypeOK, customer, ReviewsAgree
<1>3. ShownIsQuoted'
  BY <1>1 DEF QuoteInv, TypeOK, Change, customer, ShownIsQuoted
<1>4. ASSUME NEW q \in CommercialQuoteSnapshot, Faithful(q)
      PROVE  Faithful(q)'
  BY <1>1, <1>4 DEF CommercialQuoteSnapshot, customer, Faithful, ChangedIn
<1>5. /\ quote # None => quote \in CommercialQuoteSnapshot /\ Faithful(quote)
      /\ confirmed # None => confirmed \in CommercialQuoteSnapshot /\ Faithful(confirmed)
  BY DEF QuoteInv, TypeOK, Opt
<1>6. (quote' # None => Faithful(quote)') /\ (confirmed' # None => Faithful(confirmed)')
  <2>1. ASSUME NEW q, q = quote, q # None PROVE Faithful(q)'
    BY <1>4, <1>5, <2>1
  <2>2. ASSUME NEW q, q = confirmed, q # None PROVE Faithful(q)'
    BY <1>4, <1>5, <2>2
  <2> QED BY <1>1, <2>1, <2>2 DEF Faithful, ChangedIn
<1> QED BY <1>2, <1>3, <1>6 DEF QuoteInv

\* A review shows what XBOS has, and so what a quote of this version says.
LEMMA ReviewStep ==
  ASSUME QuoteInv, ReviewForConfirmation
  PROVE  QuoteInv'
<1>1. /\ reviewed' = reviewed \cup {version}
      /\ UNCHANGED <<xbos, version, projection, cart, quote, confirmed>>
      /\ version \in Nat /\ xbos \in Catalog /\ cart \subseteq Items
  BY DEF ReviewForConfirmation, QuoteInv, TypeOK, InteractionCart
<1>2. ASSUME NEW s \in shown', s \notin shown
      PROVE  s \in Change /\ s.version = version /\ s.to = xbos[s.item]
  <2>1. PICK i \in Changes : s = [version |-> version, item |-> i, to |-> Quoted(i)]
    BY <1>2 DEF ReviewForConfirmation
  <2>2. i \in Items /\ Quoted(i) = xbos[i] /\ xbos[i] \in Opt(CatalogItemProjection)
    BY <1>1 DEF Changes, Quoted, Catalog
  <2> QED BY <1>1, <2>1, <2>2 DEF Change
<1>3. TypeOK'
  BY <1>1, <1>2 DEF QuoteInv, TypeOK
<1>4. ReviewsAgree'
  <2>1. \A s \in shown' : s.version = version => s.to = xbos[s.item]
    BY <1>2 DEF QuoteInv, ShownIsQuoted
  <2>2. \A s \in shown' : s.version # version => s \in shown
    BY <1>2
  <2>3. ASSUME NEW s \in shown', NEW u \in shown', s.version = u.version, s.item = u.item
        PROVE  s.to = u.to
    BY <2>1, <2>2, <2>3 DEF QuoteInv, ReviewsAgree
  <2> QED BY <2>3 DEF ReviewsAgree
<1>5. ShownIsQuoted'
  BY <1>1, <1>2 DEF QuoteInv, ShownIsQuoted
<1>6. ASSUME NEW q, Faithful(q)
      PROVE  Faithful(q)'
  BY <1>1, <1>2, <1>6 DEF Faithful, ChangedIn
<1>7. (quote' # None => Faithful(quote)') /\ (confirmed' # None => Faithful(confirmed)')
  <2>1. ASSUME NEW q, q = quote, q # None PROVE Faithful(q)'
    BY <1>6, <2>1 DEF QuoteInv
  <2>2. ASSUME NEW q, q = confirmed, q # None PROVE Faithful(q)'
    BY <1>6, <2>2 DEF QuoteInv
  <2> QED BY <1>1, <2>1, <2>2 DEF Faithful, ChangedIn
<1> QED BY <1>3, <1>4, <1>5, <1>7 DEF QuoteInv

\* What is accepted is the present quote, reviewed if it differs from what the
\* customer sees.
LEMMA AcceptStep ==
  ASSUME QuoteInv, NEW acknowledged \in Opt(reviewed), AcceptReview(acknowledged)
  PROVE  QuoteInv'
<1> PICK lines : lines = [i \in Items |-> Quoted(i)]
  OBVIOUS
<1> PICK q : q = [version |-> version, cart |-> cart, displayed |-> projection,
                  lines |-> lines]
  OBVIOUS
<1>1. version \in Nat /\ cart \subseteq Items /\ projection \in Catalog /\ xbos \in Catalog
      /\ reviewed \subseteq Nat
  BY DEF QuoteInv, TypeOK, InteractionCart
<1>2. \A i \in cart : lines[i] = xbos[i] /\ lines[i] \in Line
  <2>1. ASSUME NEW i \in cart PROVE xbos[i] \in Line
    <3>1. xbos[i] # None /\ xbos[i].available
      BY <1>1 DEF AcceptReview, CanContinue, Quoted
    <3> QED BY <1>1, <3>1 DEF Catalog, Opt, CatalogItemProjection, Line
  <2> QED BY <1>1, <2>1 DEF Quoted
<1>3. lines \in [Items -> Opt(Line)]
  BY <1>2 DEF Quoted, Opt
<1>4. q \in CommercialQuoteSnapshot
  BY <1>1, <1>3 DEF CommercialQuoteSnapshot, InteractionCart
<1>5. ChangedIn(q) # {} => version \in reviewed
  <2> HAVE ChangedIn(q) # {}
  <2>1. Changes # {}
    BY <1>1, <1>2 DEF ChangedIn, Changes, Quoted
  <2>2. acknowledged = version
    BY <2>1 DEF AcceptReview, Acknowledged
  <2>3. acknowledged # None
    BY <1>1, <2>2, CatalogAssumption
  <2> QED BY <2>2, <2>3 DEF Opt
<1>6. Faithful(q)
  <2>1. \A s \in shown : s.version = version => s.to = xbos[s.item]
    BY DEF QuoteInv, ShownIsQuoted
  <2> QED BY <1>1, <1>2, <1>5, <2>1 DEF Faithful
<1>7. quote' = q /\ UNCHANGED <<xbos, version, customer, confirmed>>
  BY DEF AcceptReview
<1> QED BY <1>4, <1>6, <1>7, QuietSteps DEF QuoteInv, TypeOK, Opt, customer

LEMMA InvariantStep == QuoteInv /\ [Next]_vars => QuoteInv'
<1> SUFFICES ASSUME QuoteInv, [Next]_vars PROVE QuoteInv'
  OBVIOUS
<1>1. /\ quote \in Opt(CommercialQuoteSnapshot) /\ (quote # None => Faithful(quote))
      /\ confirmed \in Opt(CommercialQuoteSnapshot)
      /\ (confirmed # None => Faithful(confirmed))
      /\ projection \in Catalog /\ cart \in InteractionCart /\ xbos \in Catalog
      /\ None \in Opt(CommercialQuoteSnapshot)
  BY DEF QuoteInv, TypeOK, Opt
<1>2. CASE Browse
  BY <1>1, <1>2, QuietSteps DEF Browse, InteractionCart
<1>3. ASSUME NEW i \in Items, AddToCart(i) PROVE QuoteInv'
  BY <1>1, <1>3, QuietSteps DEF AddToCart, InteractionCart
<1>4. CASE PrepareOrderConfirmation
  BY <1>1, <1>4, QuietSteps DEF PrepareOrderConfirmation, customer
<1>5. CASE ServiceUnavailable
  BY <1>1, <1>5, QuietSteps DEF ServiceUnavailable, customer
<1>6. ASSUME NEW i \in Items, NEW p \in Prices, SetPrice(i, p)
      PROVE  QuoteInv'
  <2>1. [xbos[i] EXCEPT !.price = p] \in CatalogItemProjection
    BY <1>1, <1>6 DEF SetPrice, Catalog, Opt, CatalogItemProjection
  <2> QED BY <1>6, <2>1, XbosSteps DEF SetPrice, Opt
<1>7. ASSUME NEW i \in Items, NEW a \in BOOLEAN, SetAvailability(i, a)
      PROVE  QuoteInv'
  <2>1. [xbos[i] EXCEPT !.available = a] \in CatalogItemProjection
    BY <1>1, <1>7 DEF SetAvailability, Catalog, Opt, CatalogItemProjection
  <2> QED BY <1>7, <2>1, XbosSteps DEF SetAvailability, Opt
<1>8. ASSUME NEW i \in Items, Withdraw(i) PROVE QuoteInv'
  BY <1>8, XbosSteps DEF Withdraw, Opt
<1>9. CASE UNCHANGED vars
  BY <1>1, <1>9, QuietSteps DEF vars, customer
<1> QED
  BY <1>2, <1>3, <1>4, <1>5, <1>6, <1>7, <1>8, <1>9, ReviewStep, AcceptStep DEF Next

LEMMA Invariant == Spec => []QuoteInv
  BY InitInvariant, InvariantStep, PTL DEF Spec

-----------------------------------------------------------------------------
(* Theorems.                                                                 *)

\* Every reachable state is typed: in particular a quote is accepted only with
\* lines on offer, whatever XBOS changes (accept_review, can_continue).
THEOREM TypeCorrect == Spec => []TypeOK
<1>1. QuoteInv => TypeOK
  BY DEF QuoteInv
<1> QED BY <1>1, Invariant, PTL

\* A confirmation at other terms than those displayed rests on a review of the
\* same version that said the same (prepare_confirmation, accept_review).
THEOREM AcknowledgedChanges == Spec => []ChangesAreAcknowledged
<1>1. QuoteInv => ChangesAreAcknowledged
  BY DEF QuoteInv, Faithful, ChangedIn, ChangesAreAcknowledged, Changed
<1> QED BY <1>1, Invariant, PTL

\* A quote's reference, which names nothing but XBOS's version, names one set of
\* terms: whatever cart, projection and time two reviews were made of, a change
\* both showed under one reference they showed alike (review_for_confirmation).
THEOREM ReferencesNameTerms == Spec => []ReviewsAgree
<1>1. QuoteInv => ReviewsAgree
  BY DEF QuoteInv
<1> QED BY <1>1, Invariant, PTL
=============================================================================
