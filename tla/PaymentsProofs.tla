--------------------------- MODULE PaymentsProofs ---------------------------
(***************************************************************************)
(* The safety invariants of Payments, for any items and buyers and any     *)
(* number of checkouts, readers and renewals.                              *)
(***************************************************************************)
EXTENDS Payments, TLAPS

LEMMA Constants ==
    /\ MaxCheckouts \in Nat /\ MaxRenewals \in Nat
    /\ Paid \subseteq Items /\ OneTime \subseteq Items
    /\ NoToken \notin Tokens /\ Tokens \subseteq Nat
BY PaymentsAssumption DEF PaymentsAssumption, Paid, OneTime, Items, NoToken, Tokens

----------------------------------------------------------------------------
(* Types                                                                   *)

LEMMA MovesType ==
    ASSUME checkouts \subseteq Checkouts, NEW c \in checkouts,
           NEW at \in {"storing", "calling", "mapping", "recording"}, Moves(c, at)
    PROVE  checkouts' \subseteq Checkouts
BY DEF Moves, Checkouts

LEMMA EndsType ==
    ASSUME checkouts \subseteq Checkouts, NEW c, Ends(c)
    PROVE  checkouts' \subseteq Checkouts
BY DEF Ends

LEMMA CheckoutTypes ==
    ASSUME TypeOK, NEW c \in checkouts
    PROVE  /\ c.item \in Paid /\ c.item \in Items /\ c.buyer \in Buyers
           /\ c.token \in Tokens /\ c.token \in 0..MaxCheckouts
           /\ c.ttl \in 0..MaxRenewals
           /\ Session(c) \in Sessions
<1>1. c.item \in Paid /\ c.buyer \in Buyers /\ c.token \in Tokens /\ c.ttl \in 0..MaxRenewals
  BY DEF TypeOK, Checkouts
<1>2. c.token \in 0..MaxCheckouts
  BY <1>1, Constants DEF Tokens
<1>. QED
  BY <1>1, <1>2, Constants DEF Session, Sessions

LEMMA TypeInitially == Init => TypeOK
<1>. SUFFICES ASSUME Init PROVE TypeOK
  OBVIOUS
<1>1. 0 \in 0..MaxRenewals /\ 0 \in 0..MaxCheckouts
  BY Constants
<1>. QED
  BY <1>1 DEF Init, TypeOK, NoToken

LEMMA CheckoutKeepsTypes == TypeOK /\ Checkout => TypeOK'
<1>. SUFFICES ASSUME TypeOK, Checkout PROVE TypeOK'
  OBVIOUS
<1>1. ASSUME NEW i \in Paid, NEW b \in Buyers, BeginCheckout(i, b)
      PROVE  TypeOK'
  <2>1. issued + 1 \in Tokens /\ issued' \in 0..MaxCheckouts
    BY <1>1, Constants DEF TypeOK, BeginCheckout, Tokens
  <2>2. renewals[i] \in 0..MaxRenewals
    BY Constants DEF TypeOK
  <2>3. checkouts' \subseteq Checkouts
    BY <1>1, <2>1, <2>2 DEF TypeOK, BeginCheckout, Checkouts
  <2>. QED
    BY <1>1, <2>1, <2>3 DEF TypeOK, BeginCheckout, redisVars, exchangeVars, stripeVars
<1>2. ASSUME NEW c \in checkouts, StoreToken(c) PROVE TypeOK'
  <2>1. checkouts' \subseteq Checkouts
    BY <1>2, MovesType DEF TypeOK, StoreToken
  <2>2. Added(c) \in SUBSET (Tokens \X Buyers)
    BY CheckoutTypes DEF TypeOK, Added
  <2>3. tokens' \in [Items -> SUBSET (Tokens \X Buyers)]
    BY <1>2, <2>2 DEF TypeOK, StoreToken
  <2>4. setBy' \in [Items -> 0..MaxRenewals]
    BY <1>2, CheckoutTypes DEF TypeOK, StoreToken
  <2>. QED
    BY <1>2, <2>1, <2>3, <2>4 DEF TypeOK, StoreToken, exchangeVars, stripeVars
<1>3. ASSUME NEW c \in checkouts, CallStripe(c) PROVE TypeOK'
  <2>1. checkouts' \subseteq Checkouts
    BY <1>3, MovesType DEF TypeOK, CallStripe
  <2>. QED
    BY <1>3, <2>1 DEF TypeOK, CallStripe, redisVars, exchangeVars, stripeVars
<1>4. ASSUME NEW c \in checkouts, StoreMapping(c) PROVE TypeOK'
  <2>1. checkouts' \subseteq Checkouts
    BY <1>4, MovesType, EndsType DEF TypeOK, StoreMapping
  <2>2. mapping' \in [Sessions -> 0..MaxCheckouts]
    BY <1>4, CheckoutTypes DEF TypeOK, StoreMapping
  <2>3. offered' \subseteq Sessions /\ spent' \subseteq Sessions
    BY <1>4, CheckoutTypes DEF TypeOK, StoreMapping
  <2>. QED
    BY <1>4, <2>1, <2>2, <2>3 DEF TypeOK, StoreMapping, redisVars
<1>5. ASSUME NEW c \in checkouts, RecordPayment(c) PROVE TypeOK'
  <2>1. checkouts' \subseteq Checkouts
    BY <1>5, EndsType DEF TypeOK, RecordPayment
  <2>2. offered' \subseteq Sessions
    BY <1>5, CheckoutTypes DEF TypeOK, RecordPayment
  <2>. QED
    BY <1>5, <2>1, <2>2, CheckoutTypes
       DEF TypeOK, RecordPayment, redisVars, exchangeVars, Session, Sessions
<1>6. ASSUME NEW c \in checkouts, FailCheckout(c) PROVE TypeOK'
  <2>1. checkouts' \subseteq Checkouts
    BY <1>6, EndsType DEF TypeOK, FailCheckout
  <2>. QED
    BY <1>6, <2>1 DEF TypeOK, FailCheckout, LeftByFailure, redisVars, stripeVars
<1>. QED
  BY <1>1, <1>2, <1>3, <1>4, <1>5, <1>6 DEF Checkout

LEMMA TakeMappingKeepsTypes ==
    ASSUME TypeOK, NEW s \in Sessions, TakeMapping(s),
           cookies' \in [Buyers -> SUBSET Cookies]
    PROVE  TypeOK'
<1>1. mapping' \in [Sessions -> 0..MaxCheckouts]
  BY Constants DEF TypeOK, TakeMapping, NoToken
<1>. QED
  BY <1>1 DEF TypeOK, TakeMapping, redisVars, stripeVars

LEMMA ExchangeKeepsTypes == TypeOK /\ Exchange => TypeOK'
<1>. SUFFICES ASSUME TypeOK, NEW s \in Sessions,
                     Pay(s) \/ BeginClaim(s) \/ Claim(s) \/ ClaimInVain(s)
                       \/ MappingExpires(s)
              PROVE  TypeOK'
  BY DEF Exchange
<1>0. s[1] \in Paid /\ s[2] \in Buyers
  BY DEF Sessions
<1>1. CASE Pay(s)
  BY <1>1 DEF TypeOK, Pay, redisVars, exchangeVars
<1>2. CASE BeginClaim(s)
  BY <1>2 DEF TypeOK, BeginClaim, redisVars, exchangeVars, stripeVars
<1>3. CASE Claim(s)
  <2>1. mapping[s] \in Tokens
    BY <1>3, Constants DEF TypeOK, Claim, NoToken, Tokens
  <2>2. Kept(s) \subseteq Cookies
    BY <1>0 DEF TypeOK, Kept
  <2>3. [item |-> s[1], token |-> mapping[s]] \in Cookies
    BY <1>0, <2>1 DEF Cookies
  <2>4. cookies' \in [Buyers -> SUBSET Cookies]
    BY <1>0, <1>3, <2>2, <2>3 DEF TypeOK, Claim
  <2>. QED
    BY <1>3, <2>4, TakeMappingKeepsTypes DEF Claim
<1>4. CASE ClaimInVain(s)
  BY <1>4, TakeMappingKeepsTypes DEF ClaimInVain, TypeOK
<1>5. CASE MappingExpires(s)
  <2>1. mapping' \in [Sessions -> 0..MaxCheckouts]
    BY <1>5, Constants DEF TypeOK, MappingExpires, NoToken
  <2>. QED
    BY <1>5, <2>1 DEF TypeOK, MappingExpires, redisVars, stripeVars
<1>. QED
  BY <1>1, <1>2, <1>3, <1>4, <1>5

LEMMA ReadingKeepsTypes == TypeOK /\ Reading => TypeOK'
<1>. SUFFICES ASSUME TypeOK, Reading PROVE TypeOK'
  OBVIOUS
<1>1. ASSUME NEW i \in OneTime, NEW b \in Buyers, BeginFetch(i, b)
      PROVE  TypeOK'
  <2>1. NoToken \in 0..MaxCheckouts /\ Tokens \subseteq 0..MaxCheckouts
    BY Constants DEF NoToken, Tokens
  <2>2. \A k \in cookies[b] : k.token \in 0..MaxCheckouts
    <3>1. cookies[b] \subseteq Cookies
      BY DEF TypeOK
    <3>. QED
      BY <2>1, <3>1 DEF Cookies
  <2> DEFINE Reader(t, at) == [item |-> i, buyer |-> b, token |-> t, at |-> at]
  <2>3. readers' \subseteq Readers
    <3>1. \A t \in 0..MaxCheckouts : \A at \in {"validating", "fetching"} :
             Reader(t, at) \in Readers
      BY DEF Readers
    <3>2. \/ readers' = readers \cup {Reader(NoToken, "fetching")}
          \/ \E k \in cookies[b] : readers' = readers \cup {Reader(k.token, "validating")}
      BY <1>1 DEF BeginFetch
    <3>3. readers \subseteq Readers
      BY DEF TypeOK
    <3> HIDE DEF Reader
    <3>. QED
      BY <2>1, <2>2, <3>1, <3>2, <3>3
  <2>. QED
    BY <1>1, <2>3 DEF TypeOK, BeginFetch, redisVars, exchangeVars, stripeVars
<1>2. ASSUME NEW r \in readers, Validate(r) PROVE TypeOK'
  <2>1. [r EXCEPT !.at = "fetching"] \in Readers
    BY DEF TypeOK, Readers
  <2>2. readers' \subseteq Readers
    BY <1>2, <2>1 DEF TypeOK, Validate
  <2>. QED
    BY <1>2, <2>2 DEF TypeOK, Validate, redisVars, exchangeVars, stripeVars
<1>3. ASSUME NEW r \in readers, Fetch(r) PROVE TypeOK'
  <2>1. r.item \in OneTime
    BY DEF TypeOK, Readers
  <2>2. handed' \in [OneTime -> Nat]
    BY <1>3, <2>1 DEF TypeOK, Fetch
  <2>. QED
    BY <1>3, <2>2 DEF TypeOK, Fetch, Consumed, exchangeVars, stripeVars
<1>. QED
  BY <1>1, <1>2, <1>3 DEF Reading

LEMMA AgeingKeepsTypes == TypeOK /\ Ageing => TypeOK'
<1>. SUFFICES ASSUME TypeOK, NEW i \in Items,
                     Expire(i) \/ RenewChannel(i) \/ TokensLapse(i)
              PROVE  TypeOK'
  BY DEF Ageing
<1>1. CASE Expire(i)
  BY <1>1 DEF TypeOK, Expire, exchangeVars, stripeVars
<1>2. CASE RenewChannel(i)
  <2>1. renewals' \in [Items -> 0..MaxRenewals]
    BY <1>2, Constants DEF TypeOK, RenewChannel
  <2>. QED
    BY <1>2, <2>1 DEF TypeOK, RenewChannel, exchangeVars, stripeVars
<1>3. CASE TokensLapse(i)
  <2>1. tokens[i] \in SUBSET (Tokens \X Buyers)
    BY DEF TypeOK
  <2>2. {x[1] : x \in tokens[i]} \subseteq Tokens
    BY <2>1
  <2>. QED
    BY <1>3, <2>2 DEF TypeOK, TokensLapse, exchangeVars, stripeVars
<1>. QED
  BY <1>1, <1>2, <1>3

LEMMA TypeStep == TypeOK /\ [Next]_vars => TypeOK'
<1>1. TypeOK /\ UNCHANGED vars => TypeOK'
  BY DEF TypeOK, vars, redisVars, exchangeVars, stripeVars
<1>. QED
  BY <1>1, CheckoutKeepsTypes, ExchangeKeepsTypes, ReadingKeepsTypes,
     AgeingKeepsTypes DEF Next

\* The state keeps its types, whatever buyers, readers and owners do (all
\* handlers of the module).
THEOREM TypeCorrect == Spec => []TypeOK
BY TypeInitially, TypeStep, PTL DEF Spec

----------------------------------------------------------------------------
(* One reader                                                              *)

\* A secret that is still there has not been handed out.
HandedOnce == \A i \in OneTime : handed[i] <= 1 /\ (i \in live => handed[i] = 0)

LEMMA HandedStep == TypeOK /\ HandedOnce /\ [Next]_vars => HandedOnce'
<1>. SUFFICES ASSUME TypeOK, HandedOnce, [Next]_vars PROVE HandedOnce'
  OBVIOUS
<1>1. ASSUME NEW r \in readers, Fetch(r) PROVE HandedOnce'
  <2>1. r.item \in OneTime
    BY DEF TypeOK, Readers
  <2>2. live' = live \ {r.item}
    BY <1>1 DEF Fetch, Consumed
  <2>3. \A i \in OneTime : handed'[i] =
           IF r.item \in live /\ i = r.item THEN handed[i] + 1 ELSE handed[i]
    BY <1>1, <2>1 DEF TypeOK, Fetch
  <2>. QED
    BY <2>2, <2>3 DEF TypeOK, HandedOnce
<1>2. CASE \A r \in readers : ~Fetch(r)
  <2>1. live' \subseteq live /\ UNCHANGED handed
    <3>1. CASE Checkout
      BY <3>1 DEF Checkout, BeginCheckout, StoreToken, CallStripe, StoreMapping,
                  RecordPayment, FailCheckout, redisVars
    <3>2. CASE Exchange
      BY <3>2 DEF Exchange, Pay, BeginClaim, Claim, ClaimInVain, TakeMapping,
                  MappingExpires, redisVars
    <3>3. CASE Reading
      BY <1>2, <3>3 DEF Reading, BeginFetch, Validate, redisVars
    <3>4. CASE Ageing
      BY <3>4 DEF Ageing, Expire, RenewChannel, TokensLapse
    <3>5. CASE UNCHANGED vars
      BY <3>5 DEF vars, redisVars
    <3>. QED
      BY <3>1, <3>2, <3>3, <3>4, <3>5 DEF Next
  <2>. QED
    BY <2>1 DEF HandedOnce
<1>. QED
  BY <1>1, <1>2

\* A one-time secret is handed out once: a reader who comes second finds it
\* gone, even if it was there when this reader looked (fetch_secret_or_file).
THEOREM OnceOnly == Spec => []OneReader
<1>1. Init => HandedOnce
  BY DEF Init, HandedOnce
<1>2. HandedOnce => OneReader
  BY DEF HandedOnce, OneReader
<1>. QED
  BY <1>1, <1>2, TypeInitially, TypeStep, HandedStep, PTL DEF Spec

----------------------------------------------------------------------------
(* Offers                                                                  *)

Covered(s) == mapping[s] # NoToken \/ s \in spent

\* A checkout that is recording its payment has stored its mapping.
Offers ==
    /\ \A s \in offered : Covered(s)
    /\ \A c \in checkouts : c.at = "recording" => Covered(Session(c))

LEMMA CoveredStays ==
    ASSUME TypeOK, [Next]_vars, NEW s \in Sessions, Covered(s)
    PROVE  Covered(s)'
<1>1. CASE UNCHANGED exchangeVars
  BY <1>1 DEF Covered, exchangeVars
<1>2. ASSUME NEW c \in checkouts, StoreMapping(c) PROVE Covered(s)'
  BY <1>2, CheckoutTypes, Constants DEF TypeOK, StoreMapping, Covered
<1>3. ASSUME NEW c \in checkouts, FailCheckout(c) PROVE Covered(s)'
  BY <1>3 DEF FailCheckout, LeftByFailure, Covered
<1>4. ASSUME NEW t \in Sessions, TakeMapping(t) \/ MappingExpires(t)
      PROVE  Covered(s)'
  BY <1>4 DEF TypeOK, TakeMapping, MappingExpires, Covered
<1>5. \/ UNCHANGED exchangeVars
      \/ \E c \in checkouts : StoreMapping(c) \/ FailCheckout(c)
      \/ \E t \in Sessions : TakeMapping(t) \/ MappingExpires(t)
  <2>1. CASE Checkout
    BY <2>1 DEF Checkout, BeginCheckout, StoreToken, CallStripe, RecordPayment
  <2>2. CASE Exchange
    BY <2>2 DEF Exchange, Pay, BeginClaim, Claim, ClaimInVain
  <2>3. CASE Reading
    BY <2>3 DEF Reading, BeginFetch, Validate, Fetch
  <2>4. CASE Ageing
    BY <2>4 DEF Ageing, Expire, RenewChannel, TokensLapse
  <2>5. CASE UNCHANGED vars
    BY <2>5 DEF vars
  <2>. QED
    BY <2>1, <2>2, <2>3, <2>4, <2>5 DEF Next
<1>. QED
  BY <1>1, <1>2, <1>3, <1>4, <1>5

LEMMA MovesFollow ==
    ASSUME checkouts \subseteq Checkouts, NEW c \in checkouts,
           NEW at \in {"calling", "mapping", "recording"}, Moves(c, at),
           NEW d \in checkouts'
    PROVE  \/ d \in checkouts
           \/ /\ d.item = c.item /\ d.buyer = c.buyer /\ d.token = c.token
              /\ d.at = at
BY DEF Moves, Checkouts

\* Where the checkouts of the next state come from.
LEMMA CheckoutOrigins ==
    ASSUME TypeOK, [Next]_vars, NEW d \in checkouts'
    PROVE  \/ d \in checkouts
           \/ d.at = "storing"
           \/ \E c \in checkouts :
                /\ d.item = c.item /\ d.buyer = c.buyer /\ d.token = c.token
                /\ \/ StoreToken(c) /\ d.at = "calling"
                   \/ CallStripe(c) /\ d.at = "mapping"
                   \/ StoreMapping(c) /\ d.at = "recording"
<1>0. checkouts \subseteq Checkouts
  BY DEF TypeOK
<1>1. CASE Checkout
  <2>1. ASSUME NEW i \in Paid, NEW b \in Buyers, BeginCheckout(i, b)
        PROVE  d \in checkouts \/ d.at = "storing"
    BY <2>1 DEF BeginCheckout
  <2>2. ASSUME NEW c \in checkouts, StoreToken(c)
        PROVE  \/ d \in checkouts
               \/ d.item = c.item /\ d.buyer = c.buyer /\ d.token = c.token /\ d.at = "calling"
    <3>1. Moves(c, "calling")
      BY <2>2 DEF StoreToken
    <3>. QED
      BY <1>0, <3>1, MovesFollow
  <2>3. ASSUME NEW c \in checkouts, CallStripe(c)
        PROVE  \/ d \in checkouts
               \/ d.item = c.item /\ d.buyer = c.buyer /\ d.token = c.token /\ d.at = "mapping"
    <3>1. Moves(c, "mapping")
      BY <2>3 DEF CallStripe
    <3>. QED
      BY <1>0, <3>1, MovesFollow
  <2>4. ASSUME NEW c \in checkouts, StoreMapping(c)
        PROVE  \/ d \in checkouts
               \/ d.item = c.item /\ d.buyer = c.buyer /\ d.token = c.token /\ d.at = "recording"
    <3>1. Moves(c, "recording") \/ Ends(c)
      BY <2>4 DEF StoreMapping
    <3>2. CASE Moves(c, "recording")
      BY <1>0, <3>2, MovesFollow
    <3>3. CASE Ends(c)
      BY <3>3 DEF Ends
    <3>. QED
      BY <3>1, <3>2, <3>3
  <2>5. ASSUME NEW c \in checkouts, RecordPayment(c) \/ FailCheckout(c)
        PROVE  d \in checkouts
    BY <2>5 DEF RecordPayment, FailCheckout, Ends
  <2>. QED
    BY <1>1, <2>1, <2>2, <2>3, <2>4, <2>5 DEF Checkout
<1>2. CASE UNCHANGED checkouts
  BY <1>2
<1>3. Checkout \/ UNCHANGED checkouts
  BY DEF Next, Exchange, Pay, BeginClaim, Claim, ClaimInVain, TakeMapping,
         MappingExpires, Reading, BeginFetch, Validate, Fetch,
         Ageing, Expire, RenewChannel, TokensLapse, vars
<1>. QED
  BY <1>1, <1>2, <1>3

LEMMA OffersStep == TypeOK /\ Offers /\ [Next]_vars => Offers'
<1>. SUFFICES ASSUME TypeOK, Offers, [Next]_vars PROVE Offers'
  OBVIOUS
<1>1. ASSUME NEW d \in checkouts', d.at = "recording"
      PROVE  Covered(Session(d))'
  <2>1. CASE d \in checkouts
    <3>1. Session(d) \in Sessions /\ Covered(Session(d))
      BY <1>1, <2>1, CheckoutTypes DEF Offers
    <3>. QED
      BY <3>1, CoveredStays DEF Session
  <2>2. ASSUME NEW c \in checkouts, StoreMapping(c),
               d.item = c.item, d.buyer = c.buyer
        PROVE  Covered(Session(d))'
    <3>1. Session(d) = Session(c)
      BY <2>2 DEF Session
    <3>2. mapping'[Session(c)] = c.token /\ c.token # NoToken
      BY <2>2, CheckoutTypes, Constants DEF TypeOK, StoreMapping
    <3>. QED
      BY <3>1, <3>2 DEF Covered, Session
  <2>. QED
    BY <1>1, <2>1, <2>2, CheckoutOrigins
<1>2. ASSUME NEW s \in offered' PROVE Covered(s)'
  <2>1. CASE s \in offered
    BY <2>1, CoveredStays DEF Offers, TypeOK
  <2>2. ASSUME NEW c \in checkouts, StoreMapping(c), s = Session(c)
        PROVE  Covered(s)'
    <3>1. mapping'[s] = c.token /\ c.token # NoToken
      BY <2>2, CheckoutTypes, Constants DEF TypeOK, StoreMapping
    <3>. QED
      BY <3>1 DEF Covered
  <2>3. ASSUME NEW c \in checkouts, RecordPayment(c), s = Session(c)
        PROVE  Covered(s)'
    <3>1. s \in Sessions /\ Covered(s)
      BY <2>3, CheckoutTypes DEF Offers, RecordPayment
    <3>. QED
      BY <3>1, CoveredStays
  <2>4. \/ s \in offered
        \/ \E c \in checkouts : (StoreMapping(c) \/ RecordPayment(c)) /\ s = Session(c)
    <3>1. CASE Checkout
      BY <3>1 DEF Checkout, BeginCheckout, StoreToken, CallStripe, StoreMapping,
                  RecordPayment, FailCheckout, stripeVars
    <3>2. CASE ~Checkout
      BY <3>2 DEF Next, Exchange, Pay, BeginClaim, Claim, ClaimInVain, TakeMapping,
                  MappingExpires, Reading, BeginFetch, Validate, Fetch, Ageing,
                  Expire, RenewChannel, TokensLapse, stripeVars, vars
    <3>. QED
      BY <3>1, <3>2
  <2>. QED
    BY <2>1, <2>2, <2>3, <2>4
<1>. QED
  BY <1>1, <1>2 DEF Offers

\* Whoever has got the URL of a checkout session can exchange the session until
\* it is claimed or its mapping expires: a later checkout of the same session
\* that fails takes nothing back (create_checkout, _pg_create_payment).
THEOREM ClaimableOffers == Spec => []OfferedIsClaimable
<1>1. Init => Offers
  BY DEF Init, Offers
<1>2. Offers => OfferedIsClaimable
  BY DEF Offers, Covered, OfferedIsClaimable
<1>. QED
  BY <1>1, <1>2, TypeInitially, TypeStep, OffersStep, PTL DEF Spec

----------------------------------------------------------------------------
(* Tokens                                                                  *)

\* The token opens the item for the buyer.
Opens(t, i, b) == i \in live => t \in lapsed \/ <<t, b>> \in tokens[i]

\* Every token on its way from the token set to the buyer's browser.
Honoured ==
    /\ \A c \in checkouts : c.at # "storing" => Opens(c.token, c.item, c.buyer)
    /\ \A s \in Sessions : mapping[s] # NoToken => Opens(mapping[s], s[1], s[2])
    /\ \A b \in Buyers : \A k \in cookies[b] : Opens(k.token, k.item, b)

LEMMA OpensStays ==
    ASSUME TypeOK, [Next]_vars, NEW t, NEW i \in Items, NEW b, Opens(t, i, b)
    PROVE  Opens(t, i, b)'
<1>1. ASSUME live' \subseteq live, UNCHANGED <<tokens, lapsed>>
      PROVE  Opens(t, i, b)'
  BY <1>1 DEF Opens
<1>2. ASSUME NEW c \in checkouts, StoreToken(c) PROVE Opens(t, i, b)'
  <2>1. tokens[i] \subseteq tokens'[i]
    BY <1>2 DEF TypeOK, StoreToken, Added
  <2>. QED
    BY <1>2, <2>1 DEF Opens, StoreToken
<1>3. ASSUME NEW j \in Items, Expire(j) PROVE Opens(t, i, b)'
  BY <1>3 DEF TypeOK, Expire, Opens
<1>4. ASSUME NEW j \in Items, TokensLapse(j) PROVE Opens(t, i, b)'
  <2>1. CASE i = j /\ <<t, b>> \in tokens[i]
    <3>1. <<t, b>>[1] = t
      OBVIOUS
    <3>. QED
      BY <1>4, <2>1, <3>1 DEF TokensLapse, Opens
  <2>2. CASE i # j \/ <<t, b>> \notin tokens[i]
    BY <1>4, <2>2 DEF TypeOK, TokensLapse, Opens
  <2>. QED
    BY <2>1, <2>2
<1>5. \/ live' \subseteq live /\ UNCHANGED <<tokens, lapsed>>
      \/ \E c \in checkouts : StoreToken(c)
      \/ \E j \in Items : Expire(j) \/ TokensLapse(j)
  <2>1. CASE Checkout
    BY <2>1 DEF Checkout, BeginCheckout, CallStripe, StoreMapping, RecordPayment,
                FailCheckout, redisVars
  <2>2. CASE Exchange
    BY <2>2 DEF Exchange, Pay, BeginClaim, Claim, ClaimInVain, TakeMapping,
                MappingExpires, redisVars
  <2>3. CASE Reading
    BY <2>3 DEF Reading, BeginFetch, Validate, Fetch, Consumed, redisVars
  <2>4. CASE Ageing
    BY <2>4 DEF Ageing, RenewChannel
  <2>5. CASE UNCHANGED vars
    BY <2>5 DEF vars, redisVars
  <2>. QED
    BY <2>1, <2>2, <2>3, <2>4, <2>5 DEF Next
<1>. QED
  BY <1>1, <1>2, <1>3, <1>4, <1>5

LEMMA HonouredCheckouts ==
    ASSUME TypeOK, Honoured, [Next]_vars, NEW d \in checkouts', d.at # "storing"
    PROVE  Opens(d.token, d.item, d.buyer)'
<1>1. ASSUME NEW c \in checkouts, c.at # "storing",
             d.item = c.item, d.buyer = c.buyer, d.token = c.token
      PROVE  Opens(d.token, d.item, d.buyer)'
  <2>1. c.item \in Items /\ Opens(c.token, c.item, c.buyer)
    BY <1>1, CheckoutTypes DEF Honoured
  <2>. QED
    BY <1>1, <2>1, OpensStays DEF Opens
<1>2. ASSUME NEW c \in checkouts, StoreToken(c),
             d.item = c.item, d.buyer = c.buyer, d.token = c.token
      PROVE  Opens(d.token, d.item, d.buyer)'
  <2>1. <<c.token, c.buyer>> \in tokens'[c.item]
    BY <1>2, CheckoutTypes DEF TypeOK, StoreToken, Added
  <2>. QED
    BY <1>2, <2>1 DEF Opens
<1>3. \A c \in checkouts : CallStripe(c) \/ StoreMapping(c) => c.at # "storing"
  BY DEF CallStripe, StoreMapping
<1>. QED
  BY <1>1, <1>2, <1>3, CheckoutOrigins

LEMMA HonouredMappings ==
    ASSUME TypeOK, Honoured, [Next]_vars,
           NEW s \in Sessions, mapping'[s] # NoToken
    PROVE  Opens(mapping[s], s[1], s[2])'
<1>0. s[1] \in Items
  BY Constants DEF Sessions
<1>1. CASE mapping'[s] = mapping[s]
  <2>1. Opens(mapping[s], s[1], s[2])
    BY <1>1 DEF Honoured
  <2>. QED
    BY <1>0, <1>1, <2>1, OpensStays DEF Opens
<1>2. ASSUME NEW c \in checkouts, StoreMapping(c), s = Session(c)
      PROVE  Opens(mapping[s], s[1], s[2])'
  <2>1. mapping'[s] = c.token /\ s[1] = c.item /\ s[2] = c.buyer
    BY <1>2, CheckoutTypes DEF TypeOK, StoreMapping, Session
  <2>2. Opens(c.token, c.item, c.buyer)
    BY <1>2 DEF Honoured, StoreMapping
  <2>. QED
    BY <1>0, <2>1, <2>2, OpensStays DEF Opens
<1>3. \/ mapping'[s] = mapping[s]
      \/ \E c \in checkouts : StoreMapping(c) /\ s = Session(c)
  <2>1. ASSUME NEW c \in checkouts, StoreMapping(c), s # Session(c)
        PROVE  mapping'[s] = mapping[s]
    BY <2>1 DEF TypeOK, StoreMapping
  <2>2. CASE Checkout
    BY <2>1, <2>2 DEF Checkout, BeginCheckout, StoreToken, CallStripe,
       RecordPayment, FailCheckout, LeftByFailure, exchangeVars
  <2>3. CASE Exchange
    <3>1. ASSUME NEW t \in Sessions, TakeMapping(t) \/ MappingExpires(t)
          PROVE  mapping'[s] = mapping[s]
      BY <3>1 DEF TypeOK, TakeMapping, MappingExpires
    <3>. QED
      BY <2>3, <3>1 DEF Exchange, Pay, BeginClaim, Claim, ClaimInVain, exchangeVars
  <2>4. CASE Reading
    BY <2>4 DEF Reading, BeginFetch, Validate, Fetch, exchangeVars
  <2>5. CASE Ageing
    BY <2>5 DEF Ageing, Expire, RenewChannel, TokensLapse, exchangeVars
  <2>6. CASE UNCHANGED vars
    BY <2>6 DEF vars, exchangeVars
  <2>. QED
    BY <2>2, <2>3, <2>4, <2>5, <2>6 DEF Next
<1>. QED
  BY <1>1, <1>2, <1>3

LEMMA HonouredCookies ==
    ASSUME TypeOK, Honoured, [Next]_vars,
           NEW b \in Buyers, NEW k \in cookies'[b]
    PROVE  Opens(k.token, k.item, b)'
<1>1. CASE k \in cookies[b]
  <2>1. k.item \in Items /\ Opens(k.token, k.item, b)
    <3>1. cookies[b] \subseteq Cookies
      BY DEF TypeOK
    <3>. QED
      BY <1>1, <3>1, Constants DEF Honoured, Cookies
  <2>. QED
    BY <2>1, OpensStays DEF Opens
<1>2. ASSUME NEW s \in Sessions, Claim(s), b = s[2],
             k = [item |-> s[1], token |-> mapping[s]]
      PROVE  Opens(k.token, k.item, b)'
  <2>1. s[1] \in Items /\ Opens(mapping[s], s[1], s[2])
    BY <1>2, Constants DEF Claim, Honoured, Sessions
  <2>2. k.token = mapping[s] /\ k.item = s[1]
    BY <1>2
  <2>. QED
    BY <1>2, <2>1, <2>2, OpensStays DEF Opens
<1>3. \/ k \in cookies[b]
      \/ \E s \in Sessions :
           Claim(s) /\ b = s[2] /\ k = [item |-> s[1], token |-> mapping[s]]
  <2>1. CASE Exchange
    <3>1. ASSUME NEW s \in Sessions, Claim(s), k \notin cookies[b]
          PROVE  b = s[2] /\ k = [item |-> s[1], token |-> mapping[s]]
      BY <3>1 DEF TypeOK, Claim, Kept
    <3>. QED
      BY <2>1, <3>1 DEF Exchange, Pay, BeginClaim, ClaimInVain, MappingExpires
  <2>2. CASE ~Exchange
    BY <2>2 DEF Next, Checkout, BeginCheckout, StoreToken, CallStripe, StoreMapping,
                RecordPayment, FailCheckout, Reading, BeginFetch, Validate, Fetch,
                Ageing, Expire, RenewChannel, TokensLapse, vars
  <2>. QED
    BY <2>1, <2>2
<1>. QED
  BY <1>1, <1>2, <1>3

LEMMA HonouredStep == TypeOK /\ Honoured /\ [Next]_vars => Honoured'
BY HonouredCheckouts, HonouredMappings, HonouredCookies DEF Honoured

\* Overlapping, repeated and failing checkouts cost no buyer a token: one that
\* waits to be claimed or was claimed opens its item while it is there, unless
\* a renewed channel has outlived its token set (store_payment_token).
THEOREM HonouredTokens == Spec => []TokensAreHonoured
<1>1. Init => Honoured
  BY DEF Init, Honoured
<1>2. Honoured => TokensAreHonoured
  <2>. SUFFICES ASSUME Honoured, NEW s \in Sessions, s[1] \in live,
                       NEW t \in {mapping[s]} \cup
                         {k.token : k \in {l \in cookies[s[2]] : l.item = s[1]}},
                       t # NoToken
                PROVE  t \in lapsed \/ <<t, s[2]>> \in tokens[s[1]]
    BY DEF TokensAreHonoured
  <2>1. s[2] \in Buyers
    BY DEF Sessions
  <2>2. Opens(t, s[1], s[2])
    BY <2>1 DEF Honoured
  <2>. QED
    BY <2>2 DEF Opens
<1>. QED
  BY <1>1, <1>2, TypeInitially, TypeStep, HonouredStep, PTL DEF Spec
=============================================================================
