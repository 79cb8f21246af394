------------------------------ MODULE Payments ------------------------------
(***************************************************************************)
(* Paid channels and one-time secrets: checkout, the exchange of a Stripe  *)
(* checkout session for a payment token, and the reading of a secret.      *)
(*                                                                         *)
(* A checkout is idempotent at Stripe: all checkouts of an item by a buyer *)
(* (the fingerprint of an address) get one session, for as long as Stripe  *)
(* remembers the key, which is at least a day.  Buyers pay with Checkout;  *)
(* saved cards are left out.                                               *)
(***************************************************************************)
EXTENDS Naturals, FiniteSets

CONSTANTS
    Channels,        \* paid channels
    Secrets,         \* paid secrets
    FreeSecrets,     \* secrets without a price
    Buyers,          \* fingerprints, a browser each
    MaxCheckouts,    \* (bound) checkouts that are begun
    MaxRenewals      \* (bound) renewals of the channels

ASSUME PaymentsAssumption ==
    /\ Channels \cap (Secrets \cup FreeSecrets) = {}
    /\ Secrets \cap FreeSecrets = {}
    /\ {MaxCheckouts, MaxRenewals} \subseteq Nat

Paid == Channels \cup Secrets
OneTime == Secrets \cup FreeSecrets
Items == Paid \cup FreeSecrets
Sessions == Paid \X Buyers
Tokens == 1..MaxCheckouts
NoToken == 0

VARIABLES
    live,        \* items whose key is in Redis
    renewals,    \* how often the TTL of a channel was set anew
    issued,      \* tokens generated so far
    tokens,      \* tokens[i]: the payment token set of item i
    setBy,       \* setBy[i]: the renewal whose TTL the token set has
    mapping,     \* mapping[s]: the token that session s can be exchanged for
    rows,        \* channel sessions with a FileSharePayment
    checkouts,   \* checkouts being made, and how far each has come
    offered,     \* sessions whose URL has been returned
    paid,        \* sessions paid at Stripe
    claims,      \* sessions being exchanged, past the checks
    cookies,     \* cookies[b]: payment cookies of the buyer's browser
    readers,     \* fetches of secrets, past the first look
    handed,      \* (history) how often a secret was handed out
    lapsed,      \* (history) tokens whose set a channel has outlived
    spent        \* (history) sessions whose mapping was claimed or expired

redisVars == <<live, renewals, tokens, setBy, lapsed>>
exchangeVars == <<mapping, spent>>
stripeVars == <<offered, paid>>
vars == <<redisVars, issued, exchangeVars, rows, checkouts, stripeVars, claims,
          cookies, readers, handed>>

Checkouts == [item : Paid, buyer : Buyers, token : Tokens, ttl : 0..MaxRenewals,
              at : {"storing", "calling", "mapping", "recording"}]
Readers == [item : OneTime, buyer : Buyers, token : 0..MaxCheckouts,
            at : {"validating", "fetching"}]
\* rapidly_pt holds the token of one channel, rapidly_spt that of one secret.
Cookies == [item : Paid, token : Tokens]

Init ==
    /\ live = Items
    /\ renewals = [i \in Items |-> 0]
    /\ issued = 0
    /\ tokens = [i \in Items |-> {}]
    /\ setBy = [i \in Items |-> 0]
    /\ mapping = [s \in Sessions |-> NoToken]
    /\ rows = {}
    /\ checkouts = {}
    /\ offered = {}
    /\ paid = {}
    /\ claims = {}
    /\ cookies = [b \in Buyers |-> {}]
    /\ readers = {}
    /\ handed = [i \in OneTime |-> 0]
    /\ lapsed = {}
    /\ spent = {}

----------------------------------------------------------------------------
(* create_checkout, create_secret_checkout                                 *)

\* Up to the read of the TTL.
BeginCheckout(i, b) ==
    /\ i \in live
    /\ issued < MaxCheckouts
    /\ issued' = issued + 1
    /\ checkouts' = checkouts \cup
         {[item |-> i, buyer |-> b, token |-> issued + 1, ttl |-> renewals[i],
           at |-> "storing"]}
    /\ UNCHANGED <<redisVars, exchangeVars, rows, stripeVars, claims, cookies,
                   readers, handed>>

Moves(c, at) == checkouts' = (checkouts \ {c}) \cup {[c EXCEPT !.at = at]}

Ends(c) == checkouts' = checkouts \ {c}

\* (Fault) the token is stored without the fingerprint.
Added_Unbound(c) == tokens[c.item] \cup {<<c.token, NoToken>>}

\* (Fault) one token per item instead of a set.
Added_Alone(c) == {<<c.token, c.buyer>>}

Added(c) == tokens[c.item] \cup {<<c.token, c.buyer>>}

\* Also for an item that is gone since.
StoreToken(c) ==
    /\ c.at = "storing"
    /\ tokens' = [tokens EXCEPT ![c.item] = Added(c)]
    /\ setBy' = [setBy EXCEPT ![c.item] = c.ttl]
    /\ Moves(c, "calling")
    /\ UNCHANGED <<live, renewals, lapsed, issued, exchangeVars, rows, stripeVars,
                   claims, cookies, readers, handed>>

CallStripe(c) ==
    /\ c.at = "calling"
    /\ Moves(c, "mapping")
    /\ UNCHANGED <<redisVars, issued, exchangeVars, rows, stripeVars, claims,
                   cookies, readers, handed>>

Session(c) == <<c.item, c.buyer>>

StoreMapping(c) ==
    /\ c.at = "mapping"
    /\ mapping' = [mapping EXCEPT ![Session(c)] = c.token]
    /\ spent' = spent \ {Session(c)}
    /\ IF c.item \in Channels
       THEN Moves(c, "recording") /\ UNCHANGED offered
       ELSE Ends(c) /\ offered' = offered \cup {Session(c)}
    /\ UNCHANGED <<redisVars, issued, rows, paid, claims, cookies, readers,
                   handed>>

\* The index on the checkout session is unique: a second insert is refused.
RecordPayment(c) ==
    /\ c.at = "recording"
    /\ Session(c) \notin rows
    /\ rows' = rows \cup {Session(c)}
    /\ offered' = offered \cup {Session(c)}
    /\ Ends(c)
    /\ UNCHANGED <<redisVars, issued, exchangeVars, paid, claims, cookies,
                   readers, handed>>

\* (Fault) a checkout that fails takes its mapping back.
LeftByFailure_Nothing(c) == [mapping EXCEPT ![Session(c)] = NoToken]

LeftByFailure(c) == mapping

\* An exception, a refused insert among them, or a process that dies.
FailCheckout(c) ==
    /\ Ends(c)
    /\ mapping' = LeftByFailure(c)
    /\ UNCHANGED <<redisVars, issued, spent, rows, stripeVars, claims,
                   cookies, readers, handed>>

Pay(s) ==
    /\ s \in offered \ paid
    /\ paid' = paid \cup {s}
    /\ UNCHANGED <<redisVars, issued, exchangeVars, rows, checkouts, offered,
                   claims, cookies, readers, handed>>

----------------------------------------------------------------------------
(* claim_checkout_payment_token, claim_secret_checkout_payment_token       *)

\* Stripe is asked about the sessions of channels; a claim goes on when Stripe
\* cannot answer, and one of a secret is made without asking.
BeginClaim(s) ==
    /\ s \in offered \ claims
    /\ s[1] \in live
    /\ claims' = claims \cup {s}
    /\ UNCHANGED <<redisVars, issued, exchangeVars, rows, checkouts, stripeVars,
                   cookies, readers, handed>>

SameCookie(i, j) == i \in Channels <=> j \in Channels

Kept(s) == {k \in cookies[s[2]] : ~SameCookie(k.item, s[1])}

TakeMapping(s) ==
    /\ s \in claims
    /\ claims' = claims \ {s}
    /\ mapping' = [mapping EXCEPT ![s] = NoToken]
    /\ spent' = spent \cup {s}
    /\ UNCHANGED <<redisVars, issued, rows, checkouts, stripeVars, readers, handed>>

Claim(s) ==
    /\ TakeMapping(s)
    /\ mapping[s] # NoToken
    /\ cookies' = [cookies EXCEPT ![s[2]] =
                     Kept(s) \cup {[item |-> s[1], token |-> mapping[s]]}]

\* Nothing is left to claim, or the answer is lost.
ClaimInVain(s) == TakeMapping(s) /\ UNCHANGED cookies

----------------------------------------------------------------------------
(* fetch_secret_or_file                                                    *)

\* The first look, without consuming the secret.
BeginFetch(i, b) ==
    /\ i \in live
    /\ \/ /\ i \in FreeSecrets
          /\ readers' = readers \cup
               {[item |-> i, buyer |-> b, token |-> NoToken, at |-> "fetching"]}
       \/ \E k \in cookies[b] :
          /\ k.item \notin Channels
          /\ i \in Secrets
          /\ readers' = readers \cup
               {[item |-> i, buyer |-> b, token |-> k.token, at |-> "validating"]}
    /\ UNCHANGED <<redisVars, issued, exchangeVars, rows, checkouts, stripeVars,
                   claims, cookies, handed>>

ValidToken(r) == <<r.token, r.buyer>> \in tokens[r.item]

\* Without a valid token the answer is that payment is required.
Validate(r) ==
    /\ r.at = "validating"
    /\ readers' = (readers \ {r}) \cup
         {q \in {[r EXCEPT !.at = "fetching"]} : ValidToken(r)}
    /\ UNCHANGED <<redisVars, issued, exchangeVars, rows, checkouts, stripeVars,
                   claims, cookies, handed>>

\* (Fault) the secret is read and left to its TTL.
Consumed_Not(r) == live

Consumed(r) == live \ {r.item}

Fetch(r) ==
    /\ r.at = "fetching"
    /\ live' = Consumed(r)
    /\ handed' = IF r.item \in live THEN [handed EXCEPT ![r.item] = @ + 1]
                 ELSE handed
    /\ readers' = readers \ {r}
    /\ UNCHANGED <<renewals, tokens, setBy, lapsed, issued, exchangeVars, rows,
                   checkouts, stripeVars, claims, cookies>>

----------------------------------------------------------------------------
(* Time, and the owner of a channel                                        *)

\* The TTL of the token set is read before it is set, so the set goes with or
\* after its item; delete_channel removes it as well.
Expire(i) ==
    /\ i \in live
    /\ live' = live \ {i}
    /\ \/ tokens' = [tokens EXCEPT ![i] = {}]
       \/ UNCHANGED tokens
    /\ UNCHANGED <<renewals, setBy, lapsed, issued, exchangeVars, rows, checkouts,
                   stripeVars, claims, cookies, readers, handed>>

\* The keys of the channel, but not its payment tokens.
RenewChannel(i) ==
    /\ i \in Channels \cap live
    /\ renewals[i] < MaxRenewals
    /\ renewals' = [renewals EXCEPT ![i] = @ + 1]
    /\ UNCHANGED <<live, tokens, setBy, lapsed, issued, exchangeVars, rows,
                   checkouts, stripeVars, claims, cookies, readers, handed>>

TokensLapse(i) ==
    /\ i \in live
    /\ tokens[i] # {}
    /\ setBy[i] < renewals[i]
    /\ tokens' = [tokens EXCEPT ![i] = {}]
    /\ lapsed' = lapsed \cup {x[1] : x \in tokens[i]}
    /\ UNCHANGED <<live, renewals, setBy, issued, exchangeVars, rows, checkouts,
                   stripeVars, claims, cookies, readers, handed>>

\* After fifteen minutes.
MappingExpires(s) ==
    /\ mapping[s] # NoToken
    /\ mapping' = [mapping EXCEPT ![s] = NoToken]
    /\ spent' = spent \cup {s}
    /\ UNCHANGED <<redisVars, issued, rows, checkouts, stripeVars, claims, cookies,
                   readers, handed>>
----------------------------------------------------------------------------

Checkout ==
    \/ \E i \in Paid, b \in Buyers : BeginCheckout(i, b)
    \/ \E c \in checkouts :
         StoreToken(c) \/ CallStripe(c) \/ StoreMapping(c) \/ RecordPayment(c)
           \/ FailCheckout(c)

Exchange ==
    \E s \in Sessions :
        Pay(s) \/ BeginClaim(s) \/ Claim(s) \/ ClaimInVain(s) \/ MappingExpires(s)

Reading ==
    \/ \E i \in OneTime, b \in Buyers : BeginFetch(i, b)
    \/ \E r \in readers : Validate(r) \/ Fetch(r)

Ageing == \E i \in Items : Expire(i) \/ RenewChannel(i) \/ TokensLapse(i)

Next == Checkout \/ Exchange \/ Reading \/ Ageing

Spec == Init /\ [][Next]_vars

----------------------------------------------------------------------------
(* Properties                                                              *)

\* Every key, cookie and request in progress has its shape; a token is always
\* stored with the buyer it is for (store_payment_token).
TypeOK ==
    /\ live \subseteq Items
    /\ renewals \in [Items -> 0..MaxRenewals]
    /\ issued \in 0..MaxCheckouts
    /\ tokens \in [Items -> SUBSET (Tokens \X Buyers)]
    /\ setBy \in [Items -> 0..MaxRenewals]
    /\ mapping \in [Sessions -> 0..MaxCheckouts]
    /\ checkouts \subseteq Checkouts
    /\ {rows, offered, paid, claims, spent} \subseteq SUBSET Sessions
    /\ cookies \in [Buyers -> SUBSET Cookies]
    /\ readers \subseteq Readers
    /\ handed \in [OneTime -> Nat]
    /\ lapsed \subseteq Tokens

\* A one-time secret is handed out once, however many fetches found it there
\* and had their tokens validated before the first of them consumed it
\* (fetch_secret_or_file).
OneReader == \A i \in OneTime : handed[i] <= 1

\* A token that waits to be claimed by a buyer, or was claimed into the buyer's
\* browser, opens its item for this buyer as long as the item is there, unless a
\* renewed channel has outlived its token set: checkouts that overlap, of the
\* same buyer or of others, do not cost anyone their token.
TokensAreHonoured ==
    \A s \in Sessions : s[1] \in live =>
        \A t \in {mapping[s]} \cup {k.token : k \in {l \in cookies[s[2]] : l.item = s[1]}} :
            t \in {NoToken} \cup lapsed \/ <<t, s[2]>> \in tokens[s[1]]

\* A buyer who has got the URL of a checkout session can exchange the session,
\* until it is claimed or the mapping expires, whatever becomes of later
\* checkouts of the same session: they are refused once the row is written.
OfferedIsClaimable == \A s \in offered : mapping[s] # NoToken \/ s \in spent
=============================================================================
