-------------------------------- MODULE Api --------------------------------
(* The HTTP interface of the mint: the v1 endpoints with their response      *)
(* cache in Redis, the deprecated endpoints without one, and the wallet's    *)
(* client.  An answer may be lost and its request repeated, on the same      *)
(* connection or on another; the mint may die anywhere, Redis stays.         *)
(*                                                                           *)
(* What the ledger does for a request is one step here: Swap shows that the  *)
(* transactions of a swap amount to one step of an abstract mint, MintQuote  *)
(* and Melt have the steps of the other two.  All melt quotes are for one    *)
(* invoice, for that is where they meet.                                     *)
EXTENDS Integers, FiniteSets, Sequences, SequencesExt

CONSTANTS Connections,     \* of clients to the mint
          ApiNotes,        \* inputs, each worth the outputs of its request
          MintQuotes, MeltQuotes,
          ApiRequests,     \* sets of requests: what clients want in one behaviour,
                           \* as records of path, uses, quote, outs and amount
          OutputAmount,    \* Outputs -> their amounts
          CacheEnabled,    \* mint_redis_cache_enabled
          IdPerQuote,      \* the backend is Strike: each melt quote has a checking_id
                           \* of its own, before its payment and after it, where the
                           \* others take the invoice's
          ApiCrashMax,     \* bound: how often the mint dies
          Nobody           \* no quote, no request, no keyset

(* A request names a note or a quote there is: any other is refused.  /melt   *)
(* has a quote only once it has made it.                                      *)
IsRequest(r) ==
    /\ r = [path |-> r.path, uses |-> r.uses, quote |-> r.quote, outs |-> r.outs, amount |-> r.amount]
    /\ r.outs \in Seq(DOMAIN OutputAmount)
    /\ r.path \in {"/v1/mint/bolt11", "/mint"} => r.quote \in MintQuotes
    /\ r.path = "/v1/melt/bolt11" => r.quote \in MeltQuotes
    /\ r.path = "/melt" => r.quote = Nobody
    /\ r.path \in {"/v1/swap", "/split", "/v1/melt/bolt11", "/melt"} => r.uses \in ApiNotes

ASSUME ApiAssumption ==
    /\ \A r \in UNION ApiRequests : IsRequest(r)
    /\ Nobody \notin MeltQuotes \cup {0, 1}
    /\ CacheEnabled \in BOOLEAN /\ IdPerQuote \in BOOLEAN /\ ApiCrashMax \in Nat

WorthFrom(outs, i) == FoldSeq(LAMBDA b, sum : sum + OutputAmount[b], 0, SubSeq(outs, i, Len(outs)))

VARIABLES
    noteState,    \* ApiNotes -> "UNSPENT", "PENDING", "SPENT"
    heldFor,      \* ApiNotes -> the melt quote of the pending row
    signedBy,     \* outputs -> the keyset of the promise, Nobody if there is none
    mintQuote,    \* MintQuotes -> "NONE", "UNPAID", "PAID", "ISSUED"
    meltQuote,    \* MeltQuotes -> "NONE", "UNPAID", "PENDING", "PAID"
    blanks,       \* MeltQuotes -> the outputs stored for the change, and their keyset
    activeKeyset, \* 0, and 1 after a rotation
    sigKeyset,    \* ledger.keyset
    redis,        \* the stored responses: pairs of a key and a response
    wanted,        \* the requests of this behaviour
    serving,      \* the request under way on each connection
    apiCrashes

ledgerVars == <<noteState, heldFor, signedBy, mintQuote, meltQuote, blanks>>
apiVars == <<ledgerVars, activeKeyset, sigKeyset, wanted, redis, serving, apiCrashes>>

Free == [step |-> "idle", request |-> Nobody, response |-> Nobody]
Error == [ok |-> FALSE, promises |-> <<>>, more |-> <<>>, state |-> ""]
Response(promises, state) == [ok |-> TRUE, promises |-> promises, more |-> <<>>, state |-> state]
TwoLists(first, second) == [ok |-> TRUE, promises |-> second, more |-> first, state |-> ""]
NoBlanks == [outs |-> <<>>, keyset |-> Nobody]

ApiInit ==
    /\ noteState = [n \in ApiNotes |-> "UNSPENT"] /\ heldFor = [n \in ApiNotes |-> Nobody]
    /\ signedBy = [b \in DOMAIN OutputAmount |-> Nobody]
    /\ mintQuote = [q \in MintQuotes |-> "NONE"] /\ meltQuote = [q \in MeltQuotes |-> "NONE"]
    /\ blanks = [q \in MeltQuotes |-> NoBlanks]
    /\ activeKeyset = 0 /\ sigKeyset = 0
    /\ wanted \in ApiRequests
    /\ redis = {}
    /\ serving = [w \in Connections |-> Free]
    /\ apiCrashes = 0

(* --------------------- what the ledger does for a request ---------------- *)

Fresh(outs, ks) == ks = activeKeyset /\ \A b \in Range(outs) : signedBy[b] = Nobody
Signed(outs, ks) == [b \in DOMAIN signedBy |-> IF b \in Range(outs) THEN ks ELSE signedBy[b]]

(* Ledger.mint, as the claim of the quote and its release leave it.          *)
LedgerMint(r, ks) ==
    /\ mintQuote[r.quote] = "PAID" /\ Fresh(r.outs, ks)
    /\ mintQuote' = [mintQuote EXCEPT ![r.quote] = "ISSUED"]
    /\ signedBy' = Signed(r.outs, ks)
    /\ UNCHANGED <<noteState, heldFor, meltQuote, blanks>>

LedgerMintRaises(r, ks) ==
    /\ ~(mintQuote[r.quote] = "PAID" /\ Fresh(r.outs, ks))
    /\ UNCHANGED ledgerVars

LedgerSwap(r, ks) ==
    /\ noteState[r.uses] = "UNSPENT" /\ Fresh(r.outs, ks)
    /\ noteState' = [noteState EXCEPT ![r.uses] = "SPENT"]
    /\ signedBy' = Signed(r.outs, ks)
    /\ UNCHANGED <<heldFor, mintQuote, meltQuote, blanks>>

LedgerSwapRaises(r, ks) ==
    /\ ~(noteState[r.uses] = "UNSPENT" /\ Fresh(r.outs, ks))
    /\ UNCHANGED ledgerVars

(* Mutant of QuoteMayPay: only the quote itself is looked at.                *)
QuoteMayPayItself(q) == meltQuote[q] = "UNPAID"

(* the quotes with the checking_id of q *)
SameCheckingId(q) == IF IdPerQuote THEN {q} ELSE MeltQuotes

(* _set_melt_quote_pending: no quote of this checking_id is pending or paid. *)
NoneIsPaid(quotes) == \A other \in quotes : meltQuote[other] \notin {"PENDING", "PAID"}
QuoteMayPay(q) == NoneIsPaid(SameCheckingId(q))

(* _store_melt_quote, with the same test.                                    *)
StoreMeltQuote(q) ==
    /\ meltQuote[q] = "NONE" /\ NoneIsPaid(SameCheckingId(q))
    /\ meltQuote' = [meltQuote EXCEPT ![q] = "UNPAID"]
    /\ UNCHANGED <<noteState, heldFor, signedBy, mintQuote, blanks>>

MeltQuoteRaises ==
    /\ ~IdPerQuote /\ ~NoneIsPaid(MeltQuotes)
    /\ UNCHANGED ledgerVars

MeltAccepts(r, ks) ==
    meltQuote[r.quote] = "UNPAID" /\ noteState[r.uses] = "UNSPENT" /\ Fresh(r.outs, ks)

(* The invoice is paid at once; the change is signed as far as there is any. *)
LedgerMeltPays(r, ks, change) ==
    /\ MeltAccepts(r, ks) /\ QuoteMayPay(r.quote)
    /\ noteState' = [noteState EXCEPT ![r.uses] = "SPENT"]
    /\ meltQuote' = [meltQuote EXCEPT ![r.quote] = "PAID"]
    /\ signedBy' = Signed(change, ks)
    /\ UNCHANGED <<heldFor, mintQuote, blanks>>

LedgerMeltPending(r, ks) ==
    /\ MeltAccepts(r, ks) /\ QuoteMayPay(r.quote)
    /\ noteState' = [noteState EXCEPT ![r.uses] = "PENDING"]
    /\ heldFor' = [heldFor EXCEPT ![r.uses] = r.quote]
    /\ meltQuote' = [meltQuote EXCEPT ![r.quote] = "PENDING"]
    /\ blanks' = [blanks EXCEPT ![r.quote] = [outs |-> r.outs, keyset |-> ks]]
    /\ UNCHANGED <<signedBy, mintQuote>>

(* melt raises: before it has touched anything, or after a failed payment    *)
(* was rolled back; or between the pending rows and the state of the quote,  *)
(* when another quote of the invoice is pending or paid, and then the rows   *)
(* stay.                                                                     *)
LedgerMeltRaises(r, ks) ==
    \/ /\ ~MeltAccepts(r, ks) \/ QuoteMayPay(r.quote)
       /\ UNCHANGED ledgerVars
    \/ /\ MeltAccepts(r, ks) /\ ~QuoteMayPay(r.quote)
       /\ noteState' = [noteState EXCEPT ![r.uses] = "PENDING"]
       /\ heldFor' = [heldFor EXCEPT ![r.uses] = r.quote]
       /\ UNCHANGED <<signedBy, mintQuote, meltQuote, blanks>>

(* get_melt_quote of a pending quote: every note held for it goes with it.   *)
Held(q) == {n \in ApiNotes : heldFor[n] = q}
LedgerSettles(q, change) ==
    /\ meltQuote[q] = "PENDING" /\ (change = <<>> \/ blanks[q].keyset = activeKeyset)
    /\ noteState' = [n \in ApiNotes |-> IF n \in Held(q) THEN "SPENT" ELSE noteState[n]]
    /\ heldFor' = [n \in ApiNotes |-> IF n \in Held(q) THEN Nobody ELSE heldFor[n]]
    /\ meltQuote' = [meltQuote EXCEPT ![q] = "PAID"]
    /\ signedBy' = Signed(change, activeKeyset)
    /\ blanks' = [blanks EXCEPT ![q] = NoBlanks]
    /\ UNCHANGED mintQuote
LedgerRollsBack(q) ==
    /\ meltQuote[q] = "PENDING"
    /\ noteState' = [n \in ApiNotes |-> IF n \in Held(q) THEN "UNSPENT" ELSE noteState[n]]
    /\ heldFor' = [n \in ApiNotes |-> IF n \in Held(q) THEN Nobody ELSE heldFor[n]]
    /\ meltQuote' = [meltQuote EXCEPT ![q] = "UNPAID"]
    /\ blanks' = [blanks EXCEPT ![q] = NoBlanks]
    /\ UNCHANGED <<signedBy, mintQuote>>

(* ----------------------- the requests of a v1 client --------------------- *)

Serves(w, step, r, response) ==
    serving' = [serving EXCEPT ![w] = [step |-> step, request |-> r, response |-> response]]
Steps(w, step) == Serves(w, step, serving[w].request, serving[w].response)
Answer(w, response) == Serves(w, "answered", serving[w].request, response)
Refuses(w) == Answer(w, Error)

(* LedgerAPI.mint, split and melt: the request leaves; without a cache it    *)
(* goes straight to the endpoint.                                            *)
Post(w, r, step) ==
    /\ serving[w] = Free
    /\ Serves(w, step, r, Nobody)
    /\ UNCHANGED <<ledgerVars, activeKeyset, sigKeyset, wanted, redis, apiCrashes>>
PostCached(w, path) ==
    \E r \in wanted :
       r.path = path /\ Post(w, r, IF CacheEnabled THEN "arrived" ELSE "performing")
PostMint(w) == PostCached(w, "/v1/mint/bolt11")
PostMelt(w) == PostCached(w, "/v1/melt/bolt11")
PostSplit(w) == PostCached(w, "/v1/swap")

(* Mutant of Key: the payload is left out.                                   *)
KeyWithoutPayload(r) == r.path
(* key = request.url.path + payload.model_dump_json()                        *)
Key(r) == r
StoredFor(w) == {entry \in redis : entry[1] = Key(serving[w].request)}

(* The wrapper of RedisCache.cache asks whether the key exists, ...          *)
FindCached(w) ==
    /\ serving[w].step = "arrived"
    /\ Steps(w, IF StoredFor(w) # {} THEN "cached" ELSE "performing")
    /\ UNCHANGED <<ledgerVars, activeKeyset, sigKeyset, wanted, redis, apiCrashes>>
(* ... reads it, and raises if it has expired meanwhile, ...                 *)
GetCached(w) ==
    /\ serving[w].step = "cached"
    /\ \/ \E entry \in StoredFor(w) : Answer(w, entry[2])
       \/ StoredFor(w) = {} /\ Refuses(w)
    /\ UNCHANGED <<ledgerVars, activeKeyset, sigKeyset, wanted, redis, apiCrashes>>
(* ... and stores what the endpoint has returned, which no exception is.     *)
SetCached(w) ==
    /\ serving[w].step = "storing"
    /\ redis' = (redis \ StoredFor(w)) \cup {<<Key(serving[w].request), serving[w].response>>}
    /\ Steps(w, "answered")
    /\ UNCHANGED <<ledgerVars, activeKeyset, sigKeyset, wanted, apiCrashes>>
CacheExpires(entry) ==
    /\ redis' = redis \ {entry}
    /\ UNCHANGED <<ledgerVars, activeKeyset, sigKeyset, wanted, serving, apiCrashes>>

Returns(w, response) ==
    Serves(w, IF CacheEnabled THEN "storing" ELSE "answered", serving[w].request, response)

Performing(w, path) == serving[w].step = "performing" /\ serving[w].request.path = path

MintRoute(w) ==
    /\ Performing(w, "/v1/mint/bolt11")
    /\ LET r == serving[w].request IN
         \/ LedgerMint(r, 0) /\ Returns(w, Response(r.outs, ""))
         \/ LedgerMintRaises(r, 0) /\ Refuses(w)
    /\ UNCHANGED <<activeKeyset, sigKeyset, wanted, redis, apiCrashes>>

SwapRoute(w) ==
    /\ Performing(w, "/v1/swap")
    /\ LET r == serving[w].request IN
         \/ LedgerSwap(r, 0) /\ Returns(w, Response(r.outs, ""))
         \/ LedgerSwapRaises(r, 0) /\ Refuses(w)
    /\ UNCHANGED <<activeKeyset, sigKeyset, wanted, redis, apiCrashes>>

(* What ledger.melt returns is told as it is, PENDING included, and stored.  *)
MeltRoute(w) ==
    /\ Performing(w, "/v1/melt/bolt11")
    /\ LET r == serving[w].request IN
         \/ \E change \in {<<>>, r.outs} :
               LedgerMeltPays(r, 0, change) /\ Returns(w, Response(change, "PAID"))
         \/ LedgerMeltPending(r, 0) /\ Returns(w, Response(<<>>, "PENDING"))
         \/ LedgerMeltRaises(r, 0) /\ Refuses(w)
    /\ UNCHANGED <<activeKeyset, sigKeyset, wanted, redis, apiCrashes>>

(* The response arrives, or the connection is gone by then; the mint does    *)
(* not know which.                                                           *)
Receive(w) ==
    /\ serving[w].step = "answered"
    /\ serving' = [serving EXCEPT ![w] = Free]
    /\ UNCHANGED <<ledgerVars, activeKeyset, sigKeyset, wanted, redis, apiCrashes>>

\* a request about quotes: its answer repeats the row, and is left out
AboutQuotes == UNCHANGED <<activeKeyset, sigKeyset, wanted, redis, serving, apiCrashes>>

CreateMintQuote(q) ==
    /\ mintQuote[q] = "NONE" /\ mintQuote' = [mintQuote EXCEPT ![q] = "UNPAID"]
    /\ UNCHANGED <<noteState, heldFor, signedBy, meltQuote, blanks>> /\ AboutQuotes
\* the invoice is paid, and the row says so when somebody asks
GetMintQuote(q) ==
    /\ mintQuote[q] = "UNPAID" /\ mintQuote' = [mintQuote EXCEPT ![q] = "PAID"]
    /\ UNCHANGED <<noteState, heldFor, signedBy, meltQuote, blanks>> /\ AboutQuotes
CreateMeltQuote(q) == (StoreMeltQuote(q) \/ MeltQuoteRaises) /\ AboutQuotes
GetMeltQuote(q) ==
    /\ \/ \E change \in {<<>>, blanks[q].outs} : LedgerSettles(q, change)
       \/ LedgerRollsBack(q)
    /\ AboutQuotes

\* the requests that change nothing
CheckState(n) == noteState[n]
Restored(outs) == {b \in Range(outs) : signedBy[b] # Nobody}

(* ------------------------ the deprecated endpoints ----------------------- *)

OldPost(w, path) == \E r \in wanted : r.path = path /\ Post(w, r, "performing")

(* The outputs get the id of ledger.keyset.                                  *)
MintDeprecated(w) ==
    /\ Performing(w, "/mint")
    /\ LET r == serving[w].request IN
         \/ LedgerMint(r, sigKeyset) /\ Answer(w, Response(r.outs, ""))
         \/ LedgerMintRaises(r, sigKeyset) /\ Refuses(w)
    /\ UNCHANGED <<activeKeyset, sigKeyset, wanted, redis, apiCrashes>>

(* For clients before 0.13: from the back, as long as those behind are worth *)
(* less than the amount.                                                     *)
SecondList(outs, amount) ==
    LET second == {i \in 1 .. Len(outs) : WorthFrom(outs, i + 1) < amount}
    IN  SubSeq(outs, Len(outs) - Cardinality(second) + 1, Len(outs))
FirstList(outs, second) == SubSeq(outs, 1, Len(outs) - Len(second))

SplitDeprecated(w) ==
    /\ Performing(w, "/split")
    /\ LET r      == serving[w].request
           second == IF r.amount = 0 THEN r.outs ELSE SecondList(r.outs, r.amount)
       IN
         \/ /\ LedgerSwap(r, sigKeyset)
            /\ Answer(w, TwoLists(FirstList(r.outs, second), second))
         \/ LedgerSwapRaises(r, sigKeyset) /\ Refuses(w)
    /\ UNCHANGED <<activeKeyset, sigKeyset, wanted, redis, apiCrashes>>

\* the quotes whose ids no v1 client was given
OwnQuotes == {q \in MeltQuotes : \A r \in wanted : r.quote # q}
(* Each call of /melt makes a quote of its own, ...                          *)
QuoteOfMeltDeprecated(w) ==
    /\ Performing(w, "/melt") /\ serving[w].request.quote = Nobody
    /\ \/ \E q \in OwnQuotes :
             StoreMeltQuote(q) /\ Serves(w, "performing", [serving[w].request EXCEPT !.quote = q], Nobody)
       \/ MeltQuoteRaises /\ Refuses(w)
    /\ UNCHANGED <<activeKeyset, sigKeyset, wanted, redis, apiCrashes>>
(* ... and answers paid=True unless ledger.melt raises.                      *)
MeltDeprecated(w) ==
    /\ Performing(w, "/melt") /\ serving[w].request.quote # Nobody
    /\ LET r == serving[w].request IN
         \/ \E change \in {<<>>, r.outs} :
               LedgerMeltPays(r, sigKeyset, change) /\ Answer(w, Response(change, "PAID"))
         \/ LedgerMeltPending(r, sigKeyset) /\ Answer(w, Response(<<>>, "PAID"))
         \/ LedgerMeltRaises(r, sigKeyset) /\ Refuses(w)
    /\ UNCHANGED <<activeKeyset, sigKeyset, wanted, redis, apiCrashes>>

(* /checkfees asks for a quote, of which only the reserve is returned.       *)
CheckFees == \E q \in OwnQuotes : CreateMeltQuote(q)

RequestMintDeprecated(q) == CreateMintQuote(q)

\* /check: the lists "spendable" and "pending", of one proof
CheckSpendableDeprecated(n) == <<noteState[n] # "SPENT", noteState[n] = "PENDING">>

(* ------------------------------ everything else -------------------------- *)

(* A rotation leaves ledger.keyset as it is, ...                             *)
RotateActiveKeyset ==
    /\ activeKeyset = 0 /\ activeKeyset' = 1
    /\ UNCHANGED <<ledgerVars, sigKeyset, wanted, redis, serving, apiCrashes>>

(* ... until the next start.  What the mint was doing for a connection ends; *)
(* what is in Redis stays.                                                   *)
ApiDies ==
    /\ apiCrashes < ApiCrashMax /\ apiCrashes' = apiCrashes + 1
    /\ serving' = [w \in Connections |-> Free]
    /\ sigKeyset' = activeKeyset
    /\ UNCHANGED <<ledgerVars, activeKeyset, wanted, redis>>

V1(w) ==
    \/ PostMint(w) \/ PostMelt(w) \/ PostSplit(w)
    \/ FindCached(w) \/ GetCached(w) \/ SetCached(w)
    \/ MintRoute(w) \/ SwapRoute(w) \/ MeltRoute(w)
Deprecated(w) ==
    \/ \E path \in {"/mint", "/melt", "/split"} : OldPost(w, path)
    \/ MintDeprecated(w) \/ SplitDeprecated(w) \/ QuoteOfMeltDeprecated(w) \/ MeltDeprecated(w)
ApiNext ==
    \/ \E w \in Connections : V1(w) \/ Deprecated(w) \/ Receive(w)
    \/ \E q \in MintQuotes : CreateMintQuote(q) \/ RequestMintDeprecated(q) \/ GetMintQuote(q)
    \/ \E q \in MeltQuotes : CreateMeltQuote(q) \/ GetMeltQuote(q)
    \/ CheckFees
    \/ \E entry \in redis : CacheExpires(entry)
    \/ RotateActiveKeyset \/ ApiDies

ApiSpec == ApiInit /\ [][ApiNext]_apiVars

(* ------------------------------- properties ------------------------------ *)

\* what is told of request r is true of r
TrueOf(r, a) ==
    a.ok =>
      /\ Range(a.promises) \cup Range(a.more) \subseteq Restored(r.outs)
      /\ r.path \in {"/v1/mint/bolt11", "/v1/swap"} => a.promises = r.outs
      /\ r.path \in {"/v1/mint/bolt11", "/mint"} => mintQuote[r.quote] = "ISSUED"
      /\ r.path \in {"/v1/swap", "/split"} => CheckState(r.uses) = "SPENT" /\ ~CheckSpendableDeprecated(r.uses)[1]
      /\ a.state = "PAID" => meltQuote[r.quote] = "PAID"
TrueAnswer(w) == serving[w].step = "answered" => TrueOf(serving[w].request, serving[w].response)

(* What a client is told of its request, whether it comes from the endpoint  *)
(* or from the cache, and however often the request was sent or the mint     *)
(* died, is true of this request: the promises are those of its own outputs  *)
(* and can be restored, a note taken is spent, a quote paid or issued        *)
(* (RedisCache.cache, the endpoints of router.py and router_deprecated.py;   *)
(* /melt is left out, see OldPaidIsPaid).                                    *)
AnswersAreTrue == \A w \in Connections : serving[w] # Free /\ serving[w].request.path # "/melt" => TrueAnswer(w)

(* One invoice is paid for one quote, however many it has, from both         *)
(* interfaces, with the backends whose checking_id is the invoice's          *)
(* (_set_melt_quote_pending, _store_melt_quote).                             *)
PaidForOneQuote == Cardinality({q \in MeltQuotes : meltQuote[q] \in {"PENDING", "PAID"}}) <= 1
InvoicePaidOnce == ~IdPerQuote => PaidForOneQuote

(* "The state of the payment, a preimage as proof of payment": what /melt    *)
(* answers as paid is paid. Violated: the endpoint answers paid=True for a   *)
(* payment that is pending, and may fail.                                    *)
OldPaidIsPaid == \A w \in Connections : serving[w] # Free /\ serving[w].request.path = "/melt" => TrueAnswer(w)

(* An old client, which names no keyset, can mint what it has paid for.      *)
(* Violated: its outputs get the id of ledger.keyset, and after a rotation   *)
(* that one is refused until the mint starts again.                          *)
OldClientsAreSigned ==
    \A w \in Connections :
      LET r == serving[w].request
      IN  Performing(w, "/mint") /\ mintQuote[r.quote] = "PAID" /\ Restored(r.outs) = {}
            => Fresh(r.outs, sigKeyset)

(* A note is pending for a melt only as long as its quote is. Violated: melt *)
(* raises between the two when another quote of the invoice pays, and no     *)
(* poll or start looks for a note that is held for a quote which is not      *)
(* pending.                                                                  *)
HeldForAPendingQuote == \A n \in ApiNotes : heldFor[n] # Nobody => meltQuote[heldFor[n]] = "PENDING"
=============================================================================
