------------------------------- MODULE Backends -------------------------------
(***************************************************************************)
(* The Lightning backends, as the translation they make of what the node    *)
(* does: one outgoing payment from its quote to the ledger's verdict on the *)
(* proofs, one incoming invoice, and the stream of paid invoices.           *)
(*                                                                         *)
(* The node is external.  It answers a call, answers it with an error, or   *)
(* the connection is lost; an error of a pay call says nothing of what the  *)
(* payment is doing.  Amounts are in msat; kmsat is the 1000 of one sat.    *)
(***************************************************************************)
EXTENDS Integers, FiniteSets

CONSTANTS
  Kinds,          \* the backends that are checked
  Kmsat,          \* msat in a sat
  Quotes,         \* the amounts mint quotes ask for, in the unit
  Invoices,       \* the msat of the invoices melt quotes ask to pay
  Parts,          \* the msat of the part a multi-mint quote asks to pay
  Probes,         \* the msat Blink's fee probe and Strike's quote may answer
  ReserveMin, ReservePercent,  \* settings of fee_reserve, in msat and percent
  MaxPaid         \* bound: the invoices the node is paid

ASSUME BackendsAssumption ==
  /\ Kinds \subseteq {"clnrest", "corelightningrest", "lndrest", "lndgrpc", "lnbits", "blink",
                      "strike"}
  /\ Kmsat \in Nat \ {0} /\ Invoices \subseteq Nat

VARIABLES
  kind, unit, mpp,\* the backend, the unit it serves and its supports_mpp
  asked, invoiced,\* a mint quote's amount and its invoice's, both in msat
  invoice, credit,\* the node's invoice, and whether the quote is paid
  toPay,          \* msat of the invoice to pay
  isMpp, amount, reserve,  \* the melt quote, in the unit
  payNode, routing,  \* the node's payment and the fee it costs
  call,           \* the step of the ledger's melt
  onWire,         \* the pay request has been sent and has not reached the node
  verdict,        \* the melt quote
  byPaymentId,    \* Strike: checking_id is the payment's and not its quote's
  refund,         \* the change signed, in the unit
  blind, late,    \* history: the rollback's check saw no payment, or came first
  paidCount, cursor, streaming, streamTold,  \* paid invoices and their stream
  since, firstSince  \* the index the generator read, -1 when there is none, and
                     \* history: the one the first generator read

outVars == <<toPay, isMpp, amount, reserve, payNode, routing, call, onWire, verdict, byPaymentId, refund, blind, late>>
inVars == <<asked, invoiced, invoice, credit>>
streamVars == <<paidCount, cursor, streaming, since, firstSince, streamTold>>
backendVars == <<kind, unit, mpp, outVars, inVars, streamVars>>

Cln == {"clnrest", "corelightningrest"}
Lnd == {"lndrest", "lndgrpc"}
UnitsOf(k) == IF k = "lnbits" THEN {"sat"} ELSE {"sat", "msat"}
CeilDiv(a, b) == (a + b - 1) \div b
FeeReserve(msat) == IF (msat * ReservePercent) \div 100 > ReserveMin
                    THEN (msat * ReservePercent) \div 100 ELSE ReserveMin

\* Amount.to
InMsat(n) == IF unit = "sat" THEN n * Kmsat ELSE n
UnitUp(msat) == IF unit = "sat" THEN CeilDiv(msat, Kmsat) ELSE msat
UnitDown(msat) == IF unit = "sat" THEN msat \div Kmsat ELSE msat

----------------------------------------------------------------------------
(* Incoming: create_invoice and get_invoice_status.                         *)

\* c-lightning is asked for msat; LND, LNbits and Blink for whole sats, rounded
\* down; Strike for whole sats, rounded up
ClnInvoiceMsat(n) == InMsat(n)
CoreLightningInvoiceMsat(n) == InMsat(n)
LndRestInvoiceMsat(n) == (InMsat(n) \div Kmsat) * Kmsat
LndGrpcInvoiceMsat(n) == LndRestInvoiceMsat(n)
LnbitsInvoiceMsat(n) == LndRestInvoiceMsat(n)
BlinkInvoiceMsat(n) == LndRestInvoiceMsat(n)
StrikeInvoiceMsat(n) == CeilDiv(InMsat(n), Kmsat) * Kmsat
InvoiceMsat(n) == CASE kind = "clnrest" -> ClnInvoiceMsat(n)
                    [] kind = "corelightningrest" -> CoreLightningInvoiceMsat(n)
                    [] kind = "lndrest" -> LndRestInvoiceMsat(n)
                    [] kind = "lndgrpc" -> LndGrpcInvoiceMsat(n)
                    [] kind = "lnbits" -> LnbitsInvoiceMsat(n)
                    [] kind = "blink" -> BlinkInvoiceMsat(n)
                    [] OTHER -> StrikeInvoiceMsat(n)

\* the maps of the states, and what an error is: "raises" and UNKNOWN leave the
\* quote as it is
NodeInvoice == CASE invoice = "paid" -> "SETTLED" [] invoice = "open" -> "PENDING"
                 [] OTHER -> "FAILED"
ClnInvoiceStatus(how) == IF how = "answer" THEN NodeInvoice ELSE "UNKNOWN"
CoreLightningInvoiceStatus(how) == ClnInvoiceStatus(how)
LndRestInvoiceStatus(how) == CASE how = "answer" -> NodeInvoice
                               [] how = "lost" -> "raises" [] OTHER -> "UNKNOWN"
LndGrpcInvoiceStatus(how) == ClnInvoiceStatus(how)
\* an invoice that is not paid is pending, whatever became of it
LnbitsInvoiceStatus(how) == CASE how # "answer" -> "UNKNOWN"
                              [] how = "answer" /\ invoice = "paid" -> "SETTLED"
                              [] OTHER -> "PENDING"
BlinkInvoiceStatus(how) == ClnInvoiceStatus(how)
StrikeInvoiceStatus(how) == ClnInvoiceStatus(how)
InvoiceStatus(how) == CASE kind = "clnrest" -> ClnInvoiceStatus(how)
                        [] kind = "corelightningrest" -> CoreLightningInvoiceStatus(how)
                        [] kind = "lndrest" -> LndRestInvoiceStatus(how)
                        [] kind = "lndgrpc" -> LndGrpcInvoiceStatus(how)
                        [] kind = "lnbits" -> LnbitsInvoiceStatus(how)
                        [] kind = "blink" -> BlinkInvoiceStatus(how)
                        [] OTHER -> StrikeInvoiceStatus(how)

CreateInvoice ==
  /\ invoice = "none"
  /\ \E n \in Quotes : asked' = InMsat(n) /\ invoiced' = InvoiceMsat(n)
  /\ invoice' = "open"
  /\ UNCHANGED <<kind, unit, mpp, credit, outVars, streamVars>>

InvoiceEnds ==
  /\ invoice = "open" /\ invoice' \in {"paid", "expired"}
  /\ UNCHANGED <<kind, unit, mpp, asked, invoiced, credit, outVars, streamVars>>

\* get_mint_quote of an unpaid quote
CheckInvoice(how) ==
  /\ invoice # "none" /\ ~credit
  /\ credit' = (InvoiceStatus(how) = "SETTLED")
  /\ UNCHANGED <<kind, unit, mpp, asked, invoiced, invoice, outVars, streamVars>>

----------------------------------------------------------------------------
(* Outgoing: get_payment_quote, and what pay_invoice asks the node to send.  *)

\* the backends that take a part of an invoice
Mpp == Lnd \cup {"clnrest"}
Quoted(amt, fee) == [amount |-> amt, reserve |-> fee]
ClnQuote(msat) == {Quoted(UnitUp(msat), UnitUp(FeeReserve(msat)))}
CoreLightningQuote(msat) == ClnQuote(msat)
LndRestQuote(msat) == ClnQuote(msat)
LndGrpcQuote(msat) == ClnQuote(msat)
LnbitsQuote(msat) == ClnQuote(msat)
\* the probe, or a minimum and a percentage of whole sats when it is more
BlinkQuote(msat) == {Quoted(UnitUp(msat), UnitUp(f)) : f \in {g \in Probes : g >= ReserveMin}}
\* Strike's amount is what Strike says, and the fee is truncated
StrikeQuote(msat) == {Quoted(UnitUp(msat), UnitDown(f)) : f \in Probes}
QuoteFor(msat) == CASE kind = "clnrest" -> ClnQuote(msat)
                    [] kind = "corelightningrest" -> CoreLightningQuote(msat)
                    [] kind = "lndrest" -> LndRestQuote(msat)
                    [] kind = "lndgrpc" -> LndGrpcQuote(msat)
                    [] kind = "lnbits" -> LnbitsQuote(msat)
                    [] kind = "blink" -> BlinkQuote(msat)
                    [] OTHER -> StrikeQuote(msat)

\* mutant: a part pays all of the invoice
ClnSendsTheInvoice == toPay

\* a quote whose amount is not the invoice's is taken for a part; the amount of
\* an msat quote is taken by LND for sats.  0 is refused without a call.
ClnSends == CASE InMsat(amount) = toPay -> toPay
              [] mpp -> InMsat(amount)
              [] OTHER -> 0
LndRestSends == IF amount * Kmsat # toPay /\ mpp THEN amount * Kmsat ELSE toPay
LndGrpcSends == LndRestSends
Sends == CASE kind = "clnrest" -> ClnSends
           [] kind = "lndrest" -> LndRestSends
           [] kind = "lndgrpc" -> LndGrpcSends
           [] OTHER -> toPay

\* fee_reserve * 1000, in whatever unit; the others have no limit of the mint's
FeeLimit == IF kind \in Cln \cup Lnd THEN 0 .. reserve * Kmsat ELSE Probes

----------------------------------------------------------------------------
(* Outgoing: pay_invoice.                                                   *)

PayResults == {"SETTLED", "PENDING", "FAILED", "UNKNOWN"}

\* mutant: a payment in flight counts as settled
NodeResultOptimistic(s) == IF s = "failed" THEN "FAILED" ELSE "SETTLED"

NodeResult(s) == CASE s = "settled" -> "SETTLED" [] s = "inflight" -> "PENDING"
                   [] OTHER -> "FAILED"

\* an exception of pay_invoice is UNKNOWN to the ledger
ClnPay(how) == CASE how = "answer" -> NodeResult(payNode)
                 [] how = "error" -> "FAILED" [] OTHER -> "UNKNOWN"
CoreLightningPay(how) == ClnPay(how)
\* SendPaymentSync answers when the payment has ended; a part does so too,
\* or is in flight
LndRestPay(how) == ClnPay(how)
LndGrpcPay(how) == IF how = "answer" THEN NodeResult(payNode) ELSE "FAILED"
\* the status call of the answer follows at once
LnbitsPay(how) == IF how = "answer" THEN NodeResult(payNode) ELSE "FAILED"
\* ALREADY_PAID is FAILED; PENDING is not in the map, and raises
BlinkPay(how) == CASE how = "answer" /\ payNode = "settled" -> "SETTLED"
                   [] how = "answer" /\ payNode = "failed" -> "FAILED"
                   [] OTHER -> "UNKNOWN"
\* after a lost connection the handler reads a reply that is not there
StrikePay(how) == ClnPay(how)
PayResult(how) == CASE kind = "clnrest" -> ClnPay(how)
                    [] kind = "corelightningrest" -> CoreLightningPay(how)
                    [] kind = "lndrest" -> LndRestPay(how)
                    [] kind = "lndgrpc" -> LndGrpcPay(how)
                    [] kind = "lnbits" -> LnbitsPay(how)
                    [] kind = "blink" -> BlinkPay(how)
                    [] OTHER -> StrikePay(how)

----------------------------------------------------------------------------
(* get_payment_status; "raises" leaves the quote pending.                   *)

Found == IF payNode = "none" THEN "UNKNOWN" ELSE NodeResult(payNode)

\* mutant: no answer means no payment
StatusSwallowed(how) == IF how = "answer" THEN Found ELSE "UNKNOWN"

\* an error comes with an error status: in a body of status 200 it would be
\* taken for a payment that is not found
ClnStatus(how) == IF how = "answer" THEN Found ELSE "raises"
CoreLightningStatus(how) == ClnStatus(how)
\* an error line, or a stream that ends, is UNKNOWN
LndRestStatus(how) == CASE how = "answer" -> Found [] how = "lost" -> "raises"
                        [] OTHER -> "UNKNOWN"
\* the handler tests for NOT_FOUND and falls through for every other code
LndGrpcStatus(how) == IF how = "answer" THEN Found ELSE "UNKNOWN"
LnbitsStatus(how) == CASE how = "answer" -> Found [] how = "error" -> "raises"
                       [] OTHER -> "UNKNOWN"
BlinkStatus(how) == ClnStatus(how)
\* a payment is not found by the id of its quote
StrikeStatus(how) == CASE how # "answer" -> "raises"
                       [] how = "answer" /\ byPaymentId -> Found
                       [] OTHER -> "UNKNOWN"
Status(how) == CASE kind = "clnrest" -> ClnStatus(how)
                 [] kind = "corelightningrest" -> CoreLightningStatus(how)
                 [] kind = "lndrest" -> LndRestStatus(how)
                 [] kind = "lndgrpc" -> LndGrpcStatus(how)
                 [] kind = "lnbits" -> LnbitsStatus(how)
                 [] kind = "blink" -> BlinkStatus(how)
                 [] OTHER -> StrikeStatus(how)

\* the fees the two calls report, in the unit, the payment's rounded up and the
\* status' down; c-lightning's status has a sign wrong, Strike truncates both
PayFee == IF kind = "strike" THEN UnitDown(routing) ELSE UnitUp(routing)
ClnStatusFee == -(Sends + routing) - Sends
StatusFee == UnitDown(IF kind \in Cln THEN ClnStatusFee ELSE routing)

\* _generate_change_promises with as many outputs as the change needs, of a
\* wallet that provided the reserve
ChangeFor(feePaid) == IF reserve > feePaid THEN reserve - feePaid ELSE 0

----------------------------------------------------------------------------
Replies == {"answer", "error", "lost", "closed"}

\* melt_quote and melt, up to the call of the backend
StartMelt ==
  /\ call = "none" /\ call' = "pay"
  /\ toPay' \in Invoices
  /\ \E part \in {toPay'} \cup {p \in Parts : mpp /\ p < toPay'} :
       /\ isMpp' = (part # toPay')
       /\ \E quote \in QuoteFor(part) : amount' = quote.amount /\ reserve' = quote.reserve
  /\ UNCHANGED <<kind, unit, mpp, inVars, streamVars, payNode, routing, verdict, byPaymentId,
                 refund, blind, late>>
  /\ onWire' = (Sends' # 0)

NodePays ==
  /\ \/ /\ onWire /\ onWire' = FALSE /\ payNode' = "inflight"
        /\ late' = (verdict = "UNPAID")
        /\ UNCHANGED routing
     \/ /\ payNode = "inflight" /\ payNode' = "settled"
        /\ routing' \in FeeLimit
        /\ UNCHANGED <<onWire, late>>
     \/ /\ payNode = "inflight" /\ payNode' = "failed"
        /\ UNCHANGED <<onWire, routing, late>>
  /\ UNCHANGED <<kind, unit, mpp, inVars, streamVars, toPay, isMpp, amount, reserve, call, verdict, byPaymentId, refund,
                 blind>>

\* a node that answers has read the request; an error may come before that
PayReturns(how) ==
  /\ call = "pay" /\ how \in {"answer", "error", "lost"}
  /\ how = "answer" => payNode # "none"
  /\ byPaymentId' = (how = "answer")
  /\ CASE PayResult(how) = "SETTLED" ->
            /\ verdict' = "PAID" /\ call' = "done"
            /\ refund' = ChangeFor(PayFee)
       [] PayResult(how) = "PENDING" ->
            verdict' = "PENDING" /\ call' = "done" /\ UNCHANGED refund
       [] OTHER -> call' = "status" /\ UNCHANGED <<verdict, refund>>
  /\ UNCHANGED <<kind, unit, mpp, inVars, streamVars, toPay, isMpp, amount, reserve, payNode, routing, onWire, blind, late>>

\* melt: a failed or unknown payment is rolled back when the check does not
\* contradict it
StatusAfterPay(how) ==
  /\ call = "status" /\ call' = "done"
  /\ verdict' = IF Status(how) \in {"FAILED", "UNKNOWN"} THEN "UNPAID" ELSE "PENDING"
  /\ blind' = (verdict' = "UNPAID" /\ (how # "answer" \/ (kind = "strike" /\ ~byPaymentId)))
  /\ UNCHANGED <<kind, unit, mpp, inVars, streamVars, toPay, isMpp, amount, reserve, payNode, routing, onWire, byPaymentId,
                 refund, late>>

\* get_melt_quote of a pending quote: UNKNOWN is no reason to roll back
PollMelt(how) ==
  /\ call = "done" /\ verdict = "PENDING"
  /\ \/ /\ Status(how) = "SETTLED" /\ verdict' = "PAID"
        /\ refund' = ChangeFor(StatusFee)
     \/ Status(how) = "FAILED" /\ verdict' = "UNPAID" /\ UNCHANGED refund
  /\ UNCHANGED <<kind, unit, mpp, inVars, streamVars, toPay, isMpp, amount, reserve, payNode, routing, call, onWire,
                 byPaymentId, blind, late>>

----------------------------------------------------------------------------
(* paid_invoices_stream.  The n-th invoice paid has pay_index n.            *)

\* LND and LNbits push what is paid while the stream is open
LndRestPush(n) == IF streaming THEN {n} ELSE {}
LndGrpcPush(n) == LndRestPush(n)
LnbitsPush(n) == LndRestPush(n)
Pushed(n) == CASE kind = "lndrest" -> LndRestPush(n)
               [] kind = "lndgrpc" -> LndGrpcPush(n)
               [] kind = "lnbits" -> LnbitsPush(n)
               [] OTHER -> {}

\* the listener's callback settles the quote, or raises: the generator is dropped
\* and the listener makes another
Callback(n) ==
  \/ streamTold' = streamTold \cup {n} /\ UNCHANGED <<streaming, since>>
  \/ streaming' = FALSE /\ since' = -1 /\ UNCHANGED streamTold

NodeIsPaid ==
  /\ paidCount < MaxPaid /\ paidCount' = paidCount + 1
  /\ IF Pushed(paidCount') = {} THEN UNCHANGED <<streamTold, streaming, since>>
     ELSE Callback(paidCount')
  /\ UNCHANGED <<kind, unit, mpp, inVars, outVars, cursor, firstSince>>

\* a new generator reads c-lightning's index anew: that of the paid invoice that
\* was created last
OpenStream ==
  /\ since = -1 /\ kind \notin {"blink", "strike"}
  /\ streaming' = TRUE
  /\ cursor' \in (IF kind \in Cln /\ paidCount > 0 THEN 1 .. paidCount ELSE {0})
  /\ since' = cursor'
  /\ firstSince' = IF firstSince = -1 THEN cursor' ELSE firstSince
  /\ UNCHANGED <<kind, unit, mpp, inVars, outVars, paidCount, streamTold>>

\* the connection is lost, and the generator connects again from its index
StreamBreaks ==
  /\ streaming /\ streaming' = FALSE
  /\ UNCHANGED <<kind, unit, mpp, inVars, outVars, paidCount, cursor, since, firstSince, streamTold>>
Reconnect ==
  /\ since # -1 /\ ~streaming /\ streaming' = TRUE
  /\ UNCHANGED <<kind, unit, mpp, inVars, outVars, paidCount, cursor, since, firstSince, streamTold>>

\* mutant: the index moves before the answer is there
ClnWaitAnyMovesFirst ==
  /\ streaming /\ kind = "clnrest" /\ cursor < paidCount
  /\ cursor' = cursor + 1
  /\ Callback(cursor') \/ (streaming' = FALSE /\ UNCHANGED <<since, streamTold>>)
  /\ UNCHANGED <<kind, unit, mpp, inVars, outVars, paidCount, firstSince>>

\* waitanyinvoice: the index moves, then the invoice is yielded
ClnWaitAny ==
  /\ streaming /\ kind = "clnrest" /\ cursor < paidCount
  /\ cursor' = cursor + 1 /\ Callback(cursor')
  /\ UNCHANGED <<kind, unit, mpp, inVars, outVars, paidCount, firstSince>>

\* the older interface needs a second call for the hash, which may fail
CoreLightningWaitAny ==
  /\ streaming /\ kind = "corelightningrest" /\ cursor < paidCount
  /\ cursor' = cursor + 1
  /\ Callback(cursor') \/ (streaming' = FALSE /\ UNCHANGED <<since, streamTold>>)
  /\ UNCHANGED <<kind, unit, mpp, inVars, outVars, paidCount, firstSince>>

----------------------------------------------------------------------------
BackendsInit ==
  /\ kind \in Kinds /\ unit \in UnitsOf(kind) /\ mpp \in (IF kind \in Mpp THEN BOOLEAN ELSE {FALSE})
  /\ asked = 0 /\ invoiced = 0 /\ invoice = "none" /\ credit = FALSE
  /\ toPay = 0 /\ isMpp = FALSE /\ amount = 0 /\ reserve = 0 /\ payNode = "none" /\ routing = 0 /\ call = "none" /\ onWire = FALSE
  /\ verdict = "PENDING" /\ byPaymentId = FALSE /\ refund = 0
  /\ blind = FALSE /\ late = FALSE
  /\ paidCount = 0 /\ cursor = 0 /\ streaming = FALSE /\ since = -1 /\ firstSince = -1
  /\ streamTold = {}

Incoming == CreateInvoice \/ InvoiceEnds \/ \E how \in Replies : CheckInvoice(how)
Outgoing == \/ StartMelt \/ NodePays
            \/ \E how \in Replies : PayReturns(how) \/ StatusAfterPay(how) \/ PollMelt(how)
Stream ==
  NodeIsPaid \/ OpenStream \/ StreamBreaks \/ Reconnect \/ ClnWaitAny \/ CoreLightningWaitAny

BackendsNext == Incoming \/ Outgoing \/ Stream
BackendsSpec == BackendsInit /\ [][BackendsNext]_backendVars

----------------------------------------------------------------------------
(* Properties.                                                              *)

\* A quote is paid only when the node's payment or invoice is settled, through
\* every backend's maps, error paths and second calls.
PaidIsSettled == (verdict = "PAID" => payNode = "settled") /\ (credit => invoice = "paid")

\* The proofs of a payment that is in flight or settled were given back only
\* when the status check could not see the payment (blind), or the node read
\* the request after the rollback: c-lightning and Blink are never blind.
RollbackIsInformed ==
  /\ verdict = "UNPAID" /\ payNode \in {"inflight", "settled"} => blind \/ late
  /\ blind => kind \in Lnd \cup {"lnbits", "strike"}

\* ledger.melt: "Payment AND a status check both agree on a failure. We roll
\* back the transaction."
RollbackMeansFailure ==
  verdict = "UNPAID" /\ ~late => payNode \notin {"inflight", "settled"}

\* _generate_change_promises: the change is "close or equal to the fee
\* difference", so never more than the reserve.
ChangeWithinReserve == refund <= reserve

\* pay_invoice of clnrest: "Handle Multi-Mint payout where we must only pay part
\* of the invoice amount".
PartIsPartOfTheInvoice == call # "none" => Sends <= toPay

\* A multi-mint quote sends the part it asked for, and any other the invoice
\* when that is a whole number of sats and the mint keeps sats.
QuoteIsWhatIsSent ==
  call # "none" /\ unit = "sat" /\ toPay % Kmsat = 0
    => Sends = IF isMpp THEN InMsat(amount) ELSE toPay

\* However often the connection is lost, a stream of c-lightning settles every
\* invoice from where it was opened to its index.  A new stream, after a callback
\* that raised, reads the index anew: it is about what that one passes that
\* nothing is said, and the polls are left to find it.
StreamSkipsNothing == kind = "clnrest" /\ since # -1 => since + 1 .. cursor \subseteq streamTold

\* That the listener's streams together skip nothing does not hold.
StreamsSkipNothingTogether ==
  kind = "clnrest" /\ since # -1 => firstSince + 1 .. cursor \subseteq streamTold

=============================================================================
