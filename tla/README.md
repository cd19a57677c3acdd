# A TLA+ development of nutshell

nutshell is a Cashu mint and a wallet.  The mint signs blinded messages and so
issues notes of ecash, takes notes back for new ones, sells notes for Lightning
payments and buys them for Lightning payments.  Its handlers are asyncio
coroutines over a SQL database; they lock little, do most things in several
transactions, and depend on a Lightning node that goes its own way.  The wallet
derives its secrets from counters, and keeps notes, reservations and keysets in
a database of its own.  This directory models both, checks the models with TLC
and proves their safety properties with TLAPS.

## 1. Inventory

| component | source (`src/cashu/`) | state | operations | what makes it correct |
|---|---|---|---|---|
| Note store | `mint/crud.py`, `mint/db/*.py`, `mint/verification.py` | `promises`, `proofs_used`, `proofs_pending`, `keysets` (balance, fees_paid) | set and unset pending, store, sign and delete outputs, invalidate proofs | a note is signed once and spent once; the running balance equals the tables |
| Swap | `Ledger.swap` | locals of a request | verify, hold, commit, release | locks are exclusive and released; no value is created |
| Mint quotes | `Ledger.mint_quote`, `get_mint_quote`, `mint`; `mint/tasks.py` | `mint_quotes.state`, the invoice | poll, listener, lock, store, sign, issue | promises are signed at most once per payment; a paid invoice is noticed |
| Melt quotes | `Ledger.melt_quote`, `get_melt_quote`, `melt`, `melt_mint_settle_internally` | `melt_quotes.state`, `disable_melt`, the payment | hold, lock, pay, check, roll back, invalidate, give change; poll | a payment is covered by notes nobody gets back; change is what is left over; a quote resolves; an invoice is paid once |
| Regular tasks, startup | `Ledger._run_regular_tasks`, `_check_backends`, `mint/startup.py`, `mint/tasks.py` | the tasks | start, poll every quote with pending proofs, listen to invoices | every quote is looked at again and again |
| Lightning backends | `lightning/*.py` | the node's invoices and payments | quote, pay, status, stream | what the ledger concludes is what the node did |
| Keysets | `mint/keysets.py`, `wallet/wallet.py` (`load_mint`) | the table and `Ledger.keysets`; the wallet's copy | derive, activate, rotate; load, choose | what was signed stays redeemable; the wallet uses an active keyset |
| Watchdog | `mint/watchdog.py` | `balance_log`, the abort queue | read both balances, compare with the last entry | leaks are found |
| Events | `mint/events/*.py`, `wallet/subscriptions.py` | subscriptions per client | subscribe, unsubscribe, submit, wait | the last state is told |
| Database locks | `core/db.py` | locks held, trials | connect, retry, time out | what is read under a lock stays true; the caller knows what was committed |
| Front ends, cache | `mint/router*.py`, `mint/cache.py`, `mint/management_rpc/` | Redis entries, `ledger.keyset` | answer, answer again | an answer is true of its request |
| Blind auth | `mint/auth/*.py`, `wallet/auth/*.py` | auth proofs, the session | log in, mint tokens, pay a token for a call | one token, one call |
| Spending conditions | `mint/conditions.py`, `core/p2pk.py`, `wallet/p2pk.py`, `wallet/htlc.py` | none | lock, sign, verify | owners decide |
| Amounts | `core/split.py`, `core/helpers.py`, `wallet/transactions.py` | none | select, split, charge, return | wallet and mint agree |
| Blind signatures | `core/crypto/*.py` | none | blind, sign, unblind, prove | what is unblinded verifies |
| Tokens | `core/base.py`, `wallet/proofs.py`, `wallet/keyset_manager.py`, `wallet/helpers.py` | reserved proofs | serialize, read, expand ids, redeem, list, take back | a token keeps its proofs |
| Wallet | `wallet/*.py` | counters, proofs, reservations, quotes | mint, send, receive, melt, check, burn, restore | no counter is used twice; no note is lost |
| Migrations, conversion | `mint/migrations.py`, `core/migrations.py`, `mint/sqlite_to_postgres.py` | the schema's version, both databases | migrate, record, copy, count | an upgrade or a conversion keeps what the mint owes |

**How they interact.**  Every handler of the mint calls the note store, inside
`Database.connect`; nothing else is shared but `Ledger.keysets`,
`Ledger.disable_melt` and the event manager.  `mint` and `melt` meet at the
mint quote when a melt pays an invoice of the mint itself.  `get_melt_quote` is
called by clients and by the regular task, and finishes or undoes what `melt`
began.  The listener task and `get_mint_quote` both mark mint quotes as paid.
The watchdog reads the balance that the note store bumps.  The wallet's
commands are processes that share its database, and meet the mint only through
requests whose answers may be lost.

**What is hard.**  Steps of several coroutines on one quote between two
transactions; state that is read, then used after an await (the internal
settlement, `get_melt_quote`, `load_mint`, the watchdog); rollback in several
transactions; a payment that outlives the request; crashes that leave locks,
rotations, migrations or a wallet's command half done; a keyset rotated out
between store and sign; fees rounded differently in two places; lost answers
and repeated requests.  `PROJECT.json` lists each hazard at its line.

## 2. Modules

| module | models | state |
|---|---|---|
| `NoteStore` | the tables and the transactions on them, shared by swap, mint and melt | promises, spends, pending, balance, fees, events |
| `Ecash` | what a mint promises: issue once, lock, exchange for no more value, spend once | issued, spent, locked |
| `Swap` | `Ledger.swap` with concurrent requests; implements `Ecash` | a place, inputs and outputs per request |
| `MintQuote` | mint quotes, invoice, listener, poll, `Ledger.mint`, internal settlement | quote state, invoice, requests, polls |
| `Melt` | `Ledger.melt`, with the poll it begins with, and `Ledger.get_melt_quote`; EXTENDS `MintQuote`, whose `SettleReads` and `SettleWrites` are the halves of the internal settlement | quote state, payment, requests, polls |
| `Upkeep` | the start and the regular task's rounds | process, task, round, held quotes |
| `Backends` | seven Lightning backends: what each makes of units, parts, answers and errors | a payment, an invoice and a stream, on both sides |
| `Keysets` | derivation, activation, rotation, the change of melts, the wallet's `load_mint` | table, memory, rotations, wallet's table |
| `DbLock` | `Database.connect` on SQLite and Postgres | place, locks, trials, versions per call |
| `Watchdog` | the checks and the log, while money moves | both balances, what is in flight, a check, an entry |
| `Events` | websocket clients, first messages, events that precede, follow or miss their commit, the wallet's invoice command | subscriptions, announced changes, tasks, messages |
| `Api` | v1 and deprecated endpoints, the response cache, lost connections, several quotes of one invoice | requests being served, Redis, notes, quotes |
| `BlindAuth` | the wallet's session, minting and spending of auth tokens | session, tokens, calls |
| `Migrations` | the mint's migrations 11 to 32 and the loop that applies them | version, rows |
| `Conversion` | `sqlite_to_postgres` beside a mint that runs or not | both databases, the copy |
| `Wallet` | the commands of a wallet with their requests | counter, rows, tasks, restore |
| `Tokens` | tokens of both versions from proofs to a mint | the token in its forms, what is redeemed |
| `SpendingConditions` | P2PK, HTLC, SIG_ALL; the mint's verification and the wallets' signing | locks, witnesses, approvals |
| `Amounts` | selecting, splitting, fees, change | purse, payment |
| `BlindSignature` | blinding, signing, DLEQ over a group | what each party holds |
| `SumProofs` | lemmas about sums over finite sets and about recursive functions | |
| `StoreProofs`, `SwapProofs` | theorems about the transactions and `Swap` | |
| `QuoteProofs` | theorems about `MintQuote` and `Melt` | |
| `InfrastructureProofs` | theorems about `DbLock`, `Watchdog`, `Backends`, `Migrations`, `Conversion` | |
| `InterfaceProofs` | theorems about `Keysets`, `BlindAuth`, `Events`, `Api` | |
| `WalletProofs` | theorems about `Wallet` | |
| `EcashProofs` | theorems about `BlindSignature`, `SpendingConditions`, `Amounts`, `Tokens` | |
| `MCSwap`, `MCMintQuote`, `MCMelt`, `MCWallet`, `MCFoundations`, `MCInterface` | small instances | |

`MCSwap`, `MCFoundations` and `MCInterface` hold several parts that share no state.
In one behaviour one of them runs and the others stay as they began, so the
states of the parts add up and do not multiply.  What two parts have in common
is abstracted on either side: `Melt` has the steps of a poll, `Upkeep` the
order of polls; `Swap` has the transactions of a swap, `Api` one step for it,
which `SwapImplementsEcash` justifies; `NoteStore` takes a transaction as
atomic, `DbLock` says why it may.

**Notes.**  In `NoteStore` a token is one note over its whole life: the blinded
message `B_`, the row of `promises` (in `stored` while `c_` is NULL, in
`signed` after), the proof, and its rows in `proofs_pending` and `proofs_used`.
The models of the ledger rely on what `BlindSignature` shows: a proof verifies
exactly when its promise was signed.

**Transactions.**  A block `async with db.get_connection()` is one action.
Everything between two blocks interleaves, and so do the answers of the node.
A coroutine is a place (`swapPc`, `mintPc`, `meltPc`, `askPc`, `pollPc`) and
its local variables.  The name of a place says what has been done; for `melt`:

    idle -> verified -> held -> locked -> ready -> paying -> won -> spent
         -> sign -> signed -> changed -> succeeded
    ready -> settling -> won                     (internal)
    paying -> checking -> rollback -> released -> unlocked -> failed
    paying, checking -> parked                   (nothing more is done)

and for `get_melt_quote`:

    idle -> asking -> settled -> commit -> committed -> change -> signed
         -> changed -> idle
    asking -> failed -> unpaid -> freeing -> freed -> idle
                                             freed -> returned   (melt's own poll)

A melt begins with a poll of its own (`MeltAsks`): it is one of the `Askers`, and
goes on (`MeltVerify`) with a quote that it found UNPAID, or that its poll has
rolled back (`returned`).  A request on a mint quote that cannot take it out of
PENDING any more (`MintUnsetRaises`) ends in the place `stuck`.

**What raises.**  Where the code has a handler (swap's `except`/`finally`,
mint's `except`), an action takes the coroutine there whatever raised: a lock
timeout, a UNIQUE constraint, an inactive keyset.  Where it has none (melt
before the payment, a poll), the coroutine simply stops (`MeltRaises`,
`AskRaises`).  A failing database later in `melt` behaves like a crash there.
Where the code catches and goes on, so does the model: `InvalidateOrLog` of the
wallet, a callback that raises (`Callback` of `Backends`), `BlindAuth.Call`
when the endpoint raises after its effect.

**Books.**  `Value(S)` and `Ppk(S)`, the amounts and input fees of a set of
tokens, are constants of which only additivity is assumed (`ValueAssumption`,
`PpkAssumption`).  `Bumped` is `bump_keyset_balance` for all rows of a
transaction, `FeesAfter` `bump_keyset_fees_paid` per keyset.

**Abstractions.**

- `Melt`: the amount of a blank output, which the mint imprints, is fixed in
  advance; change is any maximal set of blank outputs not above what was
  overpaid (the imprint itself is in `Amounts`).  A node pays an invoice at most
  once; a status that says SETTLED carries the fee.  The node counts fees in
  1/`FeeUnit` of the mint's unit.  A quote has an invoice of its own.  An answer
  to `pay_invoice` that brings another `checking_id` is modelled by the row it
  writes (`NewCheckingId`), which is the whole quote as it was before; which id
  later status requests name is not, so that a backend that does not know the
  new one is a backend that answers UNKNOWN (`UnknownInFlight`).
- `SpendingConditions`: a `sigflag` is one of the two known ones or `other`; a
  locktime or a number of signatures may be 0, which the code reads in three
  ways (`LockPassed`, `NutLockPassed`, `Required`).
- Spending conditions, the NUT-20 witness and limits only refuse requests; in
  the models of the ledger a refused request changes nothing.
- `Backends`: amounts are small numbers of msat, one sat is `Kmsat` of them; a
  call to the node is answered, answered with an error, or lost.
- `Wallet`: a note is the index of its secret; every note has one value; the
  mint answers, refuses, or its answer is lost.  A restore runs before
  the commands (`CanStart`), not beside them; a batch stores its proofs and sets
  the counter in one step, where the code has two transactions.  `promised` are the notes signed
  for a command's request, whether or not it has heard of it: they are what
  `_construct_proofs` makes once the answer is there.
- `Api`: the ledger's part of a request is one step; blank outputs are given
  back whole or not at all.  `IdPerQuote` says whether the backend's checking_id
  is the quote's (Strike) or the invoice's (all others); the run has the latter.
  `Restored` is the set of what the mint finds again,
  which `TwoLists` puts in the order of the request.
- `BlindSignature`: the curve is any group of prime order, given by its laws;
  the hash functions are constants.
- `Tokens`: encodings are one to one; ids have a version and a prefix.  Tokens of
  version 3 are made with full ids only, by this wallet and by assumption
  (`ForeignAssumption`) by others, though the comment at `wallet/proofs.py:80`
  names short ones.
- `Watchdog`: the balances of all keysets are read in one step, as if the unit
  had one keyset; `mint_watchdog_ignore_mismatch`, with which an entry is stored
  although its check failed, is left out, and `NoSlowLeak` says nothing of a mint
  that sets it.
- `Amounts`: a purse maps positions to coins, so that equal coins differ and the
  list's order is known; what leaves makes a gap, what comes gets the next
  positions.  Fees and what is missing are compared in thousandths, exactly
  where the code has floats.  The loops of `coinselect` and `amount_split` are
  recursive functions.
- `DbLock`: time is counted for each call in units of the first delay.
- `Keysets`: a keyset is the counter at the end of its path.
- `Migrations`: every table has two rows at most, and what no later migration
  tells apart is not told apart.
- `Conversion`: three tables, a row is a note.  The counts that return 0 when the
  query raises (`_precheck_postgres_populated`) are taken as exact.
- `Events`: a filter's states are numbered, and what a row is changed by is told
  apart only by where its event stands to the commit: after it (`Change`, then
  `Submit`), before it (`Announce`, then `EndTransaction`), or nowhere
  (`ChangeSilently`: `_set_mint_quote_pending`, the management RPC, proofs
  released after a failed swap).
- `BlindAuth`: an endpoint has its effect and answers, has it and raises, or
  raises without it.

Operators commented as mutants stand before the definition they alter.  They
are used by no specification; each shows that a property fails when the code is
changed in the way it describes.

## 3. Runs

| run | instance | what it shows |
|---|---|---|
| `swap_requests` | 2 swaps, 6 tokens of 2 keysets, fees of 100 and 300 ppk, 2 faults; and: 2 backends, 2 held quotes, 2 deaths | locks, books, supply, refinement of `Ecash`, release; held quotes are resolved |
| `mint_requests` | 3 mint requests, 1 poll, listener, 1 internal settlement, 1 quote, 1 crash, 2 keysets | promises backed by payments, one minter, both liveness properties |
| `melt_poll` | 1 melt, 2 polls, 1 crash, rotation, 4 tokens | payments covered, change covered, books |
| `melt_requests` | 2 melts with the poll each begins with, a Lightning quote and one for the mint's own invoice, rotation, `DisableOnError` | proofs stay held, until such a poll rolls a quote back |
| `melt_live` | 1 melt, 1 poll, UNKNOWN at any time | a pending quote resolves |
| `wallet` | 2 commands, 1 mint quote, 1 melt quote, indexes 0 to 5, batches of 2, any past of the first 4 secrets, 1 fault: a crash or a row that is not deleted | counter, balance and signatures |
| `foundations` | 9 parts, see below | what notes are made of, 6 properties; what the mint leans on, 9 properties |
| `interface` | 4 parts, see below | 6 properties |
| `mint_final`, `melt_race`, `wallet_restore`, `migrations_pending` | | violated, section 4 |

The parts of `foundations`: *blind*, a group of 5 points; *conditions*, 2 notes
with 7 kinds of lock and 3 owners; *amounts*, purses of up to 3 coins; *tokens*,
7 keyset ids of which 5 share 2 prefixes; *backends*, all seven, in both units
they have, with and without parts; *migrations* from versions 10, 15 and 26 on
either database; *locks*, 4 calls that lock a row, the table, or nothing, over 2
rows of which one exists; *watchdog*, 3 moves, 1 unit in flight, 1 move during a
check, leaks of 4; *conversion*, 2 notes, batches of 1, 2 deaths.  Those of
`interface`: *auth*, 2 logins, 2 calls, 2 tokens, 1 token a login, 1 login a
minute; *events*, 2 clients, 1 filter of 3 states and the invoice command;
*keysets*, 2 rotations at a time, 3 counters, 2 deaths; *api*, 2 connections and
one of three sets of requests that meet in a note, a quote or an invoice, 1
death.

**What the properties say.**

- `HoldersExclusive`: whoever swaps proofs works on them alone until it lets
  them go itself.  `HeldUnlessUndone` says the same of melts
  (`HeldProofsStayHeld`), until a poll has rolled a quote back, and after that
  if the requests share nothing: the poll may be the one another melt begins
  with.  That `HeldProofsStayHeld` does not hold by itself is finding 2.
- `BalanceMatchesTables`: `keysets.balance`, bumped in four places, equals what
  the tables say, for swaps; for melts only `BalanceNeverUndercounts` holds,
  because releasing proofs twice bumps it twice.
- `NoInflation`, `FeesCoverSupplyLoss`: supply never grows, and shrinks by no
  more than the recorded fees.
- `SwapImplementsEcash`: every step of a swap is a step of `Ecash` or none.
- `IssuedBacked`, `OneMinterPerQuote`: promises are signed for a quote no more
  often than it was paid, by one request at a time.
- `PaymentsAreCovered`, `ChangeIsCovered`: while a payment is in flight or
  settled, notes worth it, its fee, the input fees and the change are locked or
  spent for the quote; change is never a whole unit too much.
- `EveryLockReleased`, `PendingQuoteReleased`, `SettledIsNoticed`,
  `PendingMeltResolves`, `HeldQuotesAreResolved`: what is locked is released
  unless a crash took the request; what has ended at the node is noticed, by
  polls, or by the regular task through failing polls and restarts.  Two
  exceptions stay PENDING for ever: a mint quote whose
  `_unset_mint_quote_pending` raises, by a lock it does not get in time, and a
  melt quote that a late answer with another checking_id wrote back.
- `CounterCoversSigned`, `BalanceIsExplained`, `SignedIsAccountedFor`: a wallet
  asks for no second signature on a secret, shows no balance that it cannot
  spend, and loses no signature, but for commands that died or raced, and rows
  the database refused to delete.
- `UnblindedVerifies`, `DleqConvinces`: what is unblinded verifies; an honest
  proof convinces the wallet and everybody it sends the note to.
- `OwnersDecide`: a note moves when enough of those its lock names have signed,
  these outputs under SIG_ALL, and only then.  Not covered: locks the mint
  refuses to open (a key named twice, a negative number of signatures, or more
  than there are keys); locks with a `sigflag` that is neither of the two, which
  open without a signature (`FlagsAreKnown`); melts that mix SIG_ALL with other
  locks (`MixedSigAllRefused`).  A lock that asks for 0 signatures asks for 1.
- `TokenKeepsProofs`: what a receiver hands to a mint are the proofs that were
  sent, each under its full keyset id at its own mint, and all of them.
- `PostedSwapsBalance`, `OverpaidFeeComesBack`: the mint accepts the wallet's
  arithmetic; the blank outputs suffice for every overpaid fee.
- `PaidIsSettled`, `RollbackIsInformed`, `QuoteIsWhatIsSent`,
  `StreamSkipsNothing`: what the ledger concludes of a payment, an amount or a
  stream is what the node did, or the backend is one of those named that could
  not see it.  A stream reconnects from its index; a new one, which the listener
  makes when its callback raises, reads the index anew, and what that passes is
  left to the polls.
- `UpgradeLosesNothing`, `SuccessLosesNothing`: spent stays spent, issued stays
  issued and balances are kept by every upgrade, and by a conversion that
  reports success.  The exception is in `KeysetsAreCopied` of section 4.
- `OneCallPerToken`: a token buys a second effect only after a call that left it
  unburnt, because the endpoint raised after its effect or burning failed.
- `SubscriberIsTold`: whoever stays connected is told the last state, or will
  be, unless the change passed it by: the event was submitted before it
  subscribed and the transaction committed after its first read, or there was no
  event.
- `SignedStaysRedeemable`, `WalletFollowsRotation`: what was signed, the mint
  verifies after every rotation and restart; the wallet uses a keyset that was
  active when it asked.
- `AnswersAreTrue`, `InvoicePaidOnce`: an answer, cached or not, is true of the
  request it answers, but for the deprecated `POST /melt`; of several quotes for
  one invoice one pays it, where the checking_id is the invoice's.
- `LockedReadsStayTrue`, `ToldWhatCommitted`: what `db/write.py` relies on.
- `NoSlowLeak`: between the first check that found nothing and the last, no
  more has left the node than the error of one check.

**Bounds.**  Two swaps are enough for every race of two holders, and the tokens
are chosen so that outputs of one swap are inputs of the next.  A mint quote
can be paid at most twice (invoice and internal melt), so three requests are
one more than it can serve.  Two melts and one poll are the smallest system
with a retry that a stale poll meets; two polls the smallest with polls racing
each other.  Amounts are such that one genesis note pays a quote with change
and two notes overpay it, and that a fee of 1 is charged.  Two wallet commands
race for every row, after a restore or without one; six indexes let each of them
ask for new secrets after it, and the empty batch that ends it fits.  Two keysets
with one prefix are the smallest ambiguity.  A leak of 4 is one more than `NoSlowLeak`
allows with one unit in flight and one move per check.  Two deaths let a
conversion or a rotation die on what a first death left.  The theorems of
section 5 lift all this to any number, for every safety property.
`FeeUnit = 2` is the smallest unit with a fraction.  `melt_requests`
and `wallet` use symmetry of two requests which no constant tells apart.
Deadlock is not checked: all requests
may have ended.

**Faithfulness of the environment.**  With `UnknownInFlight = FALSE` the
backend answers UNKNOWN only for a payment the node does not have; `melt_poll`
and `melt_requests` assume that.  `Backends` says who keeps it: c-lightning and
Blink do, the others may be blind (`RollbackIsInformed`), and then `melt` takes
UNKNOWN twice for a failure and releases the proofs of a payment in flight.
`melt_live` allows it.

**Fairness.**  asyncio resumes every coroutine, and every database call returns
or times out: weak fairness of each request's step and of the poll's steps
after it has read.  Clients ask again and again for an unpaid mint quote
(strong fairness of `PollReads` per quote, the poller may be busy with another
one).  The listener gets no fairness: its stream may stay down.  For melts, the
node ends a payment in flight (its HTLCs time out), the regular task polls a
quote that has pending proofs (`TaskReads`, strong fairness), and a backend
asked again and again answers (strong fairness of `AskAnswered`), the task as
well as the poll of a melt; no client has to ask for a melt.  Nothing
forces a poll of a quote without pending proofs, for the task does not find it.
In `Upkeep` the task goes on (weak), somebody starts the mint again (weak), and
a backend that is asked again and again works at some time (strong), and so
does the poll of every quote (strong): one that always raises starves those
after it.

## 4. Where code and words differ

Four runs expect a violation; `PROJECT.json` quotes the lines.

1. `mint_final` — the internal settlement writes PAID over ISSUED, for it read
   the quote without a lock.  (That quote was paid twice, so `IssuedBacked`
   still holds.)
2. `melt_race` — a poll of a failed attempt writes UNPAID and then releases
   whatever proofs it finds, which may be those of the retry.
3. `wallet_restore` — after a restore the counter may lie before a secret that
   was signed, if a batch before the last one was not found to its end.
4. `migrations_pending` — migration 16 puts the recomputed pending proofs into
   the temporary table of the spent ones.

Properties that a module states and that do not hold.  They are not part of a
run; add one as an INVARIANT or PROPERTY to the cfg of its module to see it
fail.

| property | module | why it fails |
|---|---|---|
| `SubscribersToldTheState` | `Swap` | a failed swap releases its proofs without the `unspent` event that `_unset_proofs_pending` documents |
| `WatchdogAccepts` | `MCSwap` | fees are recorded rounded up per keyset, and charged once |
| `PendingMeltResolves` with `MaxCrashes = 1` | `Melt` | after a crash between invalidation and update no task finds the PENDING quote |
| `PendingMeltResolves` without its exception | `Melt` | `melt` writes the quote as it read it before the payment when the answer has another checking_id: a poll may have finished it meanwhile, and it is PENDING again without pending proofs |
| `PendingQuoteReleased` without its exception | `MintQuote` | `_unset_mint_quote_pending` takes a lock with a timeout, and nothing tries it again |
| `ChangeNeverExceedsFee` | `Melt` | `get_melt_quote` rounds the fee down, `melt` up |
| `RollbackMeansFailure` | `Backends` | several backends answer UNKNOWN for a status request that failed, and the proofs of a running payment go back |
| `ChangeWithinReserve` | `Backends` | the status of c-lightning computes the fee with a sign wrong, so a poll returns more than the reserve |
| `StreamsSkipNothingTogether` | `Backends` | a callback that raises ends the generator, and the new one begins at the last paid invoice |
| `PartIsPartOfTheInvoice` | `Backends` | nothing compares the part of a multi-mint quote with the invoice |
| `ChangeIsSigned` | `Keysets` | the keyset of the blanks is rotated out during the payment: signing raises after the inputs were invalidated |
| `OldClientsAreSigned` | `Api` | `ledger.keyset` is set at startup and never by a rotation: deprecated endpoints refuse until the next start |
| `OldPaidIsPaid` | `Api` | `POST /melt` answers paid=True for a payment that is pending |
| `PaidForOneQuote` with `IdPerQuote` | `Api` | Strike's checking_id is one per quote, and the guard of `_set_melt_quote_pending` compares checking_ids; `InvoicePaidOnce` leaves Strike out |
| `HeldForAPendingQuote` | `Api` | a melt that is refused because another quote of the invoice pays leaves its proofs pending for a quote that is not |
| `CheckedManually` under `EventsFairSpec` | `Events` | the invoice command registers its callback after the message may have come; the loop that polls is reached when the websocket was not |
| `NobodyIsPassedBy` | `Events` | `_invalidate_proofs` and `get_mint_quote` submit inside their transaction, and some changes have no event |
| `ToldWhatIs` | `Events` | a swap that fails to sign has told its proofs spent, and rolls back |
| `OneEffectPerToken` | `BlindAuth` | an endpoint that raises after its effect (`melt`, once it has paid) leaves the token unburnt |
| `FailedCallKeepsToken` | `BlindAuth` | a refusal that a handler turns into an answer, a validation error, a rate limit: the wrapped call has not raised, and the token is burnt |
| `FlagsAreKnown` | `SpendingConditions` | any `sigflag` but SIG_INPUTS skips the check of the input, and only SIG_ALL makes the one of the outputs |
| `KeysetsAreCopied` | `Migrations` | SQLite commits DDL at once: a process that dies between CREATE TABLE keysets and the copy, in migration 12 or 13, starts again by dropping the old copy, and copies the empty table |
| `MixedSigAllRefused` | `SpendingConditions` | the function returns False where its comment says it raises, and `melt` does not look |
| `SelectionCoversAmount` | `Amounts` | with fees included the selection of the rest may be empty |
| `ManyMintsAreRead` | `Tokens` | `from_tokenv3` raises for several mints what its caller does not catch |
| `SentTogetherComesBackTogether` | `Tokens` | `receive_all_pending` groups rows it has not sorted |
| `PendingCanBeListed` | `Tokens` | `pending` sorts send ids, among which a melt has None |
| `AlarmsForALeak` | `Watchdog` | an entry that is made while a melt is pending cannot be reached again once it is paid: every later check alarms |

Seen while reading, and part of a model's comments at most:

- The settings say that the watchdog shuts the mint down; what it puts into the
  abort queue is read by `monitor_abort_queue`, which is never dispatched.  An
  exception of a backend ends the watchdog's task for good.
- A rotation between `GET /v1/keysets` and `GET /v1/keys` makes the wallet's
  first load raise a KeyError, which `load_mint` swallows.
- The conversion's success says nothing of which proofs are pending when the
  mint runs meanwhile.
- The expiry of a mint quote is never stored, so `mint` refuses no expired
  quote although its docstring says so.
- Postgres row locks lock nothing where there is no row yet: two melt quotes of
  one checking id may be stored at once (`_store_melt_quote`).
- The loop of `rotate_next_keyset` never records the highest counter, so the
  last active keyset of the dict is rotated; after a torn rotation that may be
  the older one, whose successor exists, and the call fails.
- `TokenV3.parse_obj` fills in a unit, which makes the lookup of
  `redeem_TokenV3` for a token without one dead; `verify_mint` compares with
  None what is a list and so never asks; `burn <token>` compares short ids with
  full ones.

## 5. Proofs

Every theorem is `Spec => []P`, for all values of the constants, from the named
assumptions of its module; the argument is always an inductive invariant that
`Init` implies, every action preserves (one lemma per group of actions) and
that implies `P`.

**`SwapProofs`** (`TokensAssumption`, `ValueAssumption`, `PpkAssumption`):
`SwapTypeCorrect`, `SwapsHoldTheirProofsAlone`, `SwapsKeepBooks`,
`SwapsCreateNoValue`, `SwapsTellSpent`, and `SwapRefinesEcash`, that is
`SwapSpec => SwapImplementsEcash`.  The commit of a swap creates no value
because its request was balanced when it was verified, several steps before;
because its inputs are still signed and unspent, which holds because they are
pending; and because they are pending on behalf of this request only.
`SwapIInv` is the conjunction of the types, the exclusive holds, the exact
books, `NoInflation`, `SpentIsTold`, and the fact that every request past
verification is balanced with disjoint, signed inputs.  The sums are handled by
`StoreProofs`.  `SwapsRecordTheirFees` (`FiniteKeysets`) counts by keyset:
rounding each keyset's fee up on its own makes no less than rounding the whole
up (`FeesByKeyset`), so the commit adds to the fees account at least what it
takes out of circulation (`CommitRecordsItsFee`).  The refinement maps `signed`, `used` and `pending \ used` to
`issued`, `spent` and `locked`: hold is `Lock`, commit is `Exchange`, release
after a failure is `Release`, all else stutters.

**`SumProofs`.**  `SumFunctionOnSet`, by which `Swap` and `Amounts` add up, is a
CHOOSE of a recursive function, and the library's induction principles take a
predicate for a parameter, which no installed prover can instantiate.  So
induction is stated of sets: a set of numbers that has 0 and each successor has
all (`AllNumbers`), and likewise of the subsets of a finite set (`AllSubsets`)
and of numbers from all smaller ones (`StrongNumbers`).  From these follow that
sums exist and what they are of a union, a concatenation, a shift or a part,
and `Recursion`: an equation in which `f[x]` depends on `f` at smaller elements
only has a solution.  `Amounts` uses it to unfold its recursive functions.

**`QuoteProofs`, mint quotes** (the assumptions of the store, and `MintsAssumption`: finitely many requests):
`MintTypeCorrect`, `ClaimsAreBacked`, `IssuesAreBacked`, `OneMinterAtATime`.
`IssuedBacked` is not inductive; `ClaimsBacked` counts a PAID quote and every
request between its lock and its signature as claims on a payment: the lock
turns the claim of a quote into one of a request, the signature turns that into
an issue, a failure gives it back or drops it, and the internal settlement
brings the receipt for the claim it makes.  What it lacks is that a step from
UNPAID to PAID finds nothing claimed or signed (`UnpaidIsFresh`), that a poll
which was told of a payment is right (`PollsAreRight`), and that requests name
quotes (`RequestsNamed`); `SignedIsCounted` is needed for `OneMinterPerQuote`.

**`QuoteProofs`, melts** (the assumptions of the store and of `Melt`):
`MeltsNeverUndercount`.  A request writes with checks under a lock, a poll
writes what it read before it asked the backend, and either may release, sign
or delete what the other has released, signed or deleted already.  The
invariant `MeltIInv` needs nothing of what they carry but that it is a set of
tokens: setting pending and spending write new rows only (`ProofsFree`,
UNIQUE (y)) and take off as much as they write, while releasing and signing add
the whole amount for the rows that are there and the rows that are not
(`OfDifference`, `OfUnion`), so that every double count raises the balance.
The exact books of a swap are lost, this bound is not.  `MeltTypes` types every
variable.  `HeldUntilUndone` needs no hypothesis: until a poll has rolled a quote
back, requests that have taken proofs have none in common (`HoldersApart`), and
a poll, of whomever, finishes what has settled or does nothing
(`PollsUndoNothing`), so no request, retry, rollback or restart takes the proofs
of a request that pays.

**`QuoteProofs`, payments**: `PaymentsCoveredApart`, `ChangeCoveredApart`,
`HeldAlone`, with any number of requests, polls, crashes and rotations.  They
have two hypotheses, and without either what they say is false.

- `RequestsApart`: each request so far has a quote, proofs and outputs of its own.
  The theorems are `[](RequestsApart => P)`; requests never become apart again
  (`ApartBefore`), so that it has been so all along.
  Requests that share them are what finding 2 is about: a late rollback, or a
  poll of the failed attempt, releases the proofs and deletes the blank outputs
  of the retry.
- `UnknownInFlight = FALSE`: the node does not answer UNKNOWN for a payment it
  has; `RollbackMeansFailure` in section 4 says for which backends this fails.

What keeps one request and its polls in step is not a lock.  What each of them
was told by the node stays so (`PollsKnow`, `Placed`), for a payment that has
settled or failed is over.  Rows and promises that name a quote are those of
its request (`RowsHaveOwners`), pending and spent all or none (`Sound`), and
pending or spent whenever the payment may be made (`Covered`).  UNIQUE (y) lets
one party spend; that one alone is due to sign the change (`DueAsk`,
`DueMelt`), once, after which nobody is (`ChangeOf`).  What it signs is bounded
by the quote's amount, reserve and the fee rounded down.  TLC has checked
`ApartIInv` on one melt with two polls and a crash (2.7 million states), and on
two melts that share nothing, each with its own poll, and a crash (0.8 million).

**`InfrastructureProofs`.**  *Locks* (`DbLockAssumption`): `LockedReadsHold`
and `CallersKnow`.  A write needs that nobody else has locked its row, and
`LockIsKept` says that a transaction between its read and its commit has its
locks, in whatever trial; `LockCoversTheRow` that those include the row.  For
what callers are told, `NothingBeforeTheEnd`: only the last step of a call
commits, and a body that has ended without a commit has raised before there is
another trial.

*Watchdog* (`WatchdogAssumption`, `NoEntryAssumption`): `SlowLeaksAreFound`.
The node's balance less what is owed is the margin, plus what is in flight,
less what has leaked (`MoneyIsSomewhere`).  A check sees that difference up to
the moves between its reads (`CheckIsNear`); since the differences in the log
never fall, the last is no less than the first could be and no more than all
leaks leave it (`LogIsNear`), and the two bounds together bound the leaks in
between.

*Backends* (`BackendsAssumption`: the kinds are among the seven, a unit is a
positive number of msat, invoices are of any amount): `BackendsTellTheTruth`,
`RollbacksAreInformed`, `StreamsSkipNothing`, `QuotesAreSent`.  One lemma per
question a backend is asked (`StatusIsTrue`, `PayIsTrue`, `InvoiceIsTrue`,
`QuotedAmount`) goes through the seven answers; the invariant says that there
is no payment before the request has reached the node
(`PaymentFollowsRequest`), and that the quote is of the invoice or of a part of
it.  `StreamsSkipNothing` is of each stream from where it was opened, whatever
connections it loses.  `WholeSats` is the rounding.

*Migrations* (`MigrationsAssumption`: finitely many notes, versions from 10 to
26): `UpgradesLoseNothing`.  `MigratedColumns` says what each of the migrations
does to the columns the property is about, and `MigrationKeeps` that what holds
after the first `e` of them holds after the next: `y` is new from 16 on, a quote
is told by its flags before 20 and by its state then (`FlagsAreKept`,
`StatesAreKept`), both ids are known from 18 on, no row is without one from 26
on, and the balances are the view's from 27 on.  `Applied` counts a migration
that was committed and not recorded; after a death it is one less, and what was
kept is kept (`EarlierIsKept`).  The keysets are excepted when a death has
emptied their table.  `ViewAddsUp` counts the notes.

*Conversion* (`ConversionAssumption`): `SuccessfulConversionsLoseNothing`, for
any notes, batches, attempts and deaths.  What is counted as equal was read as
equal, and stays so where it must: spent notes never leave SQLite
(`UsedIsCopied`), and the other tables do not change while the mint does not
run (`QuietIsCopied`).

**`InterfaceProofs`.**  *Keysets* (`KeysetsAssumption`):
`KeysetsStayRedeemable` and `WalletsFollow`.  The memory of the mint is part of
its table (`MemoryIsStored`), a rotation enters into memory what it has stored
(`RotationsAreStored`), and a start loads all of the table, in whatever order
(`EnumerationIsComplete`), so a keyset with signatures is in memory whenever the
mint runs.  For the wallet: a keyset that is retired, in the table, in memory
or in an answer, has its successor there too (`RetiredHasSuccessor`,
`AnswerIsComplete`), so the newest of an answer is active, whatever rotation
falls between the wallet's two requests.

*Blind auth*: `TokensBuyOneCall`.  A token has one holder at a time
(`TokenHasOneHolder`), and a call that had its effect leaves it burnt, or pending
with nobody but its own request to let it go (`BoughtTokenIsGone`), or is one
that is counted as having left it unburnt.

*Events* (`EventsAssumption`): `SubscribersAreTold`.  Whoever follows a row has
been sent its last state, or there is a message of it on its way, a first read
to come, or a submit that has not got to him, or the change has passed him by
(`WillKnow`); and what is announced in an open transaction has been sent to all
who followed the row at that time.

*HTTP* (`ApiAssumption`: requests name notes and quotes there are):
`ClientsAreToldTheTruth`, `InvoicesArePaidOnce`.  What an answer promises stays
true, because the ledger undoes nothing of it (`NothingIsUndone`, `ToldStays`);
so what Redis holds is as true as when it was stored (`RedisInv`), and what
waits between ledger, store and connection too (`ServingInv`).  `OneQuotePays`
is proved of the ledger's steps alone, for a checking_id that is the invoice's.

**`WalletProofs`** (`WalletAssumption`): `CounterIsAhead`, `SignaturesAreAccountedFor`,
`BalancesAreExplained`, for any number of commands, quotes and crashes, and any
sizes of batches.  The conjuncts of `WalletIInv`:

- `CommandsFit`: what each stage of each command has taken, asked for and been
  answered, and which of its notes the mint has spent by then.
- `SignedOnce`, `NotesEnterOnce`, `StoredIsHeld`: a note is promised to one
  command, enters the table once, and was in nobody's hands before.  Without
  it a command that invalidates might take away another's note, and the
  balance would not be explained.
- `SignaturesAreAwaited`: a signature that is not spent is held, is awaited by a
  command that has not ended in peace, or lies ahead of the restore.
- `SpentIsTaken`, `MeltIdIsOfPayment`, `OnePayment`: a spent note that is held
  was taken by a command; a row with the id of a melt quote was taken by the
  payment of that quote, of which there is one.  So a check that invalidates or
  takes back by that id shares its notes with the payment.
- `ScanFits`, `CounterFits`: what a restore has yet to invalidate, and where the
  outputs of each command stand to the counter (`CounterIsFor`): a mint command
  has read it, the others have advanced it before they ask.
- `NothingIsLeft`: a note a command has dealt with is gone or reserved, or a
  second command took it too; this gives `BalanceIsExplained`.

TLC has checked `WalletIInv` on the instance of the run `wallet`.

**`EcashProofs`.**  *Blind signatures* (`GroupAssumption`,
`PrimeOrderAssumption`, `HashAssumption`): `UnblindedAlwaysVerifies`,
`DleqAlwaysConvinces`, and `DleqSoundness`: two answers to one commitment give a
signature under the published key.  The invariant says of each stage what group
expression is held.

*Spending conditions* (`ConditionsAssumption`: a lock names owners and numbers,
a request is of at least one proof, and its target is a swap or a melt):
`OwnersDecideAlways`, for any locks, owners, requests and order of signing.  The
conjuncts of `ConditionsIInv`, beside types and `OwnersConsented` (whose exceptions
are those of section 3):

- `SigsAreApproved`: whoever signed a proof approved it, or the request that the
  signature is on.  So what the mint counts are owners who consented
  (`AcceptanceIsConsent`, from `QuorumIsOfSigners`).
- `ApprovalsAreSigned`, `SigsAreDistinct`: an owner who approved has left every
  signature its wallet is to give, once; the mint refuses a witness that holds
  one twice.  So enough owners are a quorum (`SignersSuffice`, from
  `SignersAreQuorum`), and `CoSignersSuffice` follows.
- `LockedFirst`: nobody signs before the secrets are written.

*Amounts* (`AmountsAssumption`: fees, targets and reserves are numbers, amounts
are positive, and no wallet owns as much as the first amount the mint refuses):
`SwapsBalance` and `OverpaidFeesComeBack`, for any coins, keysets, fees, allowed
amounts and targets.  `AmountsIInv` says that the purse is finite, of positive
coins, and worth less than 2^`MaxOrder`; without that bound a wallet could ask
for an output the mint refuses.  The functions first: each exists
(`SplitExists`, `LogExists`, `CoinsAreSelected`, from `Recursion`), a split is
of positive amounts that add up to what is split (`SplitSumsUp`), and so is
`split_wallet_state` (`WalletSplitSumsUp`, from `FlattenedAmounts`), a selection
is of coins there are (`SelectsAmongThem`).  Then a swap balances because what
is kept, sent and charged is by `determine_output_amounts` what the selected
coins are worth (`OutputsAndFees`, `SwapBalances`); no property of the choice
that `coinselect` makes is needed, only that the same coins are charged and
swapped.  Blank outputs suffice by halving (`BlanksAreEnough`): an amount has
at most one part more than its half rounded down (`PartsByHalves`), a reserve
above 2 has one blank more than its half rounded up, and the halves compare as
they did.

*Tokens* (its `TokensAssumption`: finitely many keysets and proofs, and no short
id is the full id of a keyset; `ForeignAssumption`: tokens made elsewhere are of
version 3 and carry proofs there are): `TokensKeepTheirProofs`.  The conjuncts
of `TokensIInv`:

- `Says`: a token that was made here carries the proofs that were sent, all of
  them, under their full ids in version 3, and in version 4 under full ids or
  short ones; short ones only if the keysets of all are loaded.
- `RestIsUnredeemed`: what was redeemed and what the parts that are left carry
  together are the proofs that were sent.  A redeemed part adds its own
  (`RedeemedAsSent`): a short id that is expanded is of one keyset
  (`ShortIdIsOfOne`), or the token was refused.
- What the table of reserved proofs lists is of the proofs that were sent, and
  is looked at only when no text was made; taking back returns only those.

TLC has checked `ConditionsIInv`, `AmountsIInv` and `TokensIInv` on the instance
of the run `foundations`.

**Only model-checked.**  Liveness, which is beyond the prover:
`EveryLockReleased`, `PendingQuoteReleased`, `SettledIsNoticed`,
`PendingMeltResolves`, `HeldQuotesAreResolved`; with it all of `Upkeep`.  Every
safety property of a run that passes is stated by a theorem; those of melts
under the hypotheses given above, which the runs that check them meet.

## 6. Plan, and what is not modelled

Next, in this order:

1. `Ledger`: swaps, mint requests and melts on one store; `NoInflation` with
   receipts and payments, refinement of `Ecash` with issue and redeem.
2. `RequestsApart` weakened to one request at a time per quote and proof, with
   no rollback outstanding.
3. A lower bound on change (a late rollback deletes the blank outputs of a
   retry).

Not modelled:

- `FakeWallet`, a test double; the US dollar and Euro units, which differ from
  sat in rounding by the backend only.
- The device-code login, which no command reaches, and the checks of a JWT.
- `burn --delete`, NUT-18 payment requests, LNURL, the npub.cash client: they
  add no state of their own to the commands that are modelled.
- `UpdateNut04Quote` and `UpdateNut05Quote` of the management RPC, by which an
  operator overrides the state of a quote, and its settings.
- `mint_max_balance`, rate limits and the number of inputs, which only refuse.
- CockroachDB, which `core/db.py` tells from Postgres by name only.
- The migrations of the wallet and of the auth database.
- Generated gRPC code, logging, formatting.
