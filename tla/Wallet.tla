-------------------------------- MODULE Wallet --------------------------------
(***************************************************************************)
(* The wallet's database and the commands that share it.  Notes are the     *)
(* derivation indexes of one keyset and all worth one unit, so an amount is *)
(* a number of notes.  A command is a process (cashu invoice, receive,      *)
(* send, pay, burn) or a task of a program that uses the wallet: it keeps   *)
(* what it read, speaks to the mint, and may stop after any transaction.    *)
(* The mint is external; Swap, MintQuote and Melt model it in detail.       *)
(***************************************************************************)
EXTENDS Integers, FiniteSets, FiniteSetsExt

CONSTANTS
  Tasks,                    \* the commands that run
  MintQuotes, MeltQuotes,   \* one of each per invoice to mint or to pay
  NoQuote,
  MintSize,                 \* the notes a mint quote is for
  MeltNeed,                 \* amount + fee_reserve of a melt quote
  BlankOutputs,             \* the blank outputs a payment carries
  Batch, EmptyLimit,        \* restore_tokens_for_keyset: batch and to
  Backups,                  \* the seeds' pasts: sets of indexes once signed
  MaxIndex,                 \* bound: no command draws an index beyond it
  MaxFaults                 \* bound: the commands that are killed, and the
                            \* rows whose invalidation raises

ASSUME WalletAssumption ==
  /\ MintSize \in Nat /\ BlankOutputs \in Nat /\ Batch \in Nat /\ EmptyLimit \in Nat
  /\ MaxIndex \in Nat /\ MaxIndex >= 2 /\ Backups \subseteq SUBSET (0 .. MaxIndex - 1)
  /\ NoQuote \notin MintQuotes \cup MeltQuotes

VARIABLES
  counter,                  \* keysets.counter
  held, used,               \* the rows of proofs and of proofs_used
  reserved, meltId,         \* columns of proofs
  localMelt,                \* the state in bolt11_melt_quotes
  task,                     \* what each command is doing
  net,                      \* its request, then the answer
  promised,                 \* the notes that were signed for it
  scan,                     \* the restore of a wallet from its mnemonic
  signed, spent, locked,    \* the mint's promises, spent and pending proofs
  mintQuote, meltQuote,     \* the mint's quotes
  handed,                   \* the notes printed in a token
  raised                    \* history: the rows whose invalidation raised

rows == <<held, used, reserved, meltId>>
mint == <<signed, spent, locked, mintQuote, meltQuote>>
wire == <<net, promised>>
walletVars == <<counter, rows, localMelt, task, wire, scan, mint, handed, raised>>

Idle == [pc |-> "idle", cmd |-> "none", quote |-> NoQuote,
         took |-> {}, ins |-> {}, outs |-> {}, give |-> {}]
NoScan == [pc |-> "none", next |-> 0, empties |-> 0, found |-> 0, ins |-> {}]
Ended == {"idle", "done", "failed", "crashed"}

FreshOuts(n) == counter .. counter + n - 1
Lowest(S, n) == {i \in S : Cardinality({j \in S : j < i}) < n}

----------------------------------------------------------------------------
(* The tables.                                                              *)

\* active_proofs
Available == held \ reserved
\* get_proofs(melt_id)
RowsOfMelt(q) == {i \in held : meltId[i] = q}
\* secret_used: the proofs table only, so spent notes are not found
SecretUsed(S) == S \cap held # {}
BumpSecretDerivation(n) == counter' = counter + n
StoreProofs(S) ==
  /\ held' = held \cup S
  /\ UNCHANGED <<used, reserved, meltId>>

\* invalidate_proof: DELETE, then INSERT, each committed by itself
InvalidateProof(i, inserted) ==
  /\ held' = held \ {i} /\ reserved' = reserved \ {i}
  /\ used' = IF inserted THEN used \cup {i} ELSE used
  /\ meltId' = [meltId EXCEPT ![i] = NoQuote]
FaultsLeft == Cardinality(raised) + Cardinality({s \in Tasks : task[s].pc = "crashed"}) < MaxFaults
\* one proof of invalidate: an exception of either statement is only logged
InvalidateOrLog(i) ==
  \/ InvalidateProof(i, TRUE) /\ UNCHANGED raised
  \/ /\ FaultsLeft /\ raised' = raised \cup {i}
     /\ InvalidateProof(i, FALSE) \/ UNCHANGED rows
\* set_reserved_for_melt: one transaction, on the rows that are still there
SetReservedForMelt(S, on, q) ==
  /\ reserved' = IF on THEN reserved \cup (S \cap held) ELSE reserved \ S
  /\ meltId' = [i \in DOMAIN meltId |-> IF i \in S \cap held THEN q ELSE meltId[i]]
  /\ UNCHANGED <<held, used>>

----------------------------------------------------------------------------
(* The commands.                                                            *)

CanStart(t) == task[t].pc = "idle" /\ scan.pc \in {"none", "done", "crashed"}
GoTo(t, pc) == task' = [task EXCEPT ![t].pc = pc]
Post(t) == net' = [net EXCEPT ![t] = "sent"]

\* mint: the counter is read, not bumped, before the request
MintTokens(t, q) ==
  LET outs == FreshOuts(MintSize) IN
  /\ CanStart(t) /\ counter + MintSize <= MaxIndex
  /\ IF SecretUsed(outs)
     THEN GoTo(t, "failed") /\ UNCHANGED net
     ELSE /\ task' = [task EXCEPT ![t] = [Idle EXCEPT !.pc = "asked", !.cmd = "mint",
                                                      !.quote = q, !.outs = outs]]
          /\ Post(t)
  /\ UNCHANGED <<promised, counter, rows, localMelt, scan, mint, handed, raised>>

\* mutant: the counter is not advanced
MintWithoutBump(t) ==
  /\ task[t].pc = "bump" /\ GoTo(t, "store")
  /\ UNCHANGED <<counter, rows, localMelt, wire, scan, mint, handed, raised>>

BumpAfterMint(t) ==
  /\ task[t].pc = "bump"
  /\ BumpSecretDerivation(Cardinality(task[t].outs))
  /\ GoTo(t, "store")
  /\ UNCHANGED <<rows, localMelt, wire, scan, mint, handed, raised>>

\* split: the counter is bumped in a transaction of its own, then the check
Split(t, cmd, ins, n, sent) ==
  LET outs == FreshOuts(n) IN
  /\ CanStart(t) /\ counter + n <= MaxIndex
  /\ BumpSecretDerivation(n)
  /\ IF SecretUsed(outs)
     THEN GoTo(t, "failed") /\ UNCHANGED net
     ELSE /\ task' = [task EXCEPT ![t] =
               [Idle EXCEPT !.pc = "asked", !.cmd = cmd, !.took = ins, !.ins = ins,
                            !.outs = outs, !.give = outs \ Lowest(outs, n - sent)]]
          /\ Post(t)
  /\ UNCHANGED <<promised, rows, localMelt, scan, mint, handed, raised>>

\* redeem: a token of one foreign note; nothing of it is in the tables
Redeem(t) == Split(t, "receive", {}, 1, 0)

\* swap_to_send, for coins that do not fit
SwapToSend(t) == \E S \in SUBSET Available :
                   Cardinality(S) >= 2 /\ Split(t, "send", S, Cardinality(S), 1)

\* select_to_send with coins that fit: the token is made of rows
SelectToSend(t) ==
  /\ CanStart(t)
  /\ \E S \in SUBSET Available :
       /\ S # {}
       /\ task' = [task EXCEPT ![t] = [Idle EXCEPT !.pc = "print", !.cmd = "send",
                                                   !.took = S, !.give = S]]
  /\ UNCHANGED <<counter, rows, localMelt, wire, scan, mint, handed, raised>>

\* send: the token is printed before its notes are reserved, one by one
PrintToken(t) ==
  /\ task[t].pc = "print"
  /\ handed' = handed \cup task[t].give
  /\ task' = [task EXCEPT ![t].pc = "mark", ![t].took = @ \cup task[t].give]
  /\ UNCHANGED <<counter, rows, localMelt, wire, scan, mint, raised>>

\* mutant: only one of the rows is updated
ReserveFirstOnly(t) ==
  /\ task[t].pc = "mark" /\ task[t].give # {}
  /\ reserved' = reserved \cup ({Min(task[t].give)} \cap held)
  /\ task' = [task EXCEPT ![t].give = {}, ![t].pc = "done"]
  /\ UNCHANGED <<held, used, meltId, counter, localMelt, wire, scan, mint, handed, raised>>

SetReservedForSend(t) ==
  /\ task[t].pc = "mark"
  /\ IF task[t].give = {}
     THEN GoTo(t, "done") /\ UNCHANGED rows
     ELSE LET i == Min(task[t].give) IN
          /\ reserved' = reserved \cup ({i} \cap held)
          /\ task' = [task EXCEPT ![t].give = @ \ {i}]
          /\ UNCHANGED <<held, used, meltId>>
  /\ UNCHANGED <<counter, localMelt, wire, scan, mint, handed, raised>>

\* pay: a quote of its own, coins for it, and the blank outputs of melt
PayInvoice(t, q) ==
  /\ CanStart(t) /\ counter + BlankOutputs <= MaxIndex
  /\ \A s \in Tasks : task[s].quote # q
  /\ BumpSecretDerivation(BlankOutputs)
  /\ \E S \in SUBSET Available :
       /\ Cardinality(S) >= MeltNeed
       /\ task' = [task EXCEPT ![t] =
            [Idle EXCEPT !.pc = "reserve", !.cmd = "melt", !.quote = q, !.took = S,
                         !.ins = S, !.outs = FreshOuts(BlankOutputs)]]
  /\ UNCHANGED <<rows, localMelt, wire, scan, mint, handed, raised>>

PostMelt(t) ==
  /\ task[t].pc = "reserve"
  /\ SetReservedForMelt(task[t].took, TRUE, task[t].quote)
  /\ GoTo(t, "asked") /\ Post(t)
  /\ UNCHANGED <<promised, counter, localMelt, scan, mint, handed, raised>>

UnreserveMelt(t) ==
  /\ task[t].pc = "unreserve"
  /\ SetReservedForMelt(task[t].took, FALSE, NoQuote)
  /\ GoTo(t, IF task[t].cmd = "check" THEN "done" ELSE "failed")
  /\ UNCHANGED <<counter, localMelt, wire, scan, mint, handed, raised>>

\* get_melt_quote: the answer of the mint, read first
GetMeltQuote(t, q) ==
  /\ CanStart(t)
  /\ task' = [task EXCEPT ![t] =
       [Idle EXCEPT !.cmd = "check", !.quote = q,
                    !.pc = CASE meltQuote[q] = "PAID" -> "read paid"
                             [] meltQuote[q] = "UNPAID" -> "read unpaid"
                             [] OTHER -> "done"]]
  /\ \E s \in Tasks : task[s].cmd = "melt" /\ task[s].quote = q
  /\ UNCHANGED <<counter, rows, localMelt, wire, scan, mint, handed, raised>>

\* the rest of get_melt_quote, on the rows that carry the quote by then
ApplyMeltQuote(t) ==
  LET q == task[t].quote
      S == RowsOfMelt(q) IN
  /\ \/ /\ task[t].pc = "read paid" /\ localMelt[q] = "UNPAID"
        /\ localMelt' = [localMelt EXCEPT ![q] = "PAID"]
        /\ IF Cardinality(S) = MeltNeed
           THEN task' = [task EXCEPT ![t].pc = "invalidate", ![t].took = S, ![t].ins = S]
           ELSE GoTo(t, "done")
     \/ /\ task[t].pc = "read paid" /\ localMelt[q] = "PAID"
        /\ GoTo(t, "done") /\ UNCHANGED localMelt
     \/ /\ task[t].pc = "read unpaid"
        /\ task' = [task EXCEPT ![t].pc = "unreserve", ![t].took = S]
        /\ UNCHANGED localMelt
  /\ UNCHANGED <<counter, rows, wire, scan, mint, handed, raised>>

\* burn: the rows the mint calls spent
Burn(t) ==
  /\ CanStart(t) /\ held # {}
  /\ \E S \in {held, reserved} :
       task' = [task EXCEPT ![t] = [Idle EXCEPT !.pc = "invalidate", !.cmd = "burn",
                                       !.took = S \cap spent, !.ins = S \cap spent]]
  /\ UNCHANGED <<counter, rows, localMelt, wire, scan, mint, handed, raised>>

----------------------------------------------------------------------------
(* What follows the answer.                                                 *)

Answered(t) ==
  /\ task[t].pc = "asked"
  /\ \/ /\ net[t] = "ok"
        /\ GoTo(t, CASE task[t].cmd = "mint" -> "bump"
                     [] task[t].cmd = "melt" -> "invalidate"
                     [] OTHER -> "store")
     \/ /\ net[t] = "pending"
        /\ GoTo(t, "done")
     \/ /\ net[t] = "refused"
        /\ GoTo(t, IF task[t].cmd = "melt" THEN "unreserve" ELSE "failed")
  /\ UNCHANGED <<counter, rows, localMelt, wire, scan, mint, handed, raised>>

\* the connection fails, whatever has become of the request
ConnectionLost(t) ==
  /\ task[t].pc = "asked"
  /\ GoTo(t, IF task[t].cmd = "melt" THEN "unreserve" ELSE "failed")
  /\ UNCHANGED <<counter, rows, localMelt, wire, scan, mint, handed, raised>>

\* _construct_proofs, of as many outputs as were signed
ConstructProofs(t) ==
  /\ task[t].pc = "store"
  /\ StoreProofs(promised[t])
  /\ GoTo(t, IF task[t].cmd \in {"mint", "melt"} THEN "done" ELSE "invalidate")
  /\ UNCHANGED <<counter, localMelt, wire, scan, mint, handed, raised>>

\* invalidate, a proof at a time, and what the command does after it
Invalidate(t) ==
  /\ task[t].pc = "invalidate"
  /\ IF task[t].ins # {}
     THEN /\ InvalidateOrLog(Min(task[t].ins))
          /\ task' = [task EXCEPT ![t].ins = @ \ {Min(@)}]
          /\ UNCHANGED localMelt
     ELSE /\ GoTo(t, CASE task[t].cmd = "melt" -> "store"
                       [] task[t].cmd = "send" -> "print"
                       [] OTHER -> "done")
          /\ localMelt' = IF task[t].cmd = "melt"
                          THEN [localMelt EXCEPT ![task[t].quote] = "PAID"] ELSE localMelt
          /\ UNCHANGED <<rows, raised>>
  /\ UNCHANGED <<counter, wire, scan, mint, handed>>

Crash(t) ==
  /\ task[t].pc \notin Ended
  /\ FaultsLeft
  /\ GoTo(t, "crashed")
  /\ \/ UNCHANGED rows
     \/ task[t].pc = "invalidate" /\ task[t].ins # {} /\ InvalidateProof(Min(task[t].ins), FALSE)
  /\ UNCHANGED <<counter, localMelt, wire, scan, mint, handed, raised>>

----------------------------------------------------------------------------
(* restore_tokens_for_keyset, in a wallet that has only its mnemonic.       *)

\* mutant: the batch ends one short
BatchWithoutItsLast ==
  /\ scan.pc = "batch" /\ scan.empties < EmptyLimit
  /\ LET found == (scan.next .. scan.next + Batch - 2) \cap signed IN
     /\ StoreProofs(found)
     /\ counter' = scan.next + Batch
     /\ scan' = [scan EXCEPT !.next = @ + Batch, !.empties = @ + 1,
                             !.ins = found \cap spent, !.pc = "check"]
  /\ UNCHANGED <<localMelt, task, wire, mint, handed, raised>>

\* restore_promises_from_to: one batch, its rows, and the counter beyond it
RestoreBatch ==
  LET batch == scan.next .. scan.next + Batch - 1
      found == batch \cap signed
      last  == IF found = {} THEN 0 ELSE Max(found) - scan.next + 1 IN
  /\ scan.pc = "batch" /\ scan.empties < EmptyLimit
  /\ StoreProofs(found)
  /\ counter' = scan.next + Batch
  /\ scan' = [scan EXCEPT !.next = @ + Batch, !.found = @ + last,
                          !.empties = IF found = {} THEN @ + 1 ELSE @,
                          !.ins = found \cap spent,
                          !.pc = IF found = {} THEN "batch" ELSE "check"]
  /\ UNCHANGED <<localMelt, task, wire, mint, handed, raised>>

\* invalidate(check_spendable = True)
RestoreCheck ==
  /\ scan.pc = "check"
  /\ IF scan.ins = {}
     THEN scan' = [scan EXCEPT !.pc = "batch"] /\ UNCHANGED <<rows, raised>>
     ELSE /\ InvalidateOrLog(Min(scan.ins))
          /\ scan' = [scan EXCEPT !.ins = @ \ {Min(@)}]
  /\ UNCHANGED <<counter, localMelt, task, wire, mint, handed>>

\* the counter is reverted by what the last indexes of the batches leave
RestoreEnd ==
  /\ scan.pc = "batch" /\ scan.empties = EmptyLimit
  /\ BumpSecretDerivation(scan.found - scan.next)
  /\ scan' = [scan EXCEPT !.pc = "done"]
  /\ UNCHANGED <<rows, localMelt, task, wire, mint, handed, raised>>

RestoreCrash ==
  /\ scan.pc \in {"batch", "check"} /\ FaultsLeft
  /\ scan' = [scan EXCEPT !.pc = "crashed"]
  /\ UNCHANGED <<counter, rows, localMelt, task, wire, mint, handed, raised>>

----------------------------------------------------------------------------
(* The mint, external: all it may do with a request.                        *)

\* the blank outputs of a payment in flight are stored and cannot be reused
InFlight(t) == task[t].cmd = "melt" /\ meltQuote[task[t].quote] = "PENDING"
                                    /\ net[t] \in {"taken", "pending"}
Blank == UNION {task[t].outs : t \in {s \in Tasks : InFlight(s)}}
Acceptable(t) == /\ net[t] = "sent"
                 /\ task[t].outs \cap (signed \cup Blank) = {}
                 /\ task[t].took \cap (spent \cup locked) = {}
Answer(t, a) == net' = [net EXCEPT ![t] = a]

MintSigns(t) ==
  /\ Acceptable(t)
  /\ \/ /\ task[t].cmd = "mint" /\ mintQuote[task[t].quote] = "PAID"
        /\ mintQuote' = [mintQuote EXCEPT ![task[t].quote] = "ISSUED"]
     \/ task[t].cmd \in {"receive", "send"} /\ UNCHANGED mintQuote
  /\ signed' = signed \cup task[t].outs
  /\ spent' = spent \cup task[t].took
  /\ Answer(t, "ok") /\ promised' = [promised EXCEPT ![t] = task[t].outs]
  /\ UNCHANGED <<counter, rows, localMelt, task, scan, locked, meltQuote, handed, raised>>

MintRefuses(t) ==
  /\ net[t] = "sent" /\ Answer(t, "refused")
  /\ UNCHANGED <<promised, counter, rows, localMelt, task, scan, mint, handed, raised>>

MintTakesMelt(t) ==
  /\ Acceptable(t) /\ task[t].cmd = "melt" /\ meltQuote[task[t].quote] = "UNPAID"
  /\ meltQuote' = [meltQuote EXCEPT ![task[t].quote] = "PENDING"]
  /\ locked' = locked \cup task[t].took
  /\ Answer(t, "taken")
  /\ UNCHANGED <<promised, counter, rows, localMelt, task, scan, signed, spent, mintQuote, handed, raised>>

AnswerPending(t) ==
  /\ net[t] = "taken" /\ InFlight(t) /\ Answer(t, "pending")
  /\ UNCHANGED <<promised, counter, rows, localMelt, task, scan, mint, handed, raised>>

PaymentEnds(t, paid, change) ==
  /\ InFlight(t)
  /\ meltQuote' = [meltQuote EXCEPT ![task[t].quote] = IF paid THEN "PAID" ELSE "UNPAID"]
  /\ locked' = locked \ task[t].took
  /\ spent' = IF paid THEN spent \cup task[t].took ELSE spent
  /\ promised' = [promised EXCEPT ![t] = IF paid THEN Lowest(task[t].outs, change) ELSE {}]
  /\ signed' = signed \cup promised'[t]
  /\ IF net[t] = "taken" THEN Answer(t, IF paid THEN "ok" ELSE "refused") ELSE UNCHANGED net
  /\ UNCHANGED <<counter, rows, localMelt, task, scan, mintQuote, handed, raised>>

OthersRedeem ==
  /\ \E i \in handed \ (spent \cup locked) : spent' = spent \cup {i}
  /\ UNCHANGED <<counter, rows, localMelt, task, wire, scan, signed, locked, mintQuote,
                 meltQuote, handed, raised>>

----------------------------------------------------------------------------
\* a wallet with two notes, or a new directory and the mnemonic of an old one
WalletInit ==
  /\ used = {} /\ reserved = {} /\ handed = {} /\ locked = {} /\ raised = {}
  /\ meltId = [i \in 0 .. MaxIndex - 1 |-> NoQuote]
  /\ localMelt = [q \in MeltQuotes |-> "UNPAID"]
  /\ task = [t \in Tasks |-> Idle] /\ net = [t \in Tasks |-> "none"]
  /\ promised = [t \in Tasks |-> {}]
  /\ mintQuote = [q \in MintQuotes |-> "PAID"]
  /\ meltQuote = [q \in MeltQuotes |-> "UNPAID"]
  /\ \/ /\ counter = 2 /\ held = {0, 1} /\ signed = {0, 1} /\ spent = {}
        /\ scan = NoScan
     \/ /\ counter = 0 /\ held = {} /\ scan = [NoScan EXCEPT !.pc = "batch"]
        /\ signed \in Backups /\ spent \in {{}, {0} \cap signed}

Command(t) ==
  \/ \E q \in MintQuotes : MintTokens(t, q)
  \/ BumpAfterMint(t)
  \/ Redeem(t) \/ SwapToSend(t) \/ SelectToSend(t)
  \/ PrintToken(t) \/ SetReservedForSend(t)
  \/ \E q \in MeltQuotes : PayInvoice(t, q) \/ GetMeltQuote(t, q)
  \/ PostMelt(t) \/ UnreserveMelt(t) \/ ApplyMeltQuote(t)
  \/ Burn(t)
  \/ Answered(t) \/ ConnectionLost(t)
  \/ ConstructProofs(t) \/ Invalidate(t)
  \/ Crash(t)

Mint(t) ==
  \/ MintSigns(t) \/ MintRefuses(t) \/ MintTakesMelt(t) \/ AnswerPending(t)
  \/ \E paid \in BOOLEAN, change \in 0 .. BlankOutputs : PaymentEnds(t, paid, change)

Restore == RestoreBatch \/ RestoreCheck \/ RestoreEnd \/ RestoreCrash

WalletNext == Restore \/ OthersRedeem \/ \E t \in Tasks : Command(t) \/ Mint(t)
WalletSpec == WalletInit /\ [][WalletNext]_walletVars

----------------------------------------------------------------------------
(* Properties.                                                              *)

\* A note that the balance counts and the mint has spent is explained by a
\* command that did not run to its end, by two commands that took the same
\* note, or by a database that refused to delete its row: a single complete
\* command whose deletions succeed leaves no phantom balance.
BalanceIsExplained ==
  \A i \in Available \cap spent :
    \/ \E t \in Tasks : i \in task[t].took /\ task[t].pc # "done"
    \/ \E t, s \in Tasks : t # s /\ i \in task[t].took \cap task[s].took
    \/ scan.pc # "none" /\ scan.pc # "done"
    \/ i \in raised

\* Nothing the mint signed for this wallet and has not spent is out of reach:
\* it is in the table, or belongs to a command that is not complete, or to the
\* change of a payment that was answered pending, or to what restore has not
\* reached.
SignedIsAccountedFor ==
  \A i \in signed \ spent :
    \/ i \in held
    \/ \E t \in Tasks : i \in task[t].outs /\ (task[t].pc # "done" \/ net[t] = "pending")
    \/ scan.pc # "none" /\ i >= scan.next

\* The counter is beyond every signed index, but for a mint command between
\* the mint's signature and the bump (or dead there), and once restore has
\* computed the counter.
CounterCoversSigned ==
  \A i \in signed :
    \/ i < counter
    \/ \E t \in Tasks : i \in task[t].outs /\ task[t].cmd = "mint" /\ task[t].pc # "done"
    \/ scan.pc # "none"

\* After restore the counter is the one the wallet had ("restore the secret
\* counter to its previous value"): beyond every index found.
RestoredCounterIsFresh ==
  scan.pc = "done" /\ (\A t \in Tasks : task[t].pc = "idle")
    => \A i \in signed : i < scan.next => i < counter

----------------------------------------------------------------------------
=============================================================================
