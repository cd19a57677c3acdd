---------------------------- MODULE WalletProofs ----------------------------
(***************************************************************************)
(* Proofs about the wallet: its database, and the commands that keep it.    *)
(***************************************************************************)
EXTENDS Wallet, FiniteSetTheorems, WellFoundedInduction, TLAPS

-----------------------------------------------------------------------------
(***************************************************************************)
(* The wallet: the counter is ahead of what was signed, no unspent         *)
(* signature is lost, and a balance that counts a spent note is explained, *)
(* for any number of commands, quotes and indexes, whatever interleaves,   *)
(* is lost or dies.                                                        *)
(***************************************************************************)

Index == 0 .. MaxIndex - 1
CommandStages == {"idle", "asked", "bump", "store", "invalidate", "print", "mark", "reserve", "unreserve",
           "read paid", "read unpaid", "done", "failed", "crashed"}
Quotes == MintQuotes \cup MeltQuotes \cup {NoQuote}
TaskStates ==
  [pc : CommandStages, cmd : {"none", "mint", "receive", "send", "melt", "check", "burn"}, quote : Quotes,
   took : SUBSET Index, ins : SUBSET Index, outs : SUBSET Index, give : SUBSET Index]
Answers == {"none", "sent", "taken", "pending", "ok", "refused"}
Scans == [pc : {"none", "batch", "check", "done", "crashed"}, next : Nat, empties : Nat,
          found : Nat, ins : SUBSET Index]

WalletTyped ==
  /\ counter \in Nat /\ held \in SUBSET Index /\ reserved \subseteq held /\ signed \in SUBSET Index
  /\ meltId \in [Index -> MeltQuotes \cup {NoQuote}]
  /\ task \in [Tasks -> TaskStates] /\ net \in [Tasks -> Answers]
  /\ promised \in [Tasks -> SUBSET Index]
  /\ meltQuote \in [MeltQuotes -> {"UNPAID", "PENDING", "PAID"}]
  /\ scan \in Scans

Scanning == scan.pc \in {"batch", "check"}

\* Where each command can be.
StageFits(cmd, pc) ==
  \/ cmd = "none"    /\ pc \in {"idle", "failed"}
  \/ cmd = "mint"    /\ pc \in {"asked", "bump", "store", "done", "failed", "crashed"}
  \/ cmd = "receive" /\ pc \in {"asked", "store", "invalidate", "done", "failed", "crashed"}
  \/ cmd = "send"    /\ pc \in {"asked", "store", "invalidate", "print", "mark", "done", "failed",
                                "crashed"}
  \/ cmd = "melt"    /\ pc \in {"reserve", "asked", "invalidate", "store", "unreserve", "done",
                                "failed", "crashed"}
  \/ cmd = "check"   /\ pc \in {"read paid", "read unpaid", "invalidate", "unreserve", "done",
                                "crashed"}
  \/ cmd = "burn"    /\ pc \in {"invalidate", "done", "crashed"}

\* A command k, its stage and notes, and the answer a to what it has sent.
StateFits(t, k, a) ==
  /\ StageFits(k.cmd, k.pc)
  /\ k.pc = "idle" \/ Scanning => k = Idle
  /\ k.cmd \in {"none", "check", "burn"} => k.outs = {} /\ a = "none"
  /\ k.cmd \in {"none", "mint", "receive"} \/ k.pc \in {"read paid", "read unpaid"} => k.took = {}
  /\ k.cmd \in {"melt", "check"} => k.quote \in MeltQuotes
  /\ k.pc \in {"print", "mark"} => promised[t] = k.outs
  /\ k.cmd = "send" => k.give \subseteq k.took \cup k.outs

\* How far the mint can be with it.
AnswerFits(t, k, a) ==
  /\ promised[t] \subseteq k.outs
  /\ a \notin {"ok", "pending"} => promised[t] = {}
  /\ a \in {"taken", "pending"} => k.cmd = "melt"
  /\ a \in {"sent", "taken"} => k.pc \in {"asked", "unreserve", "failed", "crashed"}
  /\ a = "ok" /\ k.cmd # "melt" => promised[t] = k.outs
  /\ k.pc = "reserve" => a = "none"
  /\ k.pc \in {"bump", "store"} \/ (k.pc = "invalidate" /\ k.cmd \notin {"check", "burn"}) => a = "ok"

\* The mint has spent what is deleted, and what a payment that it made took.
SpendingFits(k, a) ==
  /\ a = "ok" /\ (k.pc = "asked" \/ (k.pc = "store" /\ k.cmd # "melt")) => k.took \subseteq spent
  /\ k.cmd = "melt" /\ meltQuote[k.quote] = "PAID" => k.took \subseteq spent
  /\ k.pc = "read paid" => meltQuote[k.quote] = "PAID"
  /\ k.ins \subseteq k.took
  /\ k.cmd # "melt" /\ k.pc \in {"asked", "store"} => k.ins = k.took
  /\ k.pc = "invalidate" => k.ins \subseteq spent

CommandsFit ==
  \A t \in Tasks : /\ StateFits(t, task[t], net[t]) /\ AnswerFits(t, task[t], net[t])
                   /\ SpendingFits(task[t], net[t])

\* One payment per quote, and none without; its outputs are not signed while it is in flight.
OnePayment ==
  /\ \A s, t \in Tasks :
       task[s].cmd = "melt" /\ task[t].cmd = "melt" /\ task[s].quote = task[t].quote => s = t
  /\ \A q \in MeltQuotes : meltQuote[q] # "UNPAID" =>
       \E t \in Tasks : task[t].cmd = "melt" /\ task[t].quote = q
  /\ \A t \in Tasks : InFlight(t) => task[t].outs \cap signed = {}
  /\ \A s, t \in Tasks : InFlight(s) /\ InFlight(t) /\ s # t => task[s].outs \cap task[t].outs = {}

\* A signature is given once, and the commands and the tables have only notes
\* that were signed.
SignedOnce ==
  /\ held \cup spent \cup handed \subseteq signed
  /\ \A t \in Tasks : task[t].took \cup promised[t] \subseteq signed
  /\ \A s, t \in Tasks : s # t => promised[s] \cap promised[t] = {}

\* What a command has yet to store of what it was promised nobody else has.
WillStore(k) ==
  \/ k.pc \in {"asked", "bump", "store"}
  \/ k.pc = "invalidate" /\ k.cmd = "melt"
NotesEnterOnce ==
  \A s \in Tasks : WillStore(task[s]) =>
    /\ promised[s] \cap (held \cup spent \cup handed) = {}
    /\ \A t \in Tasks : promised[s] \cap task[t].took = {}

\* What was promised and stored is held until it is spent.
HasStored(k) ==
  \/ k.pc \in {"print", "mark"}
  \/ k.pc = "invalidate" /\ k.cmd # "melt"
StoredIsHeld ==
  \A t \in Tasks : HasStored(task[t]) => promised[t] \subseteq held \cup spent

SignaturesAreAwaited ==
  \A i \in signed \ spent :
    \/ i \in held
    \/ \E t \in Tasks : i \in promised[t] /\ (task[t].pc # "done" \/ net[t] = "pending")
    \/ scan.pc # "none" /\ i >= scan.next

\* Spent notes that are held were taken by a command, but while a wallet is
\* restored.
SpentIsTaken ==
  /\ \A i \in handed : \E t \in Tasks : i \in task[t].took
  /\ \A i \in held \cap spent :
       (\E t \in Tasks : i \in task[t].took) \/ scan.pc \notin {"none", "done"} \/ i \in raised

\* What a restore has yet to invalidate, and its counter.
ScanFits ==
  /\ scan.ins \subseteq spent
  /\ Scanning => handed = {} /\ held \cap spent \subseteq scan.ins \cup raised /\ counter = scan.next
  /\ scan.pc = "batch" => scan.ins = {}

\* Where the outputs of a command k stand to a counter n: a mint command has
\* read it, the others have advanced it.
CounterIsFor(k, n) ==
  /\ k.cmd = "mint" => \E b \in 0 .. n : k.outs = b .. b + MintSize - 1
  /\ k.cmd # "mint" \/ k.pc \in {"store", "done"} => \A i \in k.outs : i < n
CounterFits ==
  scan.pc = "none" => CounterCoversSigned /\ \A t \in Tasks : CounterIsFor(task[t], counter)

\* What carries the id of a melt quote was taken by its payment.
MeltIdIsOfPayment ==
  \A i \in Index : meltId[i] # NoQuote =>
    \E t \in Tasks : task[t].cmd = "melt" /\ task[t].quote = meltId[i] /\ i \in task[t].took

\* What a command has dealt with, of the notes it took.
DealtWith(k) ==
  {i \in k.took :
     \/ k.pc = "invalidate" /\ i \notin k.ins
     \/ k.pc \in {"print", "mark"} /\ i \notin k.give
     \/ k.pc = "done"
     \/ k.cmd = "melt" /\ k.pc \in {"asked", "store"}
     \/ k.cmd = "check" /\ k.pc = "unreserve"}
\* A check that read UNPAID: it takes back the reservation of a payment's notes.
Undoes(k) == k.cmd = "check" /\ k.pc = "unreserve"
NothingIsLeft ==
  \A t \in Tasks : \A i \in DealtWith(task[t]) :
    \/ ~Undoes(task[t]) /\ (i \notin held \/ i \in reserved \/ i \in raised)
    \/ \E s \in Tasks : s # t /\ i \in task[s].took

WalletIInv ==
  /\ WalletTyped /\ CommandsFit /\ OnePayment /\ SignedOnce /\ NotesEnterOnce /\ StoredIsHeld
  /\ SignaturesAreAwaited /\ SpentIsTaken /\ ScanFits /\ CounterFits /\ MeltIdIsOfPayment
  /\ NothingIsLeft

(* Numbers *)

\* A set of numbers has a least, and one below a bound a greatest.
LEMMA LeastIsIn ==
  ASSUME NEW S, S \subseteq Nat, S # {}
  PROVE  Min(S) \in S
<1>1. PICK n \in S : \A m \in S : <<m, n>> \notin OpToRel(<, Nat)
  BY WFMin, NatLessThanWellFounded
<1>2. ASSUME NEW m \in S
      PROVE  n <= m
  <2>1. m \in Nat /\ n \in Nat
    OBVIOUS
  <2>2. m < n => <<m, n>> \in OpToRel(<, Nat)
    BY <2>1 DEF OpToRel
  <2>3. ~(m < n)
    BY <1>1, <1>2, <2>2
  <2>4. QED
    BY <2>1, <2>3
<1>3. QED
  BY <1>1, <1>2 DEF Min

\* A set of numbers that is bounded has a greatest.
LEMMA GreatestIsIn ==
  ASSUME NEW S, NEW bound \in Nat, S \subseteq 0 .. bound, S # {}
  PROVE  Max(S) \in S
<1> DEFINE T == {bound - k : k \in S}
<1>1. T \subseteq Nat /\ T # {}
  <2>1. \A k \in 0 .. bound : bound - k \in Nat
    OBVIOUS
  <2>2. QED
    BY <2>1
<1>2. PICK n \in T : \A m \in T : <<m, n>> \notin OpToRel(<, Nat)
  BY <1>1, WFMin, NatLessThanWellFounded
<1>3. PICK g \in S : n = bound - g
  OBVIOUS
<1>4. ASSUME NEW k \in S
      PROVE  k <= g
  <2>1. bound - k \in T /\ bound - k \in Nat /\ n \in Nat
    BY <1>1
  <2>2. bound - k < n => <<bound - k, n>> \in OpToRel(<, Nat)
    BY <2>1 DEF OpToRel
  <2>3. ~(bound - k < n)
    BY <1>2, <2>1, <2>2
  <2>4. k \in Int /\ g \in Int /\ bound \in Int
    OBVIOUS
  <2>5. ~(bound - k < bound - g)
    BY <1>3, <2>3
  <2>6. QED
    BY <2>4, <2>5
<1>5. QED
  BY <1>3, <1>4 DEF Max

\* An interval from b has as many numbers as it was drawn for.
LEMMA FreshHas ==
  ASSUME NEW b \in Nat, NEW n \in Nat
  PROVE  Cardinality(b .. b + n - 1) = n
BY FS_Interval

\* The lowest outputs are outputs.
LEMMA LowestAreSome ==
  ASSUME NEW S, NEW n
  PROVE  Lowest(S, n) \subseteq S
BY DEF Lowest

-----------------------------------------------------------------------------
\* The start.
LEMMA WalletStarts ==
  ASSUME WalletInit
  PROVE  WalletIInv
<1> USE WalletAssumption
<1>1. /\ task = [t \in Tasks |-> Idle] /\ net = [t \in Tasks |-> "none"]
      /\ promised = [t \in Tasks |-> {}] /\ handed = {} /\ reserved = {}
      /\ meltId = [i \in Index |-> NoQuote]
      /\ meltQuote = [q \in MeltQuotes |-> "UNPAID"]
  BY DEF WalletInit, Index
<1>2. \/ /\ counter = 2 /\ held = {0, 1} /\ signed = {0, 1} /\ spent = {} /\ scan = NoScan
      \/ /\ counter = 0 /\ held = {} /\ signed \in SUBSET Index /\ spent \subseteq signed
         /\ scan \in Scans /\ scan.pc = "batch" /\ scan.next = 0 /\ scan.ins = {}
  <2>1. CASE scan = NoScan /\ counter = 2 /\ held = {0, 1} /\ signed = {0, 1} /\ spent = {}
    BY <2>1
  <2>2. CASE counter = 0 /\ held = {} /\ scan = [NoScan EXCEPT !.pc = "batch"]
             /\ signed \in Backups /\ spent \in {{}, {0} \cap signed}
    <3>1. signed \in SUBSET Index /\ spent \subseteq signed
      BY <2>2 DEF Index
    <3>2. PICK none \in Scans : none.next = 0 /\ none.ins = {} /\ none = NoScan
      <4>1. NoScan \in Scans
        BY DEF NoScan, Scans
      <4>2. NoScan.next = 0 /\ NoScan.ins = {}
        BY DEF NoScan
      <4>3. QED
        BY <4>1, <4>2
    <3>3. scan = [none EXCEPT !.pc = "batch"]
      BY <2>2, <3>2
    <3>4. scan \in Scans /\ scan.pc = "batch" /\ scan.next = 0 /\ scan.ins = {}
      BY <3>2, <3>3 DEF Scans
    <3>5. QED
      BY <2>2, <3>1, <3>4
  <2>3. QED
    BY <2>1, <2>2 DEF WalletInit
<1>3. Idle \in TaskStates /\ Idle.cmd = "none" /\ Idle.pc = "idle" /\ Idle.took = {} /\ Idle.outs = {}
      /\ Idle.ins = {}
  BY DEF Idle, TaskStates, CommandStages, Quotes
<1>4. WalletTyped
  <2>1. {0, 1} \in SUBSET Index
    BY DEF Index
  <2>2. QED
    BY <1>1, <1>2, <1>3, <2>1 DEF WalletTyped, NoScan, Scans, Answers
<1>5. CommandsFit
  BY <1>1, <1>3 DEF CommandsFit, StateFits, StageFits, AnswerFits, SpendingFits
<1>6. OnePayment /\ NotesEnterOnce
  BY <1>1, <1>3 DEF OnePayment, NotesEnterOnce, InFlight, WillStore
<1>7. SignedOnce /\ StoredIsHeld
  BY <1>1, <1>2, <1>3 DEF SignedOnce, StoredIsHeld, HasStored
<1>8. ScanFits /\ CounterFits
  BY <1>1, <1>2, <1>3 DEF ScanFits, CounterFits, CounterIsFor, CounterCoversSigned, NoScan, Scanning
<1>9. SignaturesAreAwaited
  BY <1>1, <1>2, <1>3 DEF SignaturesAreAwaited, NoScan, Index
<1>10. SpentIsTaken
  BY <1>1, <1>2, <1>3 DEF SpentIsTaken, NoScan
<1>11. MeltIdIsOfPayment /\ NothingIsLeft
  BY <1>1, <1>3 DEF MeltIdIsOfPayment, NothingIsLeft, DealtWith
<1>12. QED
  BY <1>4, <1>5, <1>6, <1>7, <1>8, <1>9, <1>10, <1>11 DEF WalletIInv

-----------------------------------------------------------------------------
(* The commands' side *)

\* A command is k after its step, and a the answer to what it has sent.
Becomes(t, k, a) ==
  /\ t \in Tasks /\ k \in TaskStates /\ a \in Answers
  /\ task' = [task EXCEPT ![t] = k] /\ net' = [net EXCEPT ![t] = a]
  /\ UNCHANGED <<promised, scan, signed, spent, locked, meltQuote>>

\* It may be that if it keeps what it has, and has nothing that another is to
\* store.
Fitting(t, k, a) ==
  /\ ~Scanning /\ StateFits(t, k, a) /\ AnswerFits(t, k, a) /\ SpendingFits(k, a)
  /\ a \in {net[t], "sent"}
  /\ k.cmd = "melt" =>
       \/ task[t].cmd = "melt" /\ task[t].quote = k.quote /\ task[t].outs = k.outs
       \/ (\A s \in Tasks : task[s].quote # k.quote) /\ a = "none"
  /\ task[t].cmd = "melt" => k.cmd = "melt" /\ k.quote = task[t].quote
  /\ task[t].took \subseteq k.took /\ k.took \subseteq signed
  /\ \A s \in Tasks : WillStore(task[s]) => promised[s] \cap k.took = {}
  /\ WillStore(k) => WillStore(task[t]) \/ promised[t] = {}

\* And it leaves what it was promised and has spent in order.
MayBecome(t, k, a) ==
  /\ Fitting(t, k, a)
  /\ HasStored(k) => promised[t] \subseteq held \cup spent
  /\ k.pc = "done" /\ a # "pending" => promised[t] \subseteq held \cup spent

\* Then the commands still fit the mint, and payments their quotes.
LEMMA CommandsStillFit ==
  ASSUME WalletIInv, NEW t, NEW k, NEW a, Becomes(t, k, a), Fitting(t, k, a)
  PROVE  /\ CommandsFit' /\ OnePayment'
         /\ task' \in [Tasks -> TaskStates] /\ net' \in [Tasks -> Answers]
<1> USE DEF WalletIInv
<1>1. /\ t \in Tasks /\ k \in TaskStates /\ a \in Answers
      /\ task' = [task EXCEPT ![t] = k] /\ net' = [net EXCEPT ![t] = a]
      /\ promised' = promised /\ scan' = scan /\ signed' = signed /\ spent' = spent
      /\ meltQuote' = meltQuote
  BY DEF Becomes
<1>2. /\ task' \in [Tasks -> TaskStates] /\ net' \in [Tasks -> Answers]
      /\ task'[t] = k /\ net'[t] = a
      /\ \A s \in Tasks : s # t => task'[s] = task[s] /\ net'[s] = net[s]
  BY <1>1 DEF WalletTyped
<1>3. CommandsFit'
  <2>1. \A s \in Tasks : /\ StateFits(s, task'[s], net'[s]) /\ AnswerFits(s, task'[s], net'[s])
                         /\ SpendingFits(task'[s], net'[s])
    BY <1>2 DEF Fitting, CommandsFit
  <2>2. ASSUME NEW s \in Tasks
        PROVE  (StateFits(s, task[s], net[s]) /\ AnswerFits(s, task[s], net[s])
                /\ SpendingFits(task[s], net[s]))'
    <3>1. StateFits(s, task[s], net[s])'
      BY <1>1, <2>1 DEF StateFits, Scanning
    <3>2. AnswerFits(s, task[s], net[s])'
      BY <1>1, <2>1 DEF AnswerFits
    <3>3. SpendingFits(task[s], net[s])'
      BY <1>1, <2>1 DEF SpendingFits
    <3>4. QED
      BY <3>1, <3>2, <3>3
  <2>3. QED
    BY <2>2 DEF CommandsFit
<1>4. OnePayment'
  <2>1. ASSUME NEW s \in Tasks, InFlight(s)'
        PROVE  InFlight(s) /\ task'[s].outs = task[s].outs
    <3>1. CASE s = t
      BY <1>1, <1>2, <2>1, <3>1 DEF InFlight, Fitting
    <3>2. CASE s # t
      BY <1>1, <1>2, <2>1, <3>2 DEF InFlight
    <3>3. QED
      BY <3>1, <3>2
  <2>2. \A s, r \in Tasks :
          task'[s].cmd = "melt" /\ task'[r].cmd = "melt" /\ task'[s].quote = task'[r].quote => s = r
    BY <1>2 DEF OnePayment, Fitting
  <2>3. \A q \in MeltQuotes : meltQuote[q] # "UNPAID" =>
          \E s \in Tasks : task'[s].cmd = "melt" /\ task'[s].quote = q
    BY <1>1, <1>2 DEF OnePayment, Fitting
  <2>4. QED
    BY <1>1, <2>1, <2>2, <2>3 DEF OnePayment
<1>5. QED
  BY <1>2, <1>3, <1>4

\* A command that moves on, deletes spent rows and hands out what it took.
LEMMA CommandMoves ==
  ASSUME WalletIInv, NEW t, NEW k, NEW a, Becomes(t, k, a), MayBecome(t, k, a),
         held' \subseteq held, held \ held' \subseteq spent, raised \subseteq raised',
         handed \subseteq handed', handed' \subseteq handed \cup k.took
  PROVE  /\ CommandsFit' /\ OnePayment' /\ SignedOnce' /\ NotesEnterOnce' /\ StoredIsHeld'
         /\ SignaturesAreAwaited' /\ SpentIsTaken' /\ ScanFits'
         /\ task' \in [Tasks -> TaskStates] /\ net' \in [Tasks -> Answers]
<1> USE DEF WalletIInv
<1>1. /\ t \in Tasks /\ k \in TaskStates /\ a \in Answers
      /\ task' = [task EXCEPT ![t] = k] /\ net' = [net EXCEPT ![t] = a]
      /\ promised' = promised /\ scan' = scan /\ signed' = signed /\ spent' = spent
      /\ meltQuote' = meltQuote
  BY DEF Becomes
<1>2. /\ task' \in [Tasks -> TaskStates] /\ net' \in [Tasks -> Answers]
      /\ task'[t] = k /\ net'[t] = a
      /\ \A s \in Tasks : s # t => task'[s] = task[s] /\ net'[s] = net[s]
  BY <1>1 DEF WalletTyped
<1>3. Fitting(t, k, a)
  BY DEF MayBecome
<1>4. CommandsFit' /\ OnePayment'
  BY <1>3, CommandsStillFit
<1>5. SignedOnce'
  BY <1>1, <1>2 DEF SignedOnce, MayBecome, Fitting
<1>6. NotesEnterOnce'
  <2>1. ASSUME NEW s \in Tasks, WillStore(task'[s])
        PROVE  /\ WillStore(task[s]) \/ promised[s] = {}
               /\ (WillStore(task[s]) => promised[s] \cap k.took = {})
    BY <1>2, <2>1 DEF MayBecome, Fitting
  <2>2. QED
    BY <1>1, <1>2, <2>1 DEF NotesEnterOnce
<1>7. StoredIsHeld'
  <2>1. \A s \in Tasks : HasStored(task'[s]) => promised[s] \subseteq held \cup spent
    BY <1>2 DEF MayBecome, Fitting, StoredIsHeld
  <2>2. QED
    BY <1>1, <2>1 DEF StoredIsHeld
<1>8. SignaturesAreAwaited'
  <2>1. ASSUME NEW i \in signed \ spent
        PROVE  \/ i \in held
               \/ \E s \in Tasks : i \in promised[s] /\ (task'[s].pc # "done" \/ net'[s] = "pending")
               \/ scan.pc # "none" /\ i >= scan.next
    <3>1. CASE \E s \in Tasks : i \in promised[s] /\ (task[s].pc # "done" \/ net[s] = "pending")
      <4>1. PICK s \in Tasks : i \in promised[s] /\ (task[s].pc # "done" \/ net[s] = "pending")
        BY <3>1
      <4>2. CASE s = t
        <5>1. net[t] = "pending" => a = "pending"
          BY <1>1, <4>1, <4>2 DEF MayBecome, Fitting, CommandsFit, AnswerFits
        <5>2. QED
          BY <1>2, <2>1, <4>1, <4>2, <5>1 DEF MayBecome, Fitting
      <4>3. QED
        BY <1>2, <4>1, <4>2
    <3>2. QED
      BY <3>1 DEF SignaturesAreAwaited
  <2>2. QED
    BY <1>1, <2>1 DEF SignaturesAreAwaited
<1>9. SpentIsTaken'
  <2>1. \A i : (\E s \in Tasks : i \in task[s].took) => \E s \in Tasks : i \in task'[s].took
    BY <1>2 DEF MayBecome, Fitting
  <2>2. QED
    BY <1>1, <1>2, <2>1 DEF SpentIsTaken
<1>10. ScanFits'
  BY <1>1 DEF ScanFits, MayBecome, Fitting, Scanning
<1>11. QED
  BY <1>2, <1>3, <1>4, <1>5, <1>6, <1>7, <1>8, <1>9, <1>10

\* The counter is ahead of what the command asks for.
LEMMA CounterMoves ==
  ASSUME WalletIInv, NEW t, NEW k, NEW a, Becomes(t, k, a),
         counter' \in Nat, scan.pc = "none" => counter' >= counter /\ CounterIsFor(k, counter'),
         task[t].cmd = "mint" => k.cmd = "mint" /\ k.outs = task[t].outs
  PROVE  CounterFits'
<1> USE DEF WalletIInv
<1>1. /\ t \in Tasks /\ task' = [task EXCEPT ![t] = k] /\ scan' = scan /\ signed' = signed
      /\ k \in TaskStates
  BY DEF Becomes
<1>2. /\ task'[t] = k /\ \A s \in Tasks : s # t => task'[s] = task[s]
      /\ task \in [Tasks -> TaskStates] /\ counter \in Nat /\ signed \subseteq Nat
  BY <1>1, WalletAssumption DEF WalletTyped, Index
<1> SUFFICES ASSUME scan.pc = "none"
             PROVE  CounterCoversSigned' /\ \A s \in Tasks : CounterIsFor(task'[s], counter')
  <2>1. \A s \in Tasks : CounterIsFor(task[s], counter)' <=> CounterIsFor(task'[s], counter')
    BY DEF CounterIsFor
  <2>2. QED
    BY <1>1, <2>1 DEF CounterFits
<1>3. \A s \in Tasks : CounterIsFor(task[s], counter)
  BY DEF CounterFits
<1>4. ASSUME NEW s \in Tasks
      PROVE  CounterIsFor(task'[s], counter')
  <2>1. CASE s = t
    BY <1>2, <2>1
  <2>2. CASE s # t
    <3>1. task[s].outs \subseteq Nat
      BY <1>2, WalletAssumption DEF TaskStates, Index
    <3>2. QED
      BY <1>2, <1>3, <2>2, <3>1 DEF CounterIsFor
  <2>3. QED
    BY <2>1, <2>2
<1>5. ASSUME NEW i \in signed
      PROVE  \/ i < counter'
             \/ \E s \in Tasks : i \in task'[s].outs /\ task'[s].cmd = "mint" /\ task'[s].pc # "done"
  <2>1. CASE i < counter
    BY <1>2, <2>1
  <2>2. CASE \E s \in Tasks : i \in task[s].outs /\ task[s].cmd = "mint" /\ task[s].pc # "done"
    <3>1. PICK s \in Tasks : i \in task[s].outs /\ task[s].cmd = "mint" /\ task[s].pc # "done"
      BY <2>2
    <3>2. CASE s = t /\ k.pc = "done"
      BY <1>2, <3>1, <3>2 DEF CounterIsFor
    <3>3. QED
      BY <1>2, <3>1, <3>2
  <2>3. QED
    BY <2>1, <2>2 DEF CounterFits, CounterCoversSigned
<1>6. QED
  BY <1>1, <1>4, <1>5 DEF CounterCoversSigned

\* A step of a command keeps the invariant, if the tables and the counter change
\* for what it took and asks for.
LEMMA CommandSteps ==
  ASSUME WalletIInv, NEW t, NEW k, NEW a, Becomes(t, k, a), MayBecome(t, k, a),
         held' \subseteq held, held \ held' \subseteq spent, reserved' \subseteq held',
         raised \subseteq raised', handed \subseteq handed', handed' \subseteq handed \cup k.took,
         counter' \in Nat, scan.pc = "none" => counter' >= counter /\ CounterIsFor(k, counter'),
         task[t].cmd = "mint" => k.cmd = "mint" /\ k.outs = task[t].outs,
         meltId' \in [Index -> MeltQuotes \cup {NoQuote}],
         \A i \in Index : meltId'[i] # NoQuote =>
           \/ meltId'[i] = meltId[i]
           \/ k.cmd = "melt" /\ k.quote = meltId'[i] /\ i \in k.took,
         \A i \in reserved \ reserved' : i \in k.took \/ i \notin held',
         \A i \in DealtWith(k) :
           \/ i \notin held' \/ i \in reserved' \/ i \in raised'
           \/ \E s \in Tasks : s # t /\ i \in task[s].took,
         Undoes(k) => \A i \in DealtWith(k) : \E s \in Tasks : s # t /\ i \in task[s].took
  PROVE  WalletIInv'
<1>1. /\ t \in Tasks /\ k \in TaskStates /\ task' = [task EXCEPT ![t] = k]
      /\ UNCHANGED <<promised, scan, signed, meltQuote>>
      /\ task[t].took \subseteq k.took
      /\ task[t].cmd = "melt" => k.cmd = "melt" /\ k.quote = task[t].quote
  BY DEF Becomes, MayBecome, Fitting
<1>2. /\ task'[t] = k /\ \A s \in Tasks : s # t => task'[s] = task[s]
  BY <1>1 DEF WalletIInv, WalletTyped
<1>3. /\ CommandsFit' /\ OnePayment' /\ SignedOnce' /\ NotesEnterOnce' /\ StoredIsHeld'
      /\ SignaturesAreAwaited' /\ SpentIsTaken' /\ ScanFits'
      /\ task' \in [Tasks -> TaskStates] /\ net' \in [Tasks -> Answers]
  BY CommandMoves
<1>4. WalletTyped'
  BY <1>1, <1>3 DEF WalletIInv, WalletTyped
<1>5. CounterFits'
  BY CounterMoves
<1>6. MeltIdIsOfPayment'
  <2>1. ASSUME NEW i \in Index, meltId'[i] # NoQuote
        PROVE  \E s \in Tasks : task'[s].cmd = "melt" /\ task'[s].quote = meltId'[i] /\ i \in task'[s].took
    <3>1. CASE k.cmd = "melt" /\ k.quote = meltId'[i] /\ i \in k.took
      BY <1>1, <1>2, <3>1
    <3>2. CASE meltId'[i] = meltId[i]
      <4>1. PICK s \in Tasks : task[s].cmd = "melt" /\ task[s].quote = meltId[i] /\ i \in task[s].took
        BY <2>1, <3>2 DEF WalletIInv, MeltIdIsOfPayment
      <4>2. QED
        BY <1>1, <1>2, <3>2, <4>1
    <3>3. QED
      BY <2>1, <3>1, <3>2
  <2>2. QED
    BY <2>1 DEF MeltIdIsOfPayment
<1>7. NothingIsLeft'
  <2>1. ASSUME NEW s \in Tasks, NEW i \in DealtWith(task'[s])
        PROVE  \/ ~Undoes(task'[s]) /\ (i \notin held' \/ i \in reserved' \/ i \in raised')
               \/ \E r \in Tasks : r # s /\ i \in task'[r].took
    <3>1. CASE s = t
      BY <1>2, <2>1, <3>1
    <3>2. CASE s # t
      <4>1. \/ ~Undoes(task[s]) /\ (i \notin held \/ i \in reserved \/ i \in raised)
            \/ \E r \in Tasks : r # s /\ i \in task[r].took
        BY <1>2, <2>1, <3>2 DEF WalletIInv, NothingIsLeft
      <4>2. CASE (i \in reserved \/ i \in raised) /\ ~Undoes(task[s])
        BY <1>1, <1>2, <3>2, <4>2
      <4>3. CASE \E r \in Tasks : r # s /\ i \in task[r].took
        BY <1>1, <1>2, <4>3
      <4>4. CASE i \notin held /\ ~Undoes(task[s])
        BY <1>2, <3>2, <4>4
      <4>5. QED
        BY <4>1, <4>2, <4>3, <4>4
    <3>3. QED
      BY <3>1, <3>2
  <2>2. \A s \in Tasks : \A i \in DealtWith(task'[s]) :
          \/ ~Undoes(task'[s]) /\ (i \notin held' \/ i \in reserved' \/ i \in raised')
          \/ \E r \in Tasks : r # s /\ i \in task'[r].took
    BY <2>1
  <2>3. \A s \in Tasks : DealtWith(task[s])' = DealtWith(task'[s]) /\ (Undoes(task[s])' <=> Undoes(task'[s]))
    BY DEF DealtWith, Undoes
  <2>4. QED
    BY <2>2, <2>3 DEF NothingIsLeft
<1>8. QED
  BY <1>3, <1>4, <1>5, <1>6, <1>7 DEF WalletIInv

\* A command that has not begun has asked for nothing.
LEMMA IdleIsIdle ==
  ASSUME WalletIInv, NEW t \in Tasks, CanStart(t)
  PROVE  /\ task[t] = Idle /\ net[t] = "none" /\ promised[t] = {} /\ ~Scanning
         /\ Idle \in TaskStates /\ Idle.pc = "idle" /\ Idle.cmd = "none" /\ Idle.quote = NoQuote
         /\ Idle.took = {} /\ Idle.ins = {} /\ Idle.outs = {} /\ Idle.give = {}
<1>1. /\ Idle \in TaskStates /\ Idle.pc = "idle" /\ Idle.cmd = "none" /\ Idle.quote = NoQuote
      /\ Idle.took = {} /\ Idle.ins = {} /\ Idle.outs = {} /\ Idle.give = {}
  BY DEF Idle, TaskStates, CommandStages, Quotes
<1>2. task[t] = Idle /\ net[t] = "none" /\ ~Scanning
  BY <1>1 DEF CanStart, WalletIInv, CommandsFit, StateFits, Scanning
<1>3. promised[t] = {}
  BY <1>2 DEF WalletIInv, CommandsFit, AnswerFits
<1>4. QED
  BY <1>1, <1>2, <1>3

\* A command starts with notes that are held.
LEMMA CommandStarts ==
  ASSUME WalletIInv, NEW t \in Tasks, CanStart(t), NEW k \in TaskStates, NEW a \in {"none", "sent"},
         task' = [task EXCEPT ![t] = k], net' = [net EXCEPT ![t] = a],
         rows' = rows, mint' = mint, scan' = scan, handed' = handed /\ raised' = raised, promised' = promised,
         StateFits(t, k, a), AnswerFits(t, k, a), SpendingFits(k, a), k.took \subseteq held,
         k.cmd = "melt" => a = "none" /\ \A s \in Tasks : task[s].quote # k.quote,
         counter' \in Nat, scan.pc = "none" => counter' >= counter /\ CounterIsFor(k, counter'),
         DealtWith(k) = {}
  PROVE  WalletIInv'
<1> USE DEF WalletIInv
<1>1. /\ task[t] = Idle /\ net[t] = "none" /\ promised[t] = {} /\ ~Scanning
      /\ task[t].took = {} /\ task[t].cmd = "none"
  BY IdleIsIdle
<1>2. /\ held' = held /\ reserved' = reserved /\ meltId' = meltId /\ handed' = handed /\ raised' = raised
      /\ UNCHANGED <<promised, scan, signed, spent, locked, meltQuote>>
  BY DEF rows, mint
<1>3. Becomes(t, k, a)
  BY <1>2 DEF Becomes, Answers
<1>4. k.took \subseteq signed /\ \A s \in Tasks : WillStore(task[s]) => promised[s] \cap k.took = {}
  BY DEF SignedOnce, NotesEnterOnce
<1>5. MayBecome(t, k, a)
  BY <1>1, <1>4 DEF MayBecome, Fitting
<1>6. meltId' \in [Index -> MeltQuotes \cup {NoQuote}] /\ reserved' \subseteq held'
  BY <1>2 DEF WalletTyped
<1>7. QED
  BY <1>1, <1>2, <1>3, <1>5, <1>6, CommandSteps

\* Outputs are drawn from the counter.
LEMMA FreshOutsAreIndexes ==
  ASSUME WalletIInv, NEW n \in Nat, counter + n <= MaxIndex
  PROVE  /\ FreshOuts(n) \in SUBSET Index /\ \A i \in FreshOuts(n) : i < counter + n
         /\ counter \in 0 .. counter /\ counter + n \in Nat /\ counter + n >= counter
BY WalletAssumption DEF WalletIInv, WalletTyped, Index, FreshOuts

\* mint reads the counter and asks.
LEMMA MintTokensKeeps ==
  ASSUME WalletIInv, NEW t \in Tasks, NEW q \in MintQuotes, MintTokens(t, q)
  PROVE  WalletIInv'
<1> DEFINE outs == FreshOuts(MintSize)
<1>1. /\ CanStart(t) /\ counter' = counter
      /\ rows' = rows /\ mint' = mint /\ scan' = scan /\ handed' = handed /\ raised' = raised /\ promised' = promised
      /\ counter \in Nat /\ outs \in SUBSET Index /\ counter \in 0 .. counter
  BY FreshOutsAreIndexes, WalletAssumption DEF MintTokens, WalletIInv, WalletTyped
<1>2. PICK idle \in TaskStates : idle = Idle
  BY <1>1, IdleIsIdle
<1>3. /\ task[t] = idle /\ net[t] = "none" /\ promised[t] = {} /\ ~Scanning
      /\ idle.cmd = "none" /\ idle.took = {} /\ idle.outs = {} /\ idle.give = {} /\ idle.ins = {}
  BY <1>1, <1>2, IdleIsIdle
<1>4. CASE GoTo(t, "failed") /\ UNCHANGED net
  <2>1. PICK k : k = [idle EXCEPT !.pc = "failed"]
    OBVIOUS
  <2>2. /\ k \in TaskStates /\ k.pc = "failed" /\ k.cmd = "none" /\ k.took = {} /\ k.outs = {}
        /\ k.ins = {}
    BY <1>3, <2>1 DEF TaskStates, CommandStages
  <2>3. task' = [task EXCEPT ![t] = k] /\ net' = [net EXCEPT ![t] = "none"]
    BY <1>3, <1>4, <2>1 DEF GoTo, WalletIInv, WalletTyped
  <2>4. /\ StateFits(t, k, "none") /\ AnswerFits(t, k, "none") /\ SpendingFits(k, "none")
        /\ DealtWith(k) = {} /\ CounterIsFor(k, counter')
    BY <1>3, <2>2 DEF StateFits, StageFits, AnswerFits, SpendingFits, DealtWith, CounterIsFor
  <2>5. k.took \subseteq held /\ counter' >= counter /\ counter' \in Nat /\ k.cmd # "melt"
    BY <1>1, <2>2
  <2>6. QED
    BY <1>1, <2>2, <2>3, <2>4, <2>5, CommandStarts
<1>5. CASE /\ task' = [task EXCEPT ![t] = [Idle EXCEPT !.pc = "asked", !.cmd = "mint",
                                                      !.quote = q, !.outs = outs]]
           /\ Post(t)
  <2>1. PICK k : k = [idle EXCEPT !.pc = "asked", !.cmd = "mint", !.quote = q, !.outs = outs]
    OBVIOUS
  <2>2. /\ k \in TaskStates /\ k.pc = "asked" /\ k.cmd = "mint" /\ k.took = {} /\ k.outs = outs
        /\ k.ins = {}
    BY <1>1, <1>3, <2>1 DEF TaskStates, CommandStages, Quotes
  <2>3. task' = [task EXCEPT ![t] = k] /\ net' = [net EXCEPT ![t] = "sent"]
    BY <1>2, <1>5, <2>1 DEF Post
  <2>4. /\ StateFits(t, k, "sent") /\ AnswerFits(t, k, "sent") /\ SpendingFits(k, "sent")
        /\ DealtWith(k) = {}
    BY <1>3, <2>2 DEF StateFits, StageFits, AnswerFits, SpendingFits, DealtWith
  <2>5. CounterIsFor(k, counter')
    BY <1>1, <2>2 DEF CounterIsFor, FreshOuts
  <2>6. k.took \subseteq held /\ counter' >= counter /\ counter' \in Nat /\ k.cmd # "melt"
    BY <1>1, <2>2
  <2>7. QED
    BY <1>1, <2>2, <2>3, <2>4, <2>5, <2>6, CommandStarts
<1>6. QED
  BY <1>4, <1>5 DEF MintTokens

\* split draws its outputs from the counter and asks.
LEMMA SplitKeeps ==
  ASSUME WalletIInv, NEW t \in Tasks, NEW cmd \in {"receive", "send"}, NEW ins, NEW n \in Nat, NEW sent,
         ins \subseteq held, cmd = "receive" => ins = {}, Split(t, cmd, ins, n, sent)
  PROVE  WalletIInv'
<1> DEFINE outs == FreshOuts(n)
<1>1. /\ CanStart(t) /\ counter' = counter + n
      /\ rows' = rows /\ mint' = mint /\ scan' = scan /\ handed' = handed /\ raised' = raised /\ promised' = promised
      /\ counter' \in Nat /\ counter' >= counter
      /\ outs \in SUBSET Index /\ \A i \in outs : i < counter'
  BY FreshOutsAreIndexes DEF Split, BumpSecretDerivation
<1>2. PICK idle \in TaskStates : idle = Idle
  BY <1>1, IdleIsIdle
<1>3. /\ task[t] = idle /\ net[t] = "none" /\ promised[t] = {} /\ ~Scanning
      /\ idle.cmd = "none" /\ idle.took = {} /\ idle.outs = {} /\ idle.give = {} /\ idle.ins = {}
  BY <1>1, <1>2, IdleIsIdle
<1>4. CASE GoTo(t, "failed") /\ UNCHANGED net
  <2>1. PICK k : k = [idle EXCEPT !.pc = "failed"]
    OBVIOUS
  <2>2. /\ k \in TaskStates /\ k.pc = "failed" /\ k.cmd = "none" /\ k.took = {} /\ k.outs = {}
        /\ k.ins = {}
    BY <1>3, <2>1 DEF TaskStates, CommandStages
  <2>3. task' = [task EXCEPT ![t] = k] /\ net' = [net EXCEPT ![t] = "none"]
    BY <1>3, <1>4, <2>1 DEF GoTo, WalletIInv, WalletTyped
  <2>4. /\ StateFits(t, k, "none") /\ AnswerFits(t, k, "none") /\ SpendingFits(k, "none")
        /\ DealtWith(k) = {} /\ CounterIsFor(k, counter')
    BY <1>3, <2>2 DEF StateFits, StageFits, AnswerFits, SpendingFits, DealtWith, CounterIsFor
  <2>5. k.took \subseteq held /\ k.cmd # "melt"
    BY <2>2
  <2>6. QED
    BY <1>1, <2>2, <2>3, <2>4, <2>5, CommandStarts
<1>5. CASE /\ task' = [task EXCEPT ![t] =
                         [Idle EXCEPT !.pc = "asked", !.cmd = cmd, !.took = ins, !.ins = ins,
                                      !.outs = outs, !.give = outs \ Lowest(outs, n - sent)]]
           /\ Post(t)
  <2>1. PICK give : give = outs \ Lowest(outs, n - sent)
    OBVIOUS
  <2>2. PICK k : k = [idle EXCEPT !.pc = "asked", !.cmd = cmd, !.took = ins, !.ins = ins,
                                  !.outs = outs, !.give = give]
    OBVIOUS
  <2>3. ins \in SUBSET Index /\ give \in SUBSET Index /\ give \subseteq outs
    BY <1>1, <2>1 DEF WalletIInv, WalletTyped
  <2>4. /\ k \in TaskStates /\ k.pc = "asked" /\ k.cmd = cmd /\ k.took = ins /\ k.outs = outs
        /\ k.give = give /\ k.ins = ins
    BY <1>1, <1>3, <2>2, <2>3 DEF TaskStates, CommandStages
  <2>5. task' = [task EXCEPT ![t] = k] /\ net' = [net EXCEPT ![t] = "sent"]
    BY <1>2, <1>5, <2>1, <2>2 DEF Post
  <2>6. /\ StateFits(t, k, "sent") /\ AnswerFits(t, k, "sent") /\ SpendingFits(k, "sent")
        /\ DealtWith(k) = {} /\ CounterIsFor(k, counter')
    BY <1>1, <1>3, <2>3, <2>4
       DEF StateFits, StageFits, AnswerFits, SpendingFits, DealtWith, CounterIsFor
  <2>7. k.took \subseteq held /\ k.cmd # "melt"
    BY <2>4
  <2>8. QED
    BY <1>1, <2>4, <2>5, <2>6, <2>7, CommandStarts
<1>6. QED
  BY <1>4, <1>5 DEF Split

\* receive and a send that needs change split.
LEMMA RedeemAndSwapKeep ==
  ASSUME WalletIInv, NEW t \in Tasks, Redeem(t) \/ SwapToSend(t)
  PROVE  WalletIInv'
<1>1. CASE Redeem(t)
  BY <1>1, SplitKeeps DEF Redeem
<1>2. CASE SwapToSend(t)
  <2>1. PICK S \in SUBSET Available : Split(t, "send", S, Cardinality(S), 1)
    BY <1>2 DEF SwapToSend
  <2>2. S \subseteq held /\ Cardinality(S) \in Nat
    <3>1. IsFiniteSet(Index)
      BY WalletAssumption, FS_Interval DEF Index
    <3>2. S \subseteq Index /\ S \subseteq held
      BY DEF Available, WalletIInv, WalletTyped
    <3>3. QED
      BY <3>1, <3>2, FS_Subset, FS_CardinalityType
  <2>3. QED
    BY <2>1, <2>2, SplitKeeps
<1>3. QED
  BY <1>1, <1>2

\* A send that needs none takes its notes from the table.
LEMMA SelectToSendKeeps ==
  ASSUME WalletIInv, NEW t \in Tasks, SelectToSend(t)
  PROVE  WalletIInv'
<1>1. /\ CanStart(t) /\ counter' = counter /\ net' = net
      /\ rows' = rows /\ mint' = mint /\ scan' = scan /\ handed' = handed /\ raised' = raised /\ promised' = promised
      /\ counter' \in Nat /\ counter' >= counter
  BY DEF SelectToSend, WalletIInv, WalletTyped, wire
<1>2. PICK S \in SUBSET Available :
        task' = [task EXCEPT ![t] = [Idle EXCEPT !.pc = "print", !.cmd = "send", !.took = S, !.give = S]]
  BY DEF SelectToSend
<1>3. PICK idle \in TaskStates : idle = Idle
  BY <1>1, IdleIsIdle
<1>4. /\ task[t] = idle /\ net[t] = "none" /\ promised[t] = {} /\ ~Scanning
      /\ idle.cmd = "none" /\ idle.took = {} /\ idle.outs = {} /\ idle.give = {} /\ idle.ins = {}
  BY <1>1, <1>3, IdleIsIdle
<1>5. PICK k : k = [idle EXCEPT !.pc = "print", !.cmd = "send", !.took = S, !.give = S]
  OBVIOUS
<1>6. S \in SUBSET Index /\ S \subseteq held
  BY DEF Available, WalletIInv, WalletTyped
<1>7. /\ k \in TaskStates /\ k.pc = "print" /\ k.cmd = "send" /\ k.took = S /\ k.outs = {} /\ k.give = S
      /\ k.ins = {}
  BY <1>4, <1>5, <1>6 DEF TaskStates, CommandStages
<1>8. task' = [task EXCEPT ![t] = k] /\ net' = [net EXCEPT ![t] = "none"]
  BY <1>1, <1>2, <1>3, <1>4, <1>5 DEF WalletIInv, WalletTyped
<1>9. /\ StateFits(t, k, "none") /\ AnswerFits(t, k, "none") /\ SpendingFits(k, "none")
      /\ DealtWith(k) = {} /\ CounterIsFor(k, counter')
  BY <1>4, <1>7 DEF StateFits, StageFits, AnswerFits, SpendingFits, DealtWith, CounterIsFor
<1>10. k.took \subseteq held /\ k.cmd # "melt"
  BY <1>6, <1>7
<1>11. QED
  BY <1>1, <1>7, <1>8, <1>9, <1>10, CommandStarts

\* pay takes its notes and draws the blank outputs.
LEMMA PayInvoiceKeeps ==
  ASSUME WalletIInv, NEW t \in Tasks, NEW q \in MeltQuotes, PayInvoice(t, q)
  PROVE  WalletIInv'
<1> DEFINE outs == FreshOuts(BlankOutputs)
<1>1. /\ CanStart(t) /\ net' = net
      /\ rows' = rows /\ mint' = mint /\ scan' = scan /\ handed' = handed /\ raised' = raised /\ promised' = promised
      /\ \A s \in Tasks : task[s].quote # q
  BY DEF PayInvoice, wire
<1>2. /\ counter' \in Nat /\ counter' >= counter
      /\ outs \in SUBSET Index /\ \A i \in outs : i < counter'
  BY FreshOutsAreIndexes, WalletAssumption DEF PayInvoice, BumpSecretDerivation
<1>3. PICK S \in SUBSET Available :
        task' = [task EXCEPT ![t] =
                   [Idle EXCEPT !.pc = "reserve", !.cmd = "melt", !.quote = q, !.took = S,
                                !.ins = S, !.outs = outs]]
  BY DEF PayInvoice
<1>4. PICK idle \in TaskStates : idle = Idle
  BY <1>1, IdleIsIdle
<1>5. /\ task[t] = idle /\ net[t] = "none" /\ promised[t] = {} /\ ~Scanning
      /\ idle.cmd = "none" /\ idle.took = {} /\ idle.outs = {} /\ idle.give = {} /\ idle.ins = {}
  BY <1>1, <1>4, IdleIsIdle
<1>6. PICK k : k = [idle EXCEPT !.pc = "reserve", !.cmd = "melt", !.quote = q, !.took = S,
                                !.ins = S, !.outs = outs]
  OBVIOUS
<1>7. S \in SUBSET Index /\ S \subseteq held
  BY DEF Available, WalletIInv, WalletTyped
<1>8. /\ k \in TaskStates /\ k.pc = "reserve" /\ k.cmd = "melt" /\ k.took = S /\ k.outs = outs
      /\ k.quote = q /\ k.ins = S
  BY <1>2, <1>5, <1>6, <1>7 DEF TaskStates, CommandStages, Quotes
<1>9. task' = [task EXCEPT ![t] = k] /\ net' = [net EXCEPT ![t] = "none"]
  BY <1>1, <1>3, <1>4, <1>5, <1>6 DEF WalletIInv, WalletTyped
<1>10. /\ StateFits(t, k, "none") /\ AnswerFits(t, k, "none")
       /\ DealtWith(k) = {} /\ CounterIsFor(k, counter')
  BY <1>2, <1>5, <1>8 DEF StateFits, StageFits, AnswerFits, DealtWith, CounterIsFor
<1>11. k.took \subseteq held /\ \A s \in Tasks : task[s].quote # k.quote
  BY <1>1, <1>7, <1>8
<1>12. SpendingFits(k, "none")
  <2>1. meltQuote[q] = "UNPAID"
    BY <1>1 DEF WalletIInv, OnePayment
  <2>2. QED
    BY <1>8, <2>1 DEF SpendingFits
<1>13. QED
  BY <1>1, <1>2, <1>8, <1>9, <1>10, <1>11, <1>12, CommandStarts

\* A check of a melt quote reads what the mint says.
LEMMA GetMeltQuoteKeeps ==
  ASSUME WalletIInv, NEW t \in Tasks, NEW q \in MeltQuotes, GetMeltQuote(t, q)
  PROVE  WalletIInv'
<1>1. /\ CanStart(t) /\ counter' = counter /\ net' = net
      /\ rows' = rows /\ mint' = mint /\ scan' = scan /\ handed' = handed /\ raised' = raised /\ promised' = promised
      /\ counter' \in Nat /\ counter' >= counter
  BY DEF GetMeltQuote, WalletIInv, WalletTyped, wire
<1>2. PICK p : p = CASE meltQuote[q] = "PAID" -> "read paid"
                     [] meltQuote[q] = "UNPAID" -> "read unpaid"
                     [] OTHER -> "done"
  OBVIOUS
<1>3. p \in {"read paid", "read unpaid", "done"}
  BY <1>2
<1>4. PICK idle \in TaskStates : idle = Idle
  BY <1>1, IdleIsIdle
<1>5. /\ task[t] = idle /\ net[t] = "none" /\ promised[t] = {} /\ ~Scanning
      /\ idle.cmd = "none" /\ idle.took = {} /\ idle.outs = {} /\ idle.give = {} /\ idle.ins = {}
  BY <1>1, <1>4, IdleIsIdle
<1>6. PICK k : k = [idle EXCEPT !.cmd = "check", !.quote = q, !.pc = p]
  OBVIOUS
<1>7. /\ k \in TaskStates /\ k.pc = p /\ k.cmd = "check" /\ k.took = {} /\ k.outs = {} /\ k.quote = q
      /\ k.ins = {}
  BY <1>3, <1>5, <1>6 DEF TaskStates, CommandStages, Quotes
<1>8. task' = [task EXCEPT ![t] = k] /\ net' = [net EXCEPT ![t] = "none"]
  BY <1>1, <1>2, <1>4, <1>5, <1>6 DEF GetMeltQuote, WalletIInv, WalletTyped
<1>9. /\ StateFits(t, k, "none") /\ AnswerFits(t, k, "none") /\ SpendingFits(k, "none")
      /\ DealtWith(k) = {} /\ CounterIsFor(k, counter')
  BY <1>2, <1>3, <1>5, <1>7 DEF StateFits, StageFits, AnswerFits, SpendingFits, DealtWith,
     CounterIsFor
<1>10. k.took \subseteq held /\ k.cmd # "melt"
  BY <1>7
<1>11. QED
  BY <1>1, <1>7, <1>8, <1>9, <1>10, CommandStarts

\* burn takes what the mint calls spent.
LEMMA BurnKeeps ==
  ASSUME WalletIInv, NEW t \in Tasks, Burn(t)
  PROVE  WalletIInv'
<1>1. /\ CanStart(t) /\ counter' = counter /\ net' = net
      /\ rows' = rows /\ mint' = mint /\ scan' = scan /\ handed' = handed /\ raised' = raised /\ promised' = promised
      /\ counter' \in Nat /\ counter' >= counter
  BY DEF Burn, WalletIInv, WalletTyped, wire
<1>2. PICK S \in {held, reserved} :
        task' = [task EXCEPT ![t] = [Idle EXCEPT !.pc = "invalidate", !.cmd = "burn",
                                       !.took = S \cap spent, !.ins = S \cap spent]]
  BY DEF Burn
<1>3. PICK B : B = S \cap spent
  OBVIOUS
<1>4. PICK idle \in TaskStates : idle = Idle
  BY <1>1, IdleIsIdle
<1>5. /\ task[t] = idle /\ net[t] = "none" /\ promised[t] = {} /\ ~Scanning
      /\ idle.cmd = "none" /\ idle.took = {} /\ idle.outs = {} /\ idle.give = {} /\ idle.ins = {}
  BY <1>1, <1>4, IdleIsIdle
<1>6. PICK k : k = [idle EXCEPT !.pc = "invalidate", !.cmd = "burn", !.took = B, !.ins = B]
  OBVIOUS
<1>7. B \in SUBSET Index /\ B \subseteq held /\ B \subseteq spent
  BY <1>3 DEF WalletIInv, WalletTyped
<1>8. /\ k \in TaskStates /\ k.pc = "invalidate" /\ k.cmd = "burn" /\ k.took = B /\ k.outs = {}
      /\ k.ins = B
  BY <1>5, <1>6, <1>7 DEF TaskStates, CommandStages
<1>9. task' = [task EXCEPT ![t] = k] /\ net' = [net EXCEPT ![t] = "none"]
  BY <1>1, <1>2, <1>3, <1>4, <1>5, <1>6 DEF WalletIInv, WalletTyped
<1>10. /\ StateFits(t, k, "none") /\ AnswerFits(t, k, "none") /\ SpendingFits(k, "none")
       /\ DealtWith(k) = {} /\ CounterIsFor(k, counter')
  BY <1>5, <1>7, <1>8 DEF StateFits, StageFits, AnswerFits, SpendingFits, DealtWith, CounterIsFor
<1>11. k.took \subseteq held /\ k.cmd # "melt"
  BY <1>7, <1>8
<1>12. QED
  BY <1>1, <1>8, <1>9, <1>10, <1>11, CommandStarts

\* A command goes on, and leaves the tables alone.
LEMMA CommandGoesOn ==
  ASSUME WalletIInv, NEW t \in Tasks, NEW k \in TaskStates, MayBecome(t, k, net[t]),
         task' = [task EXCEPT ![t] = k], net' = net,
         rows' = rows, mint' = mint, scan' = scan, handed' = handed /\ raised' = raised, promised' = promised,
         counter' \in Nat, scan.pc = "none" => counter' >= counter /\ CounterIsFor(k, counter'),
         task[t].cmd = "mint" => k.cmd = "mint" /\ k.outs = task[t].outs,
         \A i \in DealtWith(k) :
           i \in DealtWith(task[t]) \/ \E s \in Tasks : s # t /\ i \in task[s].took,
         Undoes(k) => \A i \in DealtWith(k) : \E s \in Tasks : s # t /\ i \in task[s].took
  PROVE  WalletIInv'
<1>1. /\ held' = held /\ reserved' = reserved /\ meltId' = meltId /\ handed' = handed /\ raised' = raised
      /\ UNCHANGED <<promised, scan, signed, spent, locked, meltQuote>>
  BY DEF rows, mint
<1>2. net[t] \in Answers /\ net' = [net EXCEPT ![t] = net[t]]
  BY DEF WalletIInv, WalletTyped
<1>3. Becomes(t, k, net[t])
  BY <1>1, <1>2 DEF Becomes
<1>4. meltId' \in [Index -> MeltQuotes \cup {NoQuote}] /\ reserved' \subseteq held'
  BY <1>1 DEF WalletIInv, WalletTyped
<1>5. \A i \in DealtWith(k) :
        \/ i \notin held' \/ i \in reserved' \/ i \in raised'
        \/ \E s \in Tasks : s # t /\ i \in task[s].took
  BY <1>1 DEF WalletIInv, NothingIsLeft
<1>6. QED
  BY <1>1, <1>3, <1>4, <1>5, CommandSteps

\* It is at p now.
LEMMA GoToMeans ==
  ASSUME WalletIInv, NEW t \in Tasks, NEW p \in CommandStages, GoTo(t, p)
  PROVE  \E k \in TaskStates :
           /\ task' = [task EXCEPT ![t] = k] /\ k.pc = p /\ k.cmd = task[t].cmd
           /\ k.quote = task[t].quote /\ k.took = task[t].took /\ k.ins = task[t].ins
           /\ k.outs = task[t].outs /\ k.give = task[t].give
<1>1. task[t] \in TaskStates
  BY DEF WalletIInv, WalletTyped
<1>2. PICK k : k = [task[t] EXCEPT !.pc = p]
  OBVIOUS
<1>3. k \in TaskStates /\ k.pc = p /\ k.cmd = task[t].cmd
      /\ k.quote = task[t].quote /\ k.took = task[t].took /\ k.ins = task[t].ins
      /\ k.outs = task[t].outs /\ k.give = task[t].give
  BY <1>1, <1>2 DEF TaskStates
<1>4. task' = [task EXCEPT ![t] = k]
  BY <1>2 DEF GoTo, WalletIInv, WalletTyped
<1>5. QED
  BY <1>3, <1>4

\* mint bumps the counter after the answer.
LEMMA BumpAfterMintKeeps ==
  ASSUME WalletIInv, NEW t \in Tasks, BumpAfterMint(t)
  PROVE  WalletIInv'
<1>1. /\ task[t].pc = "bump" /\ counter' = counter + Cardinality(task[t].outs) /\ GoTo(t, "store")
      /\ rows' = rows /\ mint' = mint /\ scan' = scan /\ handed' = handed /\ raised' = raised /\ promised' = promised
      /\ net' = net
  BY DEF BumpAfterMint, BumpSecretDerivation, wire
<1>2. PICK k \in TaskStates :
           /\ task' = [task EXCEPT ![t] = k] /\ k.pc = "store" /\ k.cmd = task[t].cmd
           /\ k.quote = task[t].quote /\ k.took = task[t].took /\ k.ins = task[t].ins
           /\ k.outs = task[t].outs /\ k.give = task[t].give
  BY <1>1, GoToMeans DEF CommandStages
<1>3. StateFits(t, task[t], net[t]) /\ AnswerFits(t, task[t], net[t]) /\ SpendingFits(task[t], net[t])
  BY DEF WalletIInv, CommandsFit
<1>4. task[t].cmd = "mint" /\ task[t].took = {} /\ net[t] = "ok" /\ ~Scanning
  BY <1>1, <1>3 DEF StateFits, StageFits, AnswerFits, Idle
<1>5. MayBecome(t, k, net[t])
  BY <1>1, <1>2, <1>3, <1>4
     DEF MayBecome, Fitting, StateFits, StageFits, AnswerFits, SpendingFits, WillStore, HasStored
<1>6. Cardinality(task[t].outs) \in Nat /\ counter \in Nat
  <2>1. IsFiniteSet(Index)
    BY WalletAssumption, FS_Interval DEF Index
  <2>2. QED
    BY <2>1, FS_Subset, FS_CardinalityType DEF WalletIInv, WalletTyped, TaskStates
<1>7. ASSUME scan.pc = "none"
      PROVE  counter' >= counter /\ CounterIsFor(k, counter')
  <2>1. PICK b \in 0 .. counter : task[t].outs = b .. b + MintSize - 1
    BY <1>4, <1>7 DEF WalletIInv, CounterFits, CounterIsFor
  <2>n. b \in Nat /\ MintSize \in Nat
    BY <1>6, <2>1, WalletAssumption
  <2>2. Cardinality(task[t].outs) = MintSize
    BY <2>1, <2>n, FreshHas
  <2>3. \A i \in task[t].outs : i < counter'
    BY <1>1, <1>6, <2>1, <2>2, WalletAssumption
  <2>4. counter' >= counter /\ b \in 0 .. counter'
    BY <1>1, <1>6
  <2>5. CounterIsFor(k, counter')
    BY <1>1, <1>2, <2>1, <2>3, <2>4 DEF CounterIsFor
  <2>6. QED
    BY <2>4, <2>5
<1>8. DealtWith(k) = {} /\ counter' \in Nat
  BY <1>1, <1>2, <1>4, <1>6 DEF DealtWith
<1>9. QED
  BY <1>1, <1>2, <1>4, <1>5, <1>7, <1>8, CommandGoesOn

\* What is known of a command.
LEMMA CommandIs ==
  ASSUME WalletIInv, NEW t \in Tasks
  PROVE  /\ task[t] \in TaskStates /\ net[t] \in Answers
         /\ StateFits(t, task[t], net[t]) /\ AnswerFits(t, task[t], net[t])
         /\ SpendingFits(task[t], net[t]) /\ counter \in Nat /\ counter >= counter
         /\ scan.pc = "none" => CounterIsFor(task[t], counter)
         /\ task[t].took \subseteq signed
         /\ \A s \in Tasks : WillStore(task[s]) => promised[s] \cap task[t].took = {}
         /\ task[t].pc # "idle" => ~Scanning
<1>1. /\ task[t] \in TaskStates /\ net[t] \in Answers
      /\ StateFits(t, task[t], net[t]) /\ AnswerFits(t, task[t], net[t])
      /\ SpendingFits(task[t], net[t]) /\ counter \in Nat /\ counter >= counter
  BY DEF WalletIInv, WalletTyped, CommandsFit
<1>2. scan.pc = "none" => CounterIsFor(task[t], counter)
  BY DEF WalletIInv, CounterFits
<1>3. /\ task[t].took \subseteq signed
      /\ \A s \in Tasks : WillStore(task[s]) => promised[s] \cap task[t].took = {}
  BY DEF WalletIInv, SignedOnce, NotesEnterOnce
<1>4. task[t].pc # "idle" => ~Scanning
  <2>1. Idle.pc = "idle"
    BY DEF Idle
  <2>2. QED
    BY <1>1, <2>1 DEF StateFits
<1>5. QED
  BY <1>1, <1>2, <1>3, <1>4

\* The answer comes, or the connection fails.
LEMMA AnsweredKeeps ==
  ASSUME WalletIInv, NEW t \in Tasks, Answered(t) \/ ConnectionLost(t)
  PROVE  WalletIInv'
<1>1. /\ task[t].pc = "asked" /\ counter' = counter
      /\ rows' = rows /\ mint' = mint /\ scan' = scan /\ handed' = handed /\ raised' = raised /\ promised' = promised
      /\ net' = net
  BY DEF Answered, ConnectionLost, wire
<1>2. PICK p : p = CASE task[t].cmd = "mint" -> "bump"
                     [] task[t].cmd = "melt" -> "invalidate"
                     [] OTHER -> "store"
  OBVIOUS
<1>3. PICK r \in CommandStages : /\ GoTo(t, r)
                          /\ \/ net[t] = "ok" /\ r = p
                             \/ net[t] = "pending" /\ r = "done"
                             \/ r = (IF task[t].cmd = "melt" THEN "unreserve" ELSE "failed")
  BY <1>2 DEF Answered, ConnectionLost, CommandStages
<1>4. PICK k \in TaskStates :
           /\ task' = [task EXCEPT ![t] = k] /\ k.pc = r /\ k.cmd = task[t].cmd
           /\ k.quote = task[t].quote /\ k.took = task[t].took /\ k.ins = task[t].ins
           /\ k.outs = task[t].outs /\ k.give = task[t].give
  BY <1>3, GoToMeans
<1>5. /\ StateFits(t, task[t], net[t]) /\ AnswerFits(t, task[t], net[t]) /\ SpendingFits(task[t], net[t])
      /\ counter' \in Nat /\ counter' >= counter /\ ~Scanning
      /\ task[t].cmd \in {"mint", "receive", "send", "melt"}
      /\ task[t].took \subseteq signed
      /\ \A s \in Tasks : WillStore(task[s]) => promised[s] \cap task[t].took = {}
      /\ scan.pc = "none" => CounterIsFor(task[t], counter)
  <2>1. task[t].cmd \in {"mint", "receive", "send", "melt"}
    BY <1>1, CommandIs DEF StateFits, StageFits
  <2>2. QED
    BY <1>1, <2>1, CommandIs
<1>6. /\ MayBecome(t, k, net[t])
      /\ scan.pc = "none" => CounterIsFor(k, counter')
      /\ \A i \in DealtWith(k) : i \in DealtWith(task[t])
  <2>1. CASE net[t] = "ok" /\ r = p /\ task[t].cmd = "mint"
    <3>1. k.pc = "bump"
      BY <1>2, <1>4, <2>1
    <3>2. QED
      BY <1>1, <1>4, <1>5, <2>1, <3>1
         DEF MayBecome, Fitting, StateFits, StageFits, AnswerFits, SpendingFits, WillStore,
             HasStored, DealtWith,
             CounterIsFor
  <2>2. CASE net[t] = "ok" /\ r = p /\ task[t].cmd = "melt"
    <3>1. k.pc = "invalidate"
      BY <1>2, <1>4, <2>2
    <3>2. k.ins \subseteq spent
      BY <1>1, <1>4, <1>5, <2>2 DEF SpendingFits
    <3>3. QED
      BY <1>1, <1>4, <1>5, <2>2, <3>1, <3>2
         DEF MayBecome, Fitting, StateFits, StageFits, AnswerFits, SpendingFits, WillStore,
             HasStored, DealtWith,
             CounterIsFor
  <2>3. CASE net[t] = "ok" /\ r = p /\ task[t].cmd \in {"receive", "send"}
    <3>1. k.pc = "store"
      BY <1>2, <1>4, <2>3
    <3>2. QED
      BY <1>1, <1>4, <1>5, <2>3, <3>1
         DEF MayBecome, Fitting, StateFits, StageFits, AnswerFits, SpendingFits, WillStore,
             HasStored, DealtWith,
             CounterIsFor
  <2>4. CASE net[t] = "pending" /\ r = "done"
    <3>1. task[t].cmd = "melt" /\ k.pc = "done"
      BY <1>4, <1>5, <2>4 DEF AnswerFits
    <3>2. QED
      BY <1>1, <1>4, <1>5, <2>4, <3>1
         DEF MayBecome, Fitting, StateFits, StageFits, AnswerFits, SpendingFits, WillStore,
             HasStored, DealtWith,
             CounterIsFor
  <2>5. CASE r = (IF task[t].cmd = "melt" THEN "unreserve" ELSE "failed")
    BY <1>1, <1>4, <1>5, <2>5
       DEF MayBecome, Fitting, StateFits, StageFits, AnswerFits, SpendingFits, WillStore,
           HasStored, DealtWith,
           CounterIsFor
  <2>6. QED
    BY <1>3, <1>5, <2>1, <2>2, <2>3, <2>4, <2>5
<1>7. ~Undoes(k)
  BY <1>4, <1>5 DEF Undoes
<1>8. QED
  BY <1>1, <1>4, <1>5, <1>6, <1>7, CommandGoesOn

\* A check applies what it has read to the rows of the quote, which are those
\* of its payment.
LEMMA ApplyMeltQuoteKeeps ==
  ASSUME WalletIInv, NEW t \in Tasks, ApplyMeltQuote(t)
  PROVE  WalletIInv'
<1> DEFINE q == task[t].quote
           S == RowsOfMelt(q)
<1>1. /\ task[t].pc \in {"read paid", "read unpaid"} /\ counter' = counter
      /\ rows' = rows /\ mint' = mint /\ scan' = scan /\ handed' = handed /\ raised' = raised /\ promised' = promised
      /\ net' = net
  BY DEF ApplyMeltQuote, wire
<1>2. /\ task[t] \in TaskStates /\ StateFits(t, task[t], net[t]) /\ AnswerFits(t, task[t], net[t])
      /\ SpendingFits(task[t], net[t])
      /\ counter' \in Nat /\ counter' >= counter /\ ~Scanning
  BY <1>1, CommandIs
<1>3. /\ task[t].cmd = "check" /\ task[t].took = {} /\ task[t].outs = {} /\ task[t].ins = {}
      /\ net[t] = "none" /\ promised[t] = {} /\ q \in MeltQuotes
      /\ task[t].pc = "read paid" => meltQuote[q] = "PAID"
  BY <1>1, <1>2 DEF StateFits, StageFits, AnswerFits, SpendingFits
<1>4. S \subseteq held /\ S \subseteq Index /\ S \subseteq signed
      /\ \A s \in Tasks : WillStore(task[s]) => promised[s] \cap S = {}
  BY DEF RowsOfMelt, WalletIInv, WalletTyped, SignedOnce, NotesEnterOnce
<1>5. \A i \in S : \E s \in Tasks : s # t /\ task[s].cmd = "melt" /\ task[s].quote = q /\ i \in task[s].took
  <2>1. q # NoQuote
    BY <1>3, WalletAssumption
  <2>2. QED
    BY <1>3, <1>4, <2>1 DEF RowsOfMelt, WalletIInv, MeltIdIsOfPayment
<1>6. task[t].pc = "read paid" => S \subseteq spent
  BY <1>3, <1>5, CommandIs DEF SpendingFits
<1>7. PICK rs : rs = S
  OBVIOUS
<1>8. CASE /\ task[t].pc = "read paid"
           /\ task' = [task EXCEPT ![t].pc = "invalidate", ![t].took = S, ![t].ins = S]
  <2>1. PICK k : k = [task[t] EXCEPT !.pc = "invalidate", !.took = rs, !.ins = rs]
    OBVIOUS
  <2>2. /\ k \in TaskStates /\ k.pc = "invalidate" /\ k.cmd = "check" /\ k.quote = q /\ k.took = S
        /\ k.ins = S /\ k.outs = {}
    BY <1>2, <1>3, <1>4, <1>7, <2>1 DEF TaskStates, CommandStages
  <2>3. task' = [task EXCEPT ![t] = k]
    BY <1>7, <1>8, <2>1 DEF WalletIInv, WalletTyped
  <2>4. /\ MayBecome(t, k, net[t]) /\ DealtWith(k) = {} /\ CounterIsFor(k, counter')
    BY <1>1, <1>2, <1>3, <1>4, <1>6, <1>8, <2>2
       DEF MayBecome, Fitting, StateFits, StageFits, AnswerFits, SpendingFits, WillStore,
           HasStored, DealtWith,
           CounterIsFor
  <2>5. QED
    BY <1>1, <1>2, <1>3, <2>2, <2>3, <2>4, CommandGoesOn
<1>9. CASE task[t].pc = "read paid" /\ GoTo(t, "done")
  <2>1. PICK k \in TaskStates :
           /\ task' = [task EXCEPT ![t] = k] /\ k.pc = "done" /\ k.cmd = task[t].cmd
           /\ k.quote = task[t].quote /\ k.took = task[t].took /\ k.ins = task[t].ins
           /\ k.outs = task[t].outs /\ k.give = task[t].give
    BY <1>9, GoToMeans DEF CommandStages
  <2>2. /\ MayBecome(t, k, net[t]) /\ DealtWith(k) = {} /\ CounterIsFor(k, counter')
    BY <1>1, <1>2, <1>3, <1>9, <2>1
       DEF MayBecome, Fitting, StateFits, StageFits, AnswerFits, SpendingFits, WillStore,
           HasStored, DealtWith,
           CounterIsFor
  <2>3. QED
    BY <1>1, <1>2, <1>3, <2>1, <2>2, CommandGoesOn
<1>10. CASE task[t].pc = "read unpaid" /\ task' = [task EXCEPT ![t].pc = "unreserve", ![t].took = S]
  <2>1. PICK k : k = [task[t] EXCEPT !.pc = "unreserve", !.took = rs]
    OBVIOUS
  <2>2. /\ k \in TaskStates /\ k.pc = "unreserve" /\ k.cmd = "check" /\ k.quote = q /\ k.took = S
        /\ k.ins = {} /\ k.outs = {}
    BY <1>2, <1>3, <1>4, <1>7, <2>1 DEF TaskStates, CommandStages
  <2>3. task' = [task EXCEPT ![t] = k]
    BY <1>7, <1>10, <2>1 DEF WalletIInv, WalletTyped
  <2>4. /\ MayBecome(t, k, net[t]) /\ DealtWith(k) = S /\ CounterIsFor(k, counter')
    BY <1>1, <1>2, <1>3, <1>4, <1>6, <1>10, <2>2
       DEF MayBecome, Fitting, StateFits, StageFits, AnswerFits, SpendingFits, WillStore,
           HasStored, DealtWith,
           CounterIsFor
  <2>5. QED
    BY <1>1, <1>2, <1>3, <1>5, <2>2, <2>3, <2>4, CommandGoesOn
<1>11. QED
  BY <1>8, <1>9, <1>10 DEF ApplyMeltQuote

\* A row goes, which the mint has spent.
LEMMA RowGoes ==
  ASSUME WalletIInv, NEW i \in spent, NEW inserted, InvalidateProof(i, inserted)
  PROVE  /\ held' = held \ {i} /\ reserved' = reserved \ {i}
         /\ held' \subseteq held /\ held \ held' \subseteq spent /\ reserved' \subseteq held'
         /\ meltId' \in [Index -> MeltQuotes \cup {NoQuote}]
         /\ \A j \in Index : meltId'[j] # NoQuote => meltId'[j] = meltId[j]
         /\ \A j \in reserved \ reserved' : j \notin held'
BY DEF InvalidateProof, WalletIInv, WalletTyped

\* A row goes, or the database raised.
LEMMA RowGoesOrStays ==
  ASSUME WalletIInv, NEW i \in spent, InvalidateOrLog(i)
  PROVE  /\ held' \subseteq held /\ held \ held' \subseteq spent /\ reserved' \subseteq held'
         /\ raised \subseteq raised' /\ (i \notin held' \/ i \in raised')
         /\ meltId' \in [Index -> MeltQuotes \cup {NoQuote}]
         /\ \A j \in Index : meltId'[j] # NoQuote => meltId'[j] = meltId[j]
         /\ \A j \in reserved \ reserved' : j \notin held'
<1>1. CASE InvalidateProof(i, TRUE) /\ UNCHANGED raised
  BY <1>1, RowGoes
<1>2. CASE raised' = raised \cup {i} /\ InvalidateProof(i, FALSE)
  BY <1>2, RowGoes
<1>3. CASE raised' = raised \cup {i} /\ UNCHANGED rows
  BY <1>3 DEF rows, WalletIInv, WalletTyped
<1>4. QED
  BY <1>1, <1>2, <1>3 DEF InvalidateOrLog

\* The first of what a command has yet to delete.
LEMMA FirstIsIn ==
  ASSUME NEW S \in SUBSET Index, S # {}
  PROVE  Min(S) \in S
<1>1. S \subseteq Nat
  BY WalletAssumption DEF Index
<1>2. QED
  BY <1>1, LeastIsIn

\* A command dies, maybe between the DELETE and the INSERT of a row.
LEMMA CrashKeeps ==
  ASSUME WalletIInv, NEW t \in Tasks, Crash(t)
  PROVE  WalletIInv'
<1>1. /\ task[t].pc \notin Ended /\ counter' = counter /\ GoTo(t, "crashed")
      /\ mint' = mint /\ scan' = scan /\ handed' = handed /\ raised' = raised /\ promised' = promised /\ net' = net
      /\ UNCHANGED <<signed, spent, locked, meltQuote>>
  BY DEF Crash, wire, mint
<1>2. PICK k \in TaskStates :
           /\ task' = [task EXCEPT ![t] = k] /\ k.pc = "crashed" /\ k.cmd = task[t].cmd
           /\ k.quote = task[t].quote /\ k.took = task[t].took /\ k.ins = task[t].ins
           /\ k.outs = task[t].outs /\ k.give = task[t].give
  BY <1>1, GoToMeans DEF CommandStages
<1>3. /\ task[t] \in TaskStates /\ net[t] \in Answers
      /\ StateFits(t, task[t], net[t]) /\ AnswerFits(t, task[t], net[t])
      /\ SpendingFits(task[t], net[t])
      /\ counter' \in Nat /\ counter' >= counter /\ ~Scanning
      /\ task[t].took \subseteq signed
      /\ \A s \in Tasks : WillStore(task[s]) => promised[s] \cap task[t].took = {}
      /\ scan.pc = "none" => CounterIsFor(task[t], counter)
  BY <1>1, CommandIs DEF Ended
<1>4. /\ MayBecome(t, k, net[t]) /\ DealtWith(k) = {}
  <2>1. task[t].cmd # "none"
    BY <1>1, <1>3 DEF StateFits, StageFits, Ended
  <2>2. QED
    BY <1>1, <1>2, <1>3, <2>1
       DEF MayBecome, Fitting, StateFits, StageFits, AnswerFits, SpendingFits, WillStore,
           HasStored, DealtWith, Ended
<1>5. scan.pc = "none" => CounterIsFor(k, counter')
  BY <1>1, <1>2, <1>3 DEF CounterIsFor, StateFits, StageFits
<1>6. CASE UNCHANGED rows
  BY <1>1, <1>2, <1>3, <1>4, <1>5, <1>6, CommandGoesOn
<1>7. CASE task[t].ins # {} /\ task[t].pc = "invalidate" /\ InvalidateProof(Min(task[t].ins), FALSE)
  <2>1. PICK i : i = Min(task[t].ins)
    OBVIOUS
  <2>2. i \in task[t].ins /\ i \in spent
    BY <1>3, <1>7, <2>1, FirstIsIn DEF SpendingFits, TaskStates
  <2>3. InvalidateProof(i, FALSE)
    BY <1>7, <2>1
  <2>4. Becomes(t, k, net[t])
    BY <1>1, <1>2, <1>3 DEF Becomes, WalletIInv, WalletTyped
  <2>5. QED
    BY <1>1, <1>2, <1>3, <1>4, <1>5, <2>2, <2>3, <2>4, RowGoes, CommandSteps
<1>8. QED
  BY <1>6, <1>7 DEF Crash

\* The proofs are invalidated one at a time.
LEMMA InvalidateKeeps ==
  ASSUME WalletIInv, NEW t \in Tasks, Invalidate(t)
  PROVE  WalletIInv'
<1>1. /\ task[t].pc = "invalidate" /\ counter' = counter
      /\ mint' = mint /\ scan' = scan /\ handed' = handed /\ promised' = promised /\ net' = net
      /\ UNCHANGED <<signed, spent, locked, meltQuote>>
  BY DEF Invalidate, wire, mint
<1>2. /\ task[t] \in TaskStates /\ net[t] \in Answers
      /\ StateFits(t, task[t], net[t]) /\ AnswerFits(t, task[t], net[t])
      /\ SpendingFits(task[t], net[t])
      /\ counter' \in Nat /\ counter' >= counter /\ ~Scanning
      /\ task[t].took \subseteq signed
      /\ \A s \in Tasks : WillStore(task[s]) => promised[s] \cap task[t].took = {}
      /\ scan.pc = "none" => CounterIsFor(task[t], counter)
      /\ task[t].cmd \notin {"none", "mint"}
  <2>1. task[t].cmd \notin {"none", "mint"}
    BY <1>1, CommandIs DEF StateFits, StageFits
  <2>2. QED
    BY <1>1, <2>1, CommandIs
<1>3. CASE task[t].ins # {}
  <2>1. PICK i : i = Min(task[t].ins)
    OBVIOUS
  <2>2. i \in task[t].ins /\ i \in spent
    BY <1>1, <1>2, <1>3, <2>1, FirstIsIn DEF SpendingFits, TaskStates
  <2>3. InvalidateOrLog(i) /\ task' = [task EXCEPT ![t].ins = @ \ {i}]
    BY <1>3, <2>1 DEF Invalidate
  <2>4. PICK ins : ins = task[t].ins \ {i}
    OBVIOUS
  <2>5. PICK k : k = [task[t] EXCEPT !.ins = ins]
    OBVIOUS
  <2>6. /\ k \in TaskStates /\ k.pc = "invalidate" /\ k.cmd = task[t].cmd
        /\ k.quote = task[t].quote /\ k.took = task[t].took /\ k.ins = task[t].ins \ {i}
        /\ k.outs = task[t].outs /\ k.give = task[t].give
    BY <1>1, <1>2, <2>4, <2>5 DEF TaskStates
  <2>7. task' = [task EXCEPT ![t] = k]
    BY <2>3, <2>4, <2>5 DEF WalletIInv, WalletTyped
  <2>8. MayBecome(t, k, net[t])
    BY <1>1, <1>2, <2>6
       DEF MayBecome, Fitting, StateFits, StageFits, AnswerFits, SpendingFits, WillStore,
           HasStored, WalletIInv, StoredIsHeld
  <2>9. scan.pc = "none" => CounterIsFor(k, counter')
    BY <1>1, <1>2, <2>6 DEF CounterIsFor
  <2>10. \A j \in DealtWith(k) : j \in DealtWith(task[t]) \/ j = i
    BY <1>1, <2>6 DEF DealtWith
  <2>11. Becomes(t, k, net[t])
    BY <1>1, <1>2, <2>6, <2>7 DEF Becomes, WalletIInv, WalletTyped
  <2>12. /\ raised \subseteq raised' /\ (i \notin held' \/ i \in raised')
         /\ held' \subseteq held /\ held \ held' \subseteq spent /\ reserved' \subseteq held'
         /\ meltId' \in [Index -> MeltQuotes \cup {NoQuote}]
         /\ \A j \in Index : meltId'[j] # NoQuote => meltId'[j] = meltId[j]
         /\ \A j \in reserved \ reserved' : j \notin held'
    BY <2>2, <2>3, RowGoesOrStays
  <2>13. \A j \in DealtWith(k) :
           \/ j \notin held' \/ j \in reserved' \/ j \in raised'
           \/ \E s \in Tasks : s # t /\ j \in task[s].took
    <3>1. \A j \in DealtWith(task[t]) :
            j \notin held \/ j \in reserved \/ j \in raised \/ \E s \in Tasks : s # t /\ j \in task[s].took
      BY DEF WalletIInv, NothingIsLeft
    <3>2. QED
      BY <2>10, <2>12, <3>1
  <2>14. handed \subseteq handed' /\ handed' \subseteq handed \cup k.took /\ k.cmd # "mint"
    BY <1>1, <1>2, <2>6
  <2>15. ~Undoes(k)
    BY <2>6 DEF Undoes
  <2>16. QED
    BY <1>2, <2>6, <2>8, <2>9, <2>11, <2>12, <2>13, <2>14, <2>15, CommandSteps
<1>4. CASE task[t].ins = {}
  <2>1. PICK p : p = CASE task[t].cmd = "melt" -> "store"
                       [] task[t].cmd = "send" -> "print"
                       [] OTHER -> "done"
    OBVIOUS
  <2>2. GoTo(t, p) /\ rows' = rows /\ raised' = raised
    BY <1>4, <2>1 DEF Invalidate
  <2>3. p \in CommandStages
    BY <2>1 DEF CommandStages
  <2>4. PICK k \in TaskStates :
           /\ task' = [task EXCEPT ![t] = k] /\ k.pc = p /\ k.cmd = task[t].cmd
           /\ k.quote = task[t].quote /\ k.took = task[t].took /\ k.ins = task[t].ins
           /\ k.outs = task[t].outs /\ k.give = task[t].give
    BY <2>2, <2>3, GoToMeans
  <2>5. DealtWith(task[t]) = task[t].took
    BY <1>1, <1>4 DEF DealtWith
  <2>6. \A i \in DealtWith(k) : i \in DealtWith(task[t])
    BY <2>4, <2>5 DEF DealtWith
  <2>7. scan.pc = "none" => CounterIsFor(k, counter')
    BY <1>1, <1>2, <2>4 DEF CounterIsFor
  <2>8. MayBecome(t, k, net[t])
    <3>1. CASE task[t].cmd = "melt"
      <4>1. k.pc = "store"
        BY <2>1, <2>4, <3>1
      <4>2. QED
        BY <1>1, <1>2, <1>4, <2>4, <3>1, <4>1
           DEF MayBecome, Fitting, StateFits, StageFits, AnswerFits, SpendingFits, WillStore,
               HasStored
    <3>2. CASE task[t].cmd = "send"
      <4>1. k.pc = "print"
        BY <2>1, <2>4, <3>2
      <4>2. promised[t] \subseteq held \cup spent
        BY <1>1, <3>2 DEF WalletIInv, StoredIsHeld, HasStored
      <4>3. QED
        BY <1>1, <1>2, <1>4, <2>4, <3>2, <4>1, <4>2
           DEF MayBecome, Fitting, StateFits, StageFits, AnswerFits, SpendingFits, WillStore,
               HasStored
    <3>3. CASE task[t].cmd \in {"receive", "check", "burn"}
      <4>1. k.pc = "done"
        BY <2>1, <2>4, <3>3
      <4>2. promised[t] \subseteq held \cup spent
        BY <1>1, <3>3 DEF WalletIInv, StoredIsHeld, HasStored
      <4>3. QED
        BY <1>1, <1>2, <1>4, <2>4, <3>3, <4>1, <4>2
           DEF MayBecome, Fitting, StateFits, StageFits, AnswerFits, SpendingFits, WillStore,
               HasStored
    <3>4. QED
      BY <1>2, <3>1, <3>2, <3>3 DEF TaskStates
  <2>9. ~Undoes(k)
    BY <2>1, <2>4 DEF Undoes
  <2>10. QED
    BY <1>1, <1>2, <2>2, <2>4, <2>6, <2>7, <2>8, <2>9, CommandGoesOn
<1>5. QED
  BY <1>3, <1>4

\* A token is printed.
LEMMA PrintTokenKeeps ==
  ASSUME WalletIInv, NEW t \in Tasks, PrintToken(t)
  PROVE  WalletIInv'
<1>1. /\ task[t].pc = "print" /\ counter' = counter /\ handed' = handed \cup task[t].give /\ raised' = raised
      /\ rows' = rows /\ net' = net
      /\ UNCHANGED <<promised, scan, signed, spent, locked, meltQuote>>
      /\ task' = [task EXCEPT ![t].pc = "mark", ![t].took = @ \cup task[t].give]
  BY DEF PrintToken, wire, mint
<1>2. /\ task[t] \in TaskStates /\ net[t] \in Answers
      /\ StateFits(t, task[t], net[t]) /\ AnswerFits(t, task[t], net[t])
      /\ SpendingFits(task[t], net[t])
      /\ counter' \in Nat /\ counter' >= counter /\ ~Scanning
      /\ scan.pc = "none" => CounterIsFor(task[t], counter)
  BY <1>1, CommandIs
<1>3. PICK took : took = task[t].took \cup task[t].give
  OBVIOUS
<1>4. PICK k : k = [task[t] EXCEPT !.pc = "mark", !.took = took]
  OBVIOUS
<1>5. /\ k \in TaskStates /\ k.pc = "mark" /\ k.cmd = task[t].cmd
      /\ k.quote = task[t].quote /\ k.took = task[t].took \cup task[t].give /\ k.ins = task[t].ins
      /\ k.outs = task[t].outs /\ k.give = task[t].give
  BY <1>2, <1>3, <1>4 DEF TaskStates, CommandStages
<1>6. task' = [task EXCEPT ![t] = k]
  BY <1>1, <1>3, <1>4 DEF WalletIInv, WalletTyped
<1>7. task[t].cmd = "send" /\ task[t].give \subseteq task[t].took \cup promised[t]
  BY <1>1, <1>2 DEF StateFits, StageFits
<1>8. /\ k.took \subseteq signed
      /\ \A s \in Tasks : WillStore(task[s]) => promised[s] \cap k.took = {}
  <2>1. /\ task[t].took \cup promised[t] \subseteq signed
        /\ \A s \in Tasks : s # t => promised[s] \cap promised[t] = {}
    BY DEF WalletIInv, SignedOnce
  <2>2. \A s \in Tasks : WillStore(task[s]) => promised[s] \cap task[t].took = {}
    BY DEF WalletIInv, NotesEnterOnce
  <2>3. ~WillStore(task[t])
    BY <1>1 DEF WillStore
  <2>4. QED
    BY <1>5, <1>7, <2>1, <2>2, <2>3
<1>9. promised[t] \subseteq held \cup spent
  BY <1>1 DEF WalletIInv, StoredIsHeld, HasStored
<1>10. MayBecome(t, k, net[t])
  BY <1>1, <1>2, <1>5, <1>7, <1>8, <1>9
     DEF MayBecome, Fitting, StateFits, StageFits, AnswerFits, SpendingFits, WillStore, HasStored
<1>11. scan.pc = "none" => CounterIsFor(k, counter')
  BY <1>1, <1>2, <1>5 DEF CounterIsFor
<1>12. Becomes(t, k, net[t])
  BY <1>1, <1>2, <1>5, <1>6 DEF Becomes, WalletIInv, WalletTyped
<1>13. /\ held' = held /\ reserved' = reserved /\ meltId' = meltId /\ reserved' \subseteq held'
       /\ meltId' \in [Index -> MeltQuotes \cup {NoQuote}]
  BY <1>1 DEF rows, WalletIInv, WalletTyped
<1>14. \A i \in DealtWith(k) :
         \/ i \notin held' \/ i \in reserved' \/ i \in raised'
         \/ \E s \in Tasks : s # t /\ i \in task[s].took
  <2>1. DealtWith(k) \subseteq DealtWith(task[t])
    BY <1>1, <1>5 DEF DealtWith
  <2>2. QED
    BY <1>1, <1>13, <2>1 DEF WalletIInv, NothingIsLeft
<1>15. /\ handed \subseteq handed' /\ handed' \subseteq handed \cup k.took
       /\ k.cmd # "mint" /\ task[t].cmd # "mint" /\ ~Undoes(k)
  BY <1>1, <1>5, <1>7 DEF Undoes
<1>16. QED
  BY <1>1, <1>2, <1>10, <1>11, <1>12, <1>13, <1>14, <1>15, CommandSteps

\* The notes of the token are reserved one at a time.
LEMMA SetReservedForSendKeeps ==
  ASSUME WalletIInv, NEW t \in Tasks, SetReservedForSend(t)
  PROVE  WalletIInv'
<1>1. /\ task[t].pc = "mark" /\ counter' = counter
      /\ mint' = mint /\ scan' = scan /\ handed' = handed /\ raised' = raised /\ promised' = promised /\ net' = net
      /\ UNCHANGED <<signed, spent, locked, meltQuote>>
  BY DEF SetReservedForSend, wire, mint
<1>2. /\ task[t] \in TaskStates /\ net[t] \in Answers
      /\ StateFits(t, task[t], net[t]) /\ AnswerFits(t, task[t], net[t])
      /\ SpendingFits(task[t], net[t])
      /\ counter' \in Nat /\ counter' >= counter /\ ~Scanning
      /\ task[t].took \subseteq signed
      /\ \A s \in Tasks : WillStore(task[s]) => promised[s] \cap task[t].took = {}
      /\ scan.pc = "none" => CounterIsFor(task[t], counter)
  BY <1>1, CommandIs
<1>3. task[t].cmd = "send" /\ promised[t] \subseteq held \cup spent
  BY <1>1, <1>2 DEF StateFits, StageFits, WalletIInv, StoredIsHeld, HasStored
<1>4. \A i \in DealtWith(task[t]) :
        \/ i \notin held \/ i \in reserved \/ i \in raised
        \/ \E s \in Tasks : s # t /\ i \in task[s].took
  BY DEF WalletIInv, NothingIsLeft
<1>5. CASE task[t].give = {} /\ GoTo(t, "done") /\ rows' = rows
  <2>1. PICK k \in TaskStates :
           /\ task' = [task EXCEPT ![t] = k] /\ k.pc = "done" /\ k.cmd = task[t].cmd
           /\ k.quote = task[t].quote /\ k.took = task[t].took /\ k.ins = task[t].ins
           /\ k.outs = task[t].outs /\ k.give = task[t].give
    BY <1>5, GoToMeans DEF CommandStages
  <2>2. MayBecome(t, k, net[t])
    BY <1>1, <1>2, <1>3, <1>5, <2>1
       DEF MayBecome, Fitting, StateFits, StageFits, AnswerFits, SpendingFits, WillStore, HasStored
  <2>3. scan.pc = "none" => CounterIsFor(k, counter')
    BY <1>1, <1>2, <1>3, <2>1 DEF CounterIsFor
  <2>4. \A i \in DealtWith(k) : i \in DealtWith(task[t])
    BY <1>1, <1>5, <2>1 DEF DealtWith
  <2>5. ~Undoes(k)
    BY <2>1 DEF Undoes
  <2>6. QED
    BY <1>1, <1>2, <1>3, <1>5, <2>1, <2>2, <2>3, <2>4, <2>5, CommandGoesOn
<1>6. CASE task[t].give # {}
  <2>1. PICK i : i = Min(task[t].give)
    OBVIOUS
  <2>2. /\ reserved' = reserved \cup ({i} \cap held) /\ task' = [task EXCEPT ![t].give = @ \ {i}]
        /\ held' = held /\ meltId' = meltId
    BY <1>6, <2>1 DEF SetReservedForSend
  <2>3. PICK give : give = task[t].give \ {i}
    OBVIOUS
  <2>4. PICK k : k = [task[t] EXCEPT !.give = give]
    OBVIOUS
  <2>5. /\ k \in TaskStates /\ k.pc = "mark" /\ k.cmd = task[t].cmd
        /\ k.quote = task[t].quote /\ k.took = task[t].took /\ k.ins = task[t].ins
        /\ k.outs = task[t].outs /\ k.give = task[t].give \ {i}
    BY <1>1, <1>2, <2>3, <2>4 DEF TaskStates
  <2>6. task' = [task EXCEPT ![t] = k]
    BY <2>2, <2>3, <2>4 DEF WalletIInv, WalletTyped
  <2>7. MayBecome(t, k, net[t])
    BY <1>1, <1>2, <1>3, <2>5
       DEF MayBecome, Fitting, StateFits, StageFits, AnswerFits, SpendingFits, WillStore, HasStored
  <2>8. scan.pc = "none" => CounterIsFor(k, counter')
    BY <1>1, <1>2, <2>5 DEF CounterIsFor
  <2>9. Becomes(t, k, net[t])
    BY <1>1, <1>2, <2>5, <2>6 DEF Becomes, WalletIInv, WalletTyped
  <2>10. /\ reserved' \subseteq held' /\ reserved \subseteq reserved'
         /\ meltId' \in [Index -> MeltQuotes \cup {NoQuote}]
    BY <2>2 DEF WalletIInv, WalletTyped
  <2>11. \A j \in DealtWith(k) :
           \/ j \notin held' \/ j \in reserved' \/ j \in raised'
           \/ \E s \in Tasks : s # t /\ j \in task[s].took
    <3>1. \A j \in DealtWith(k) : j \in DealtWith(task[t]) \/ j = i
      BY <1>1, <2>5 DEF DealtWith
    <3>2. QED
      BY <1>1, <1>4, <2>2, <3>1
  <2>12. handed \subseteq handed' /\ handed' \subseteq handed \cup k.took /\ k.cmd # "mint" /\ ~Undoes(k)
         /\ task[t].cmd # "mint"
    BY <1>1, <1>3, <2>5 DEF Undoes
  <2>13. QED
    BY <1>1, <1>2, <2>2, <2>7, <2>8, <2>9, <2>10, <2>11, <2>12, CommandSteps
<1>7. QED
  BY <1>5, <1>6 DEF SetReservedForSend

\* The notes of a payment are reserved, and it is posted.
LEMMA PostMeltKeeps ==
  ASSUME WalletIInv, NEW t \in Tasks, PostMelt(t)
  PROVE  WalletIInv'
<1>1. /\ task[t].pc = "reserve" /\ counter' = counter /\ handed' = handed /\ raised' = raised /\ GoTo(t, "asked")
      /\ net' = [net EXCEPT ![t] = "sent"]
      /\ UNCHANGED <<promised, scan, signed, spent, locked, meltQuote>>
      /\ SetReservedForMelt(task[t].took, TRUE, task[t].quote)
  BY DEF PostMelt, mint, Post
<1>2. PICK k \in TaskStates :
           /\ task' = [task EXCEPT ![t] = k] /\ k.pc = "asked" /\ k.cmd = task[t].cmd
           /\ k.quote = task[t].quote /\ k.took = task[t].took /\ k.ins = task[t].ins
           /\ k.outs = task[t].outs /\ k.give = task[t].give
  BY <1>1, GoToMeans DEF CommandStages
<1>3. /\ task[t] \in TaskStates /\ net[t] \in Answers
      /\ StateFits(t, task[t], net[t]) /\ AnswerFits(t, task[t], net[t])
      /\ SpendingFits(task[t], net[t])
      /\ counter' \in Nat /\ counter' >= counter /\ ~Scanning
      /\ task[t].took \subseteq signed
      /\ \A s \in Tasks : WillStore(task[s]) => promised[s] \cap task[t].took = {}
      /\ scan.pc = "none" => CounterIsFor(task[t], counter)
  BY <1>1, CommandIs
<1>4. task[t].cmd = "melt" /\ task[t].quote \in MeltQuotes /\ net[t] = "none" /\ promised[t] = {}
  BY <1>1, <1>3 DEF StateFits, StageFits, AnswerFits
<1>5. MayBecome(t, k, "sent")
  BY <1>1, <1>2, <1>3, <1>4
     DEF MayBecome, Fitting, StateFits, StageFits, AnswerFits, SpendingFits, WillStore, HasStored
<1>6. Becomes(t, k, "sent")
  BY <1>1, <1>2 DEF Becomes, Answers
<1>7. scan.pc = "none" => CounterIsFor(k, counter')
  BY <1>1, <1>2, <1>3, <1>4 DEF CounterIsFor
<1>8. /\ held' = held /\ reserved' = reserved \cup (task[t].took \cap held) /\ reserved' \subseteq held'
      /\ meltId' \in [Index -> MeltQuotes \cup {NoQuote}]
      /\ \A i \in Index : meltId'[i] # NoQuote =>
           \/ meltId'[i] = meltId[i]
           \/ task[t].quote = meltId'[i] /\ i \in task[t].took
  BY <1>1, <1>4 DEF SetReservedForMelt, WalletIInv, WalletTyped
<1>9. \A i \in DealtWith(k) : i \notin held' \/ i \in reserved'
  BY <1>2, <1>8 DEF DealtWith
<1>10. /\ handed \subseteq handed' /\ handed' \subseteq handed \cup k.took
       /\ k.cmd = "melt" /\ task[t].cmd # "mint" /\ ~Undoes(k)
  BY <1>1, <1>2, <1>4 DEF Undoes
<1>11. QED
  BY <1>1, <1>2, <1>3, <1>5, <1>6, <1>7, <1>8, <1>9, <1>10, CommandSteps

\* They are taken back, by the payment or by a check.
LEMMA UnreserveMeltKeeps ==
  ASSUME WalletIInv, NEW t \in Tasks, UnreserveMelt(t)
  PROVE  WalletIInv'
<1>1. PICK p \in {"done", "failed"} : /\ GoTo(t, p)
                                      /\ p = "done" => task[t].cmd = "check"
                                      /\ p = "failed" => task[t].cmd # "check"
  BY DEF UnreserveMelt
<1>2. /\ task[t].pc = "unreserve" /\ counter' = counter /\ handed' = handed /\ raised' = raised /\ net' = net
      /\ UNCHANGED <<promised, scan, signed, spent, locked, meltQuote>>
      /\ SetReservedForMelt(task[t].took, FALSE, NoQuote)
  BY DEF UnreserveMelt, mint, wire
<1>3. PICK k \in TaskStates :
           /\ task' = [task EXCEPT ![t] = k] /\ k.pc = p /\ k.cmd = task[t].cmd
           /\ k.quote = task[t].quote /\ k.took = task[t].took /\ k.ins = task[t].ins
           /\ k.outs = task[t].outs /\ k.give = task[t].give
  <2>1. p \in CommandStages
    BY DEF CommandStages
  <2>2. QED
    BY <1>1, <2>1, GoToMeans
<1>4. /\ task[t] \in TaskStates /\ net[t] \in Answers
      /\ StateFits(t, task[t], net[t]) /\ AnswerFits(t, task[t], net[t])
      /\ SpendingFits(task[t], net[t])
      /\ counter' \in Nat /\ counter' >= counter /\ ~Scanning
      /\ task[t].took \subseteq signed
      /\ \A s \in Tasks : WillStore(task[s]) => promised[s] \cap task[t].took = {}
      /\ scan.pc = "none" => CounterIsFor(task[t], counter)
  BY <1>2, CommandIs
<1>5. task[t].cmd \in {"melt", "check"} /\ (task[t].cmd = "check" => net[t] = "none" /\ promised[t] = {})
  BY <1>2, <1>4 DEF StateFits, StageFits, AnswerFits
<1>6. MayBecome(t, k, net[t])
  BY <1>1, <1>2, <1>3, <1>4, <1>5
     DEF MayBecome, Fitting, StateFits, StageFits, AnswerFits, SpendingFits, WillStore, HasStored
<1>7. Becomes(t, k, net[t])
  BY <1>2, <1>3, <1>4 DEF Becomes, WalletIInv, WalletTyped
<1>8. scan.pc = "none" => CounterIsFor(k, counter')
  BY <1>2, <1>3, <1>4, <1>5 DEF CounterIsFor
<1>9. /\ held' = held /\ reserved' = reserved \ task[t].took /\ reserved' \subseteq held'
      /\ meltId' \in [Index -> MeltQuotes \cup {NoQuote}]
      /\ \A i \in Index : meltId'[i] # NoQuote => meltId'[i] = meltId[i]
  BY <1>2 DEF SetReservedForMelt, WalletIInv, WalletTyped
<1>10. \A i \in DealtWith(k) : \E s \in Tasks : s # t /\ i \in task[s].took
  <2>1. CASE p = "done"
    <3>1. Undoes(task[t]) /\ DealtWith(k) \subseteq DealtWith(task[t])
      BY <1>1, <1>2, <1>3, <2>1 DEF Undoes, DealtWith
    <3>2. QED
      BY <3>1 DEF WalletIInv, NothingIsLeft
  <2>2. CASE p = "failed"
    BY <1>3, <2>2 DEF DealtWith
  <2>3. QED
    BY <2>1, <2>2
<1>11. /\ handed \subseteq handed' /\ handed' \subseteq handed \cup k.took
       /\ k.cmd # "mint" /\ task[t].cmd # "mint" /\ ~Undoes(k)
  BY <1>2, <1>3, <1>5 DEF Undoes
<1>12. QED
  BY <1>2, <1>3, <1>4, <1>6, <1>7, <1>8, <1>9, <1>10, <1>11, CommandSteps

\* What was promised enters the table, where nothing of it has been.
LEMMA ConstructProofsKeeps ==
  ASSUME WalletIInv, NEW t \in Tasks, ConstructProofs(t)
  PROVE  WalletIInv'
<1> DEFINE new == promised[t]
<1>1. /\ task[t].pc = "store" /\ counter' = counter /\ handed' = handed /\ raised' = raised /\ net' = net
      /\ held' = held \cup new /\ reserved' = reserved /\ meltId' = meltId
      /\ UNCHANGED <<promised, scan, signed, spent, locked, meltQuote>>
  BY DEF ConstructProofs, StoreProofs, mint, wire
<1>2. PICK p \in {"done", "invalidate"} :
        /\ GoTo(t, p)
        /\ p = (IF task[t].cmd \in {"mint", "melt"} THEN "done" ELSE "invalidate")
  BY DEF ConstructProofs
<1>3. PICK k \in TaskStates :
           /\ task' = [task EXCEPT ![t] = k] /\ k.pc = p /\ k.cmd = task[t].cmd
           /\ k.quote = task[t].quote /\ k.took = task[t].took /\ k.ins = task[t].ins
           /\ k.outs = task[t].outs /\ k.give = task[t].give
  <2>1. p \in CommandStages
    BY DEF CommandStages
  <2>2. QED
    BY <1>2, <2>1, GoToMeans
<1>4. /\ task[t] \in TaskStates /\ net[t] \in Answers
      /\ StateFits(t, task[t], net[t]) /\ AnswerFits(t, task[t], net[t])
      /\ SpendingFits(task[t], net[t])
      /\ counter' \in Nat /\ counter' >= counter /\ ~Scanning
      /\ task[t].took \subseteq signed
      /\ \A s \in Tasks : WillStore(task[s]) => promised[s] \cap task[t].took = {}
      /\ scan.pc = "none" => CounterIsFor(task[t], counter)
  BY <1>1, CommandIs
<1>5. /\ task[t].cmd \in {"mint", "receive", "send", "melt"} /\ net[t] = "ok"
      /\ task[t].cmd = "mint" => task[t].took = {}
  BY <1>1, <1>4 DEF StateFits, StageFits, AnswerFits
<1>6. Becomes(t, k, net[t])
  BY <1>1, <1>3, <1>4 DEF Becomes, WalletIInv, WalletTyped
<1>7. Fitting(t, k, net[t])
  BY <1>1, <1>2, <1>3, <1>4, <1>5
     DEF Fitting, StateFits, StageFits, AnswerFits, SpendingFits, WillStore
<1>8. /\ task'[t] = k /\ net'[t] = net[t] /\ \A s \in Tasks : s # t => task'[s] = task[s] /\ net'[s] = net[s]
  BY <1>3, <1>1 DEF WalletIInv, WalletTyped
<1>9. /\ new \subseteq Index /\ new \subseteq signed /\ new \cap (held \cup spent \cup handed) = {}
      /\ \A s \in Tasks : new \cap task[s].took = {} /\ (s # t => promised[s] \cap new = {})
  <2>1. WillStore(task[t])
    BY <1>1 DEF WillStore
  <2>2. QED
    BY <2>1 DEF WalletIInv, WalletTyped, SignedOnce, NotesEnterOnce
<1>10. CommandsFit' /\ OnePayment' /\ WalletTyped'
  <2>1. /\ CommandsFit' /\ OnePayment'
        /\ task' \in [Tasks -> TaskStates] /\ net' \in [Tasks -> Answers]
    BY <1>6, <1>7, CommandsStillFit
  <2>2. QED
    BY <1>1, <1>4, <1>9, <2>1 DEF WalletIInv, WalletTyped
<1>11. SignedOnce'
  BY <1>1, <1>3, <1>8, <1>9 DEF WalletIInv, SignedOnce
<1>12. ~WillStore(k)
  BY <1>2, <1>3 DEF WillStore
<1>13. NotesEnterOnce'
  <2>1. ASSUME NEW s \in Tasks, WillStore(task'[s])
        PROVE  /\ promised[s] \cap (held' \cup spent \cup handed) = {}
               /\ \A r \in Tasks : promised[s] \cap task'[r].took = {}
    <3>1. s # t /\ WillStore(task[s])
      BY <1>8, <1>12, <2>1
    <3>2. QED
      BY <1>1, <1>3, <1>8, <1>9, <3>1 DEF WalletIInv, NotesEnterOnce
  <2>2. QED
    BY <1>1, <2>1 DEF NotesEnterOnce, WillStore
<1>14. StoredIsHeld'
  BY <1>1, <1>8 DEF WalletIInv, StoredIsHeld, HasStored
<1>15. SignaturesAreAwaited'
  <2>1. ASSUME NEW i \in signed \ spent
        PROVE  \/ i \in held'
               \/ \E s \in Tasks : i \in promised[s] /\ (task'[s].pc # "done" \/ net'[s] = "pending")
               \/ scan.pc # "none" /\ i >= scan.next
    <3>1. \/ i \in held
          \/ \E s \in Tasks : i \in promised[s] /\ (task[s].pc # "done" \/ net[s] = "pending")
          \/ scan.pc # "none" /\ i >= scan.next
      BY DEF WalletIInv, SignaturesAreAwaited
    <3>2. CASE \E s \in Tasks : i \in promised[s] /\ (task[s].pc # "done" \/ net[s] = "pending")
      <4>1. PICK s \in Tasks : i \in promised[s] /\ (task[s].pc # "done" \/ net[s] = "pending")
        BY <3>2
      <4>2. QED
        BY <1>1, <1>8, <4>1
    <3>3. QED
      BY <1>1, <3>1, <3>2
  <2>2. QED
    BY <1>1, <2>1 DEF SignaturesAreAwaited
<1>16. SpentIsTaken'
  <2>1. \A i : (\E s \in Tasks : i \in task[s].took) => \E s \in Tasks : i \in task'[s].took
    BY <1>3, <1>8
  <2>2. \A i \in held' \cap spent : i \in held
    BY <1>1, <1>9
  <2>3. QED
    BY <1>1, <2>1, <2>2 DEF WalletIInv, SpentIsTaken
<1>17. ScanFits'
  BY <1>1, <1>4 DEF WalletIInv, ScanFits, Scanning
<1>18. CounterFits'
  <2>1. scan.pc = "none" => CounterIsFor(k, counter')
    BY <1>1, <1>2, <1>3, <1>4, <1>5 DEF CounterIsFor
  <2>2. QED
    BY <1>3, <1>4, <1>6, <2>1, CounterMoves
<1>19. MeltIdIsOfPayment'
  BY <1>1, <1>3, <1>8 DEF WalletIInv, MeltIdIsOfPayment
<1>20. NothingIsLeft'
  <2>1. DealtWith(k) \subseteq DealtWith(task[t]) /\ ~Undoes(k)
    BY <1>1, <1>2, <1>3, <1>4, <1>5 DEF DealtWith, Undoes, SpendingFits
  <2>2. ASSUME NEW s \in Tasks, NEW i \in DealtWith(task'[s])
        PROVE  \/ ~Undoes(task'[s]) /\ (i \notin held' \/ i \in reserved' \/ i \in raised')
               \/ \E r \in Tasks : r # s /\ i \in task'[r].took
    <3>1. i \in DealtWith(task[s]) /\ (Undoes(task'[s]) => Undoes(task[s]))
      BY <1>8, <2>1, <2>2
    <3>2. \/ ~Undoes(task[s]) /\ (i \notin held \/ i \in reserved \/ i \in raised)
          \/ \E r \in Tasks : r # s /\ i \in task[r].took
      BY <3>1 DEF WalletIInv, NothingIsLeft
    <3>3. i \notin new
      BY <1>9, <3>1 DEF DealtWith
    <3>4. QED
      BY <1>1, <1>3, <1>8, <3>1, <3>2, <3>3
  <2>3. \A s \in Tasks : DealtWith(task[s])' = DealtWith(task'[s]) /\ (Undoes(task[s])' <=> Undoes(task'[s]))
    BY DEF DealtWith, Undoes
  <2>4. QED
    BY <2>2, <2>3 DEF NothingIsLeft
<1>21. QED
  BY <1>10, <1>11, <1>13, <1>14, <1>15, <1>16, <1>17, <1>18, <1>19, <1>20 DEF WalletIInv

(* The mint's side *)

\* The mint answers a, signs P and spends S for the request of t.
MayAnswer(t, a, P, S) ==
  /\ net' = [net EXCEPT ![t] = a] /\ promised' = [promised EXCEPT ![t] = P]
  /\ signed' = signed \cup P /\ spent' = spent \cup S
  /\ UNCHANGED <<counter, held, reserved, meltId, task, scan, handed, raised>>
  /\ task[t].pc \in {"asked", "unreserve", "failed", "crashed", "done"}
  /\ task[t].cmd \notin {"none", "check", "burn"}
  /\ promised[t] = {} /\ P \subseteq task[t].outs /\ P \cap signed = {} /\ S \subseteq task[t].took
  /\ a \notin {"ok", "pending"} => P = {}
  /\ a \in {"taken", "pending"} => task[t].cmd = "melt"
  /\ a \in {"sent", "taken"} => task[t].pc # "done"
  /\ a = "ok" => /\ task[t].cmd # "melt" => P = task[t].outs
                 /\ task[t].took \subseteq spent \cup S
  /\ task[t].pc = "done" => P = {} \/ a = "pending"
  /\ meltQuote' \in [MeltQuotes -> {"UNPAID", "PENDING", "PAID"}]
  /\ \A q \in MeltQuotes :
       \/ meltQuote'[q] = meltQuote[q]
       \/ /\ task[t].cmd = "melt" /\ q = task[t].quote /\ meltQuote[q] # "PAID"
          /\ meltQuote'[q] = "PAID" => task[t].took \subseteq spent \cup S
  /\ \A s \in Tasks : InFlight(s) /\ s # t => task[s].outs \cap P = {}
  /\ InFlight(t)' =>
       /\ P = {} /\ task[t].outs \cap signed = {}
       /\ \A s \in Tasks : InFlight(s) /\ s # t => task[s].outs \cap task[t].outs = {}

\* An answer keeps the invariant.
LEMMA MintAnswers ==
  ASSUME WalletIInv, NEW t \in Tasks, NEW a \in Answers, NEW P, NEW S, MayAnswer(t, a, P, S)
  PROVE  WalletIInv'
<1> USE DEF WalletIInv, MayAnswer
<1>1. /\ net'[t] = a /\ promised'[t] = P /\ task' = task
      /\ \A s \in Tasks : s # t => net'[s] = net[s] /\ promised'[s] = promised[s]
      /\ task[t] \in TaskStates /\ net[t] \in Answers
  BY DEF WalletTyped
<1>2. ~Scanning /\ ~Scanning'
  <2>1. ~Scanning
    BY CommandIs
  <2>2. QED
    BY <2>1 DEF Scanning
<1>3. WalletTyped'
  BY <1>1 DEF WalletTyped, TaskStates
<1>4. CommandsFit'
  <2>1. ASSUME NEW s \in Tasks
        PROVE  (StateFits(s, task[s], net[s]) /\ AnswerFits(s, task[s], net[s])
                /\ SpendingFits(task[s], net[s]))'
    <3>1. /\ StateFits(s, task[s], net[s]) /\ AnswerFits(s, task[s], net[s])
          /\ SpendingFits(task[s], net[s]) /\ task[s] \in TaskStates
      BY CommandIs
    <3>2. CASE s = t
      <4>1. StateFits(s, task[s], net[s])'
        BY <1>1, <1>2, <3>1, <3>2 DEF StateFits
      <4>2. AnswerFits(s, task[s], net[s])'
        BY <1>1, <3>1, <3>2 DEF AnswerFits
      <4>3. SpendingFits(task[s], net[s])'
        BY <1>1, <3>1, <3>2 DEF SpendingFits, StateFits
      <4>4. QED
        BY <4>1, <4>2, <4>3
    <3>3. CASE s # t
      <4>1. StateFits(s, task[s], net[s])'
        BY <1>1, <1>2, <3>1, <3>3 DEF StateFits
      <4>2. AnswerFits(s, task[s], net[s])'
        BY <1>1, <3>1, <3>3 DEF AnswerFits
      <4>3. /\ task[s].pc = "read paid" => task[s].cmd = "check"
            /\ task[s].cmd \in {"melt", "check"} => task[s].quote \in MeltQuotes
        BY <3>1 DEF StateFits, StageFits
      <4>4. task[s].cmd = "melt" /\ task[t].cmd = "melt" => task[s].quote # task[t].quote
        BY <3>3 DEF OnePayment
      <4>5. SpendingFits(task[s], net[s])'
        BY <1>1, <3>1, <3>3, <4>3, <4>4 DEF SpendingFits
      <4>6. QED
        BY <4>1, <4>2, <4>5
    <3>4. QED
      BY <3>2, <3>3
  <2>2. QED
    BY <2>1 DEF CommandsFit
<1>5. OnePayment'
  <2>1. \A s \in Tasks : s # t /\ InFlight(s)' => InFlight(s)
    <3>1. ASSUME NEW s \in Tasks, s # t, InFlight(s)'
          PROVE  InFlight(s)
      <4>1. task[s].cmd = "melt" /\ task[s].quote \in MeltQuotes
        BY <1>1, <3>1, CommandIs DEF InFlight, StateFits
      <4>2. task[t].cmd = "melt" => task[s].quote # task[t].quote
        BY <3>1, <4>1 DEF OnePayment
      <4>3. QED
        BY <1>1, <3>1, <4>1, <4>2 DEF InFlight
    <3>2. QED
      BY <3>1
  <2>2. \A q \in MeltQuotes : meltQuote'[q] # "UNPAID" =>
          \E s \in Tasks : task[s].cmd = "melt" /\ task[s].quote = q
    BY DEF OnePayment
  <2>3. \A s \in Tasks : InFlight(s)' => task[s].outs \cap signed' = {}
    BY <2>1 DEF OnePayment
  <2>4. \A s, r \in Tasks : InFlight(s)' /\ InFlight(r)' /\ s # r => task[s].outs \cap task[r].outs = {}
    BY <2>1 DEF OnePayment
  <2>5. QED
    BY <1>1, <2>2, <2>3, <2>4 DEF OnePayment
<1>6. SignedOnce'
  BY <1>1 DEF SignedOnce
<1>7. NotesEnterOnce'
  <2>1. ASSUME NEW s \in Tasks, WillStore(task[s])
        PROVE  /\ promised'[s] \cap (held \cup spent' \cup handed) = {}
               /\ \A r \in Tasks : promised'[s] \cap task[r].took = {}
    <3>1. CASE s = t
      BY <1>1, <3>1 DEF SignedOnce
    <3>2. CASE s # t
      BY <1>1, <2>1, <3>2 DEF NotesEnterOnce
    <3>3. QED
      BY <3>1, <3>2
  <2>2. QED
    BY <1>1, <2>1 DEF NotesEnterOnce, WillStore
<1>8. StoredIsHeld'
  <2>1. ~HasStored(task[t])
    BY DEF HasStored
  <2>2. QED
    BY <1>1, <2>1 DEF StoredIsHeld, HasStored
<1>9. SignaturesAreAwaited'
  <2>1. ASSUME NEW i \in signed' \ spent'
        PROVE  \/ i \in held
               \/ \E s \in Tasks : i \in promised'[s] /\ (task[s].pc # "done" \/ net'[s] = "pending")
               \/ scan.pc # "none" /\ i >= scan.next
    <3>1. CASE i \in P
      BY <1>1, <3>1
    <3>2. CASE i \in signed \ spent
      <4>1. CASE \E s \in Tasks : i \in promised[s] /\ (task[s].pc # "done" \/ net[s] = "pending")
        <5>1. PICK s \in Tasks : i \in promised[s] /\ (task[s].pc # "done" \/ net[s] = "pending")
          BY <4>1
        <5>2. s # t
          BY <5>1
        <5>3. QED
          BY <1>1, <5>1, <5>2
      <4>2. QED
        BY <3>2, <4>1 DEF SignaturesAreAwaited
    <3>3. QED
      BY <2>1, <3>1, <3>2
  <2>2. QED
    BY <1>1, <2>1 DEF SignaturesAreAwaited
<1>10. SpentIsTaken'
  <2>1. \A i \in held \cap spent' :
          (\E s \in Tasks : i \in task[s].took) \/ scan.pc \notin {"none", "done"} \/ i \in raised
    BY DEF SpentIsTaken
  <2>2. QED
    BY <1>1, <2>1 DEF SpentIsTaken
<1>11. ScanFits'
  BY <1>2 DEF ScanFits, Scanning
<1>12. CounterFits'
  <2>1. ASSUME scan.pc = "none", NEW i \in signed'
        PROVE  \/ i < counter
               \/ \E s \in Tasks : i \in task[s].outs /\ task[s].cmd = "mint" /\ task[s].pc # "done"
    <3>1. CASE i \in signed
      BY <2>1, <3>1 DEF CounterFits, CounterCoversSigned
    <3>2. CASE i \in P
      BY <1>1, <2>1, <3>2 DEF CounterFits, CounterIsFor
    <3>3. QED
      BY <2>1, <3>1, <3>2
  <2>2. QED
    BY <1>1, <2>1 DEF CounterFits, CounterCoversSigned, CounterIsFor
<1>13. MeltIdIsOfPayment' /\ NothingIsLeft'
  BY <1>1 DEF MeltIdIsOfPayment, NothingIsLeft, DealtWith, Undoes
<1>14. QED
  BY <1>3, <1>4, <1>5, <1>6, <1>7, <1>8, <1>9, <1>10, <1>11, <1>12, <1>13

\* Whose request is on its way or in flight.
LEMMA Requesting ==
  ASSUME WalletIInv, NEW t \in Tasks, net[t] \in {"sent", "taken", "pending"}
  PROVE  /\ task[t] \in TaskStates
         /\ task[t].pc \in {"asked", "unreserve", "failed", "crashed", "done"}
         /\ task[t].cmd \in {"mint", "receive", "send", "melt"}
         /\ net[t] = "sent" => promised[t] = {} /\ task[t].pc # "done"
         /\ net[t] = "taken" => task[t].pc # "done"
         /\ InFlight(t) => promised[t] = {}
         /\ task[t].cmd = "melt" => task[t].quote \in MeltQuotes
         /\ meltQuote' = meltQuote => meltQuote' \in [MeltQuotes -> {"UNPAID", "PENDING", "PAID"}]
<1>1. /\ task[t] \in TaskStates /\ StateFits(t, task[t], net[t]) /\ AnswerFits(t, task[t], net[t])
  BY CommandIs
<1>2. task[t].cmd \notin {"none", "check", "burn"}
  BY <1>1 DEF StateFits
<1>3. task[t].cmd \in {"mint", "receive", "send", "melt"}
  BY <1>1, <1>2 DEF TaskStates
<1>4. task[t].pc \in {"asked", "unreserve", "failed", "crashed", "done", "print", "mark"}
  BY <1>1, <1>3 DEF StateFits, StageFits, AnswerFits
<1>5. task[t].pc \notin {"print", "mark"}
  BY <1>1, <1>3 DEF StateFits, StageFits, AnswerFits
<1>6. InFlight(t) => promised[t] = {}
  <2>1. InFlight(t) => task[t].outs \cap signed = {}
    BY DEF WalletIInv, OnePayment
  <2>2. promised[t] \subseteq signed /\ promised[t] \subseteq task[t].outs
    BY <1>1 DEF WalletIInv, SignedOnce, AnswerFits
  <2>3. QED
    BY <2>1, <2>2
<1>7. QED
  BY <1>1, <1>3, <1>4, <1>5, <1>6 DEF AnswerFits, StateFits, WalletIInv, WalletTyped

\* The mint signs.
LEMMA MintSignsKeeps ==
  ASSUME WalletIInv, NEW t \in Tasks, MintSigns(t)
  PROVE  WalletIInv'
<1>1. /\ net[t] = "sent" /\ task[t].outs \cap (signed \cup Blank) = {}
      /\ task[t].cmd \in {"mint", "receive", "send"}
      /\ signed' = signed \cup task[t].outs /\ spent' = spent \cup task[t].took
      /\ net' = [net EXCEPT ![t] = "ok"] /\ promised' = [promised EXCEPT ![t] = task[t].outs]
      /\ UNCHANGED <<counter, held, reserved, meltId, task, scan, meltQuote, handed, raised>>
  BY DEF MintSigns, Acceptable, Answer, rows
<1>2. /\ task[t].pc \in {"asked", "unreserve", "failed", "crashed", "done"}
      /\ promised[t] = {} /\ task[t].pc # "done"
      /\ meltQuote' \in [MeltQuotes -> {"UNPAID", "PENDING", "PAID"}]
  BY <1>1, Requesting
<1>3. \A s \in Tasks : InFlight(s) /\ s # t => task[s].outs \cap task[t].outs = {}
  BY <1>1 DEF Blank
<1>4. ~InFlight(t)'
  BY <1>1 DEF InFlight
<1>5. "ok" \in Answers
  BY DEF Answers
<1>6. \A q \in MeltQuotes : meltQuote'[q] = meltQuote[q]
  BY <1>1
<1>7. task[t].took \subseteq task[t].took /\ task[t].outs \subseteq task[t].outs
      /\ task[t].outs \cap signed = {} /\ task[t].cmd \notin {"none", "check", "burn"}
      /\ task[t].cmd # "melt"
  BY <1>1
<1>8. MayAnswer(t, "ok", task[t].outs, task[t].took)
  BY <1>1, <1>2, <1>3, <1>4, <1>6, <1>7 DEF MayAnswer
<1>9. QED
  BY <1>5, <1>8, MintAnswers

\* The mint refuses, or answers that the payment is pending.
LEMMA MintRefusesKeeps ==
  ASSUME WalletIInv, NEW t \in Tasks, MintRefuses(t) \/ AnswerPending(t)
  PROVE  WalletIInv'
<1>1. PICK a \in {"refused", "pending"} :
        /\ net' = [net EXCEPT ![t] = a]
        /\ a = "refused" => net[t] = "sent"
        /\ a = "pending" => net[t] = "taken" /\ InFlight(t)
  BY DEF MintRefuses, AnswerPending, Answer
<1>2. /\ promised' = promised /\ signed' = signed /\ spent' = spent /\ meltQuote' = meltQuote
      /\ UNCHANGED <<counter, held, reserved, meltId, task, scan, handed, raised>>
  BY DEF MintRefuses, AnswerPending, rows, mint
<1>3. /\ task[t].pc \in {"asked", "unreserve", "failed", "crashed", "done"}
      /\ task[t].cmd \notin {"none", "check", "burn"}
      /\ promised[t] = {} /\ task[t].pc # "done"
      /\ meltQuote' \in [MeltQuotes -> {"UNPAID", "PENDING", "PAID"}]
  BY <1>1, <1>2, Requesting
<1>4. PICK P : P = {}
  OBVIOUS
<1>5. /\ signed' = signed \cup P /\ spent' = spent \cup P
      /\ promised' = [promised EXCEPT ![t] = P]
      /\ P \subseteq task[t].outs /\ P \subseteq task[t].took /\ P \cap signed = {}
      /\ \A s \in Tasks : InFlight(s) /\ s # t => task[s].outs \cap P = {}
  BY <1>2, <1>3, <1>4 DEF WalletIInv, WalletTyped
<1>6. a \in Answers /\ a \notin {"ok", "taken", "sent"} /\ (a = "pending" => task[t].cmd = "melt")
  BY <1>1 DEF Answers, InFlight
<1>7. InFlight(t)' => /\ P = {} /\ task[t].outs \cap signed = {}
                      /\ \A s \in Tasks : InFlight(s) /\ s # t => task[s].outs \cap task[t].outs = {}
  <2>1. CASE a = "refused"
    <3>1. net'[t] = "refused"
      BY <1>1, <2>1 DEF WalletIInv, WalletTyped
    <3>2. QED
      BY <3>1 DEF InFlight
  <2>2. CASE a = "pending"
    BY <1>1, <1>4, <2>2 DEF WalletIInv, OnePayment
  <2>3. QED
    BY <2>1, <2>2
<1>8. \A q \in MeltQuotes : meltQuote'[q] = meltQuote[q]
  BY <1>2
<1>9. MayAnswer(t, a, P, P)
  BY <1>1, <1>2, <1>3, <1>4, <1>5, <1>6, <1>7, <1>8 DEF MayAnswer
<1>10. QED
  BY <1>6, <1>9, MintAnswers

\* The mint takes up a payment.
LEMMA MintTakesMeltKeeps ==
  ASSUME WalletIInv, NEW t \in Tasks, MintTakesMelt(t)
  PROVE  WalletIInv'
<1>1. /\ net[t] = "sent" /\ task[t].outs \cap (signed \cup Blank) = {} /\ task[t].cmd = "melt"
      /\ meltQuote[task[t].quote] = "UNPAID"
      /\ meltQuote' = [meltQuote EXCEPT ![task[t].quote] = "PENDING"]
      /\ net' = [net EXCEPT ![t] = "taken"]
      /\ promised' = promised /\ signed' = signed /\ spent' = spent
      /\ UNCHANGED <<counter, held, reserved, meltId, task, scan, handed, raised>>
  BY DEF MintTakesMelt, Acceptable, Answer, rows
<1>2. /\ task[t].pc \in {"asked", "unreserve", "failed", "crashed", "done"}
      /\ task[t].cmd \notin {"none", "check", "burn"}
      /\ promised[t] = {} /\ task[t].pc # "done"
  BY <1>1, Requesting
<1>3. PICK P : P = {}
  OBVIOUS
<1>4. /\ signed' = signed \cup P /\ spent' = spent \cup P
      /\ promised' = [promised EXCEPT ![t] = P]
      /\ P \subseteq task[t].outs /\ P \subseteq task[t].took /\ P \cap signed = {}
      /\ \A s \in Tasks : InFlight(s) /\ s # t => task[s].outs \cap P = {}
  BY <1>1, <1>2, <1>3 DEF WalletIInv, WalletTyped
<1>5. "taken" \in Answers
  BY DEF Answers
<1>6. \A s \in Tasks : InFlight(s) /\ s # t => task[s].outs \cap task[t].outs = {}
  BY <1>1 DEF Blank
<1>7. /\ meltQuote' \in [MeltQuotes -> {"UNPAID", "PENDING", "PAID"}]
      /\ \A q \in MeltQuotes :
           \/ meltQuote'[q] = meltQuote[q]
           \/ (q = task[t].quote /\ meltQuote[q] # "PAID" /\ meltQuote'[q] # "PAID")
  BY <1>1 DEF WalletIInv, WalletTyped
<1>8. MayAnswer(t, "taken", P, P)
  BY <1>1, <1>2, <1>3, <1>4, <1>6, <1>7 DEF MayAnswer
<1>9. QED
  BY <1>5, <1>8, MintAnswers

\* A payment ends, and its change is signed.
LEMMA PaymentEndsKeeps ==
  ASSUME WalletIInv, NEW t \in Tasks, NEW paid \in BOOLEAN, NEW change, PaymentEnds(t, paid, change)
  PROVE  WalletIInv'
<1>1. /\ InFlight(t)
      /\ meltQuote' = [meltQuote EXCEPT ![task[t].quote] = IF paid THEN "PAID" ELSE "UNPAID"]
      /\ UNCHANGED <<counter, held, reserved, meltId, task, scan, handed, raised>>
      /\ net[t] \in {"taken", "pending"} /\ task[t].cmd = "melt" /\ meltQuote[task[t].quote] = "PENDING"
  BY DEF PaymentEnds, InFlight, rows
<1>2. /\ task[t].pc \in {"asked", "unreserve", "failed", "crashed", "done"}
      /\ promised[t] = {} /\ task[t].quote \in MeltQuotes
      /\ net[t] = "taken" => task[t].pc # "done"
  BY <1>1, Requesting
<1>3. PICK P : P = IF paid THEN Lowest(task[t].outs, change) ELSE {}
  OBVIOUS
<1>4. PICK S : S = IF paid THEN task[t].took ELSE {}
  OBVIOUS
<1>5. PICK a : a = IF net[t] = "taken" THEN (IF paid THEN "ok" ELSE "refused") ELSE "pending"
  OBVIOUS
<1>6. /\ promised' = [promised EXCEPT ![t] = P] /\ signed' = signed \cup P /\ spent' = spent \cup S
      /\ net' = [net EXCEPT ![t] = a] /\ promised'[t] = P
  <2>1. promised' = [promised EXCEPT ![t] = P] /\ promised'[t] = P
    BY <1>3 DEF PaymentEnds, WalletIInv, WalletTyped
  <2>2. signed' = signed \cup P /\ spent' = spent \cup S
    BY <1>4, <2>1 DEF PaymentEnds
  <2>3. net' = [net EXCEPT ![t] = a]
    <3>1. CASE net[t] = "taken"
      BY <1>5, <3>1 DEF PaymentEnds, Answer
    <3>2. CASE net[t] = "pending"
      BY <1>5, <3>2 DEF PaymentEnds, WalletIInv, WalletTyped
    <3>3. QED
      BY <1>1, <3>1, <3>2
  <2>4. QED
    BY <2>1, <2>2, <2>3
<1>7. /\ P \subseteq task[t].outs /\ S \subseteq task[t].took
      /\ task[t].outs \cap signed = {} /\ P \cap signed = {}
      /\ \A s \in Tasks : InFlight(s) /\ s # t =>
           task[s].outs \cap task[t].outs = {} /\ task[s].outs \cap P = {}
  BY <1>1, <1>3, <1>4, LowestAreSome DEF WalletIInv, OnePayment
<1>8. /\ a \in Answers /\ a \notin {"sent", "taken"}
      /\ a \notin {"ok", "pending"} => P = {}
      /\ a = "ok" => task[t].took \subseteq spent \cup S
      /\ task[t].pc = "done" => a = "pending"
  BY <1>1, <1>2, <1>3, <1>4, <1>5 DEF Answers
<1>9. /\ meltQuote' \in [MeltQuotes -> {"UNPAID", "PENDING", "PAID"}]
      /\ meltQuote'[task[t].quote] # "PENDING"
      /\ \A q \in MeltQuotes :
           \/ meltQuote'[q] = meltQuote[q]
           \/ /\ q = task[t].quote /\ meltQuote[q] # "PAID"
              /\ (meltQuote'[q] = "PAID" => task[t].took \subseteq spent \cup S)
  BY <1>1, <1>2, <1>4 DEF WalletIInv, WalletTyped
<1>10. ~InFlight(t)'
  BY <1>1, <1>9 DEF InFlight
<1>11. MayAnswer(t, a, P, S)
  BY <1>1, <1>2, <1>6, <1>7, <1>8, <1>9, <1>10 DEF MayAnswer
<1>12. QED
  BY <1>8, <1>11, MintAnswers

\* Somebody else redeems a note that was handed out.
LEMMA OthersRedeemKeeps ==
  ASSUME WalletIInv, OthersRedeem
  PROVE  WalletIInv'
<1> USE DEF WalletIInv
<1>1. PICK i \in handed : spent' = spent \cup {i}
  BY DEF OthersRedeem
<1>2. /\ UNCHANGED <<counter, held, reserved, meltId, task, net, promised, scan, signed, meltQuote, handed, raised>>
  BY DEF OthersRedeem, rows, wire
<1>3. i \in signed /\ ~Scanning
  BY <1>1 DEF SignedOnce, ScanFits
<1>4. WalletTyped'
  BY <1>2 DEF WalletTyped
<1>5. CommandsFit'
  <2>1. ASSUME NEW s \in Tasks
        PROVE  (StateFits(s, task[s], net[s]) /\ AnswerFits(s, task[s], net[s])
                /\ SpendingFits(task[s], net[s]))'
    <3>1. /\ StateFits(s, task[s], net[s]) /\ AnswerFits(s, task[s], net[s])
          /\ SpendingFits(task[s], net[s])
      BY DEF CommandsFit
    <3>2. StateFits(s, task[s], net[s])'
      BY <1>2, <3>1 DEF StateFits, Scanning
    <3>3. AnswerFits(s, task[s], net[s])'
      BY <1>2, <3>1 DEF AnswerFits
    <3>4. SpendingFits(task[s], net[s])'
      BY <1>1, <1>2, <3>1 DEF SpendingFits
    <3>5. QED
      BY <3>2, <3>3, <3>4
  <2>2. QED
    BY <2>1 DEF CommandsFit
<1>6. OnePayment' /\ MeltIdIsOfPayment' /\ NothingIsLeft'
  BY <1>2 DEF OnePayment, InFlight, MeltIdIsOfPayment, NothingIsLeft, DealtWith, Undoes
<1>7. SignedOnce' /\ NotesEnterOnce' /\ StoredIsHeld'
  BY <1>1, <1>2, <1>3 DEF SignedOnce, NotesEnterOnce, StoredIsHeld, WillStore, HasStored
<1>8. SignaturesAreAwaited' /\ SpentIsTaken'
  BY <1>1, <1>2 DEF SignaturesAreAwaited, SpentIsTaken
<1>9. ScanFits' /\ CounterFits'
  BY <1>1, <1>2, <1>3 DEF ScanFits, CounterFits, CounterCoversSigned, CounterIsFor, Scanning
<1>10. QED
  BY <1>4, <1>5, <1>6, <1>7, <1>8, <1>9

(* The restore *)

\* No command has begun while a wallet is restored.
LEMMA NobodyElse ==
  ASSUME WalletIInv, Scanning
  PROVE  /\ \A t \in Tasks : /\ task[t].pc = "idle" /\ task[t].cmd = "none" /\ task[t] = Idle
                             /\ task[t].took = {} /\ task[t].outs = {} /\ promised[t] = {}
         /\ handed = {}
<1>1. Idle.pc = "idle" /\ Idle.cmd = "none" /\ Idle.took = {} /\ Idle.outs = {}
  BY DEF Idle
<1>2. \A t \in Tasks : task[t] = Idle /\ promised[t] \subseteq task[t].outs
  BY CommandIs DEF StateFits, AnswerFits
<1>3. QED
  BY <1>1, <1>2 DEF WalletIInv, ScanFits

\* A step of a restore keeps the invariant.
LEMMA RestoreSteps ==
  ASSUME WalletIInv, Scanning,
         UNCHANGED <<task, net, promised, signed, spent, meltQuote, handed>>, raised \subseteq raised',
         counter' \in Nat, held' \subseteq signed, reserved' \subseteq held',
         meltId' \in [Index -> MeltQuotes \cup {NoQuote}],
         \A i \in Index : meltId'[i] # NoQuote => meltId'[i] = meltId[i],
         scan' \in Scans, scan'.pc # "none",
         \A i \in signed \ spent : i \in held' \/ i >= scan'.next,
         scan'.ins \subseteq spent, held' \cap spent \subseteq scan'.ins \cup raised',
         Scanning' => counter' = scan'.next,
         scan'.pc \in {"batch", "done"} => scan'.ins = {}
  PROVE  WalletIInv'
<1> USE DEF WalletIInv
<1>1. /\ \A t \in Tasks : /\ task[t].pc = "idle" /\ task[t].cmd = "none" /\ task[t] = Idle
                          /\ task[t].took = {} /\ task[t].outs = {} /\ promised[t] = {}
      /\ handed = {}
  BY NobodyElse
<1>2. WalletTyped'
  BY DEF WalletTyped, SignedOnce
<1>3. CommandsFit'
  <2>1. ASSUME NEW s \in Tasks
        PROVE  (StateFits(s, task[s], net[s]) /\ AnswerFits(s, task[s], net[s])
                /\ SpendingFits(task[s], net[s]))'
    <3>1. /\ StateFits(s, task[s], net[s]) /\ AnswerFits(s, task[s], net[s])
          /\ SpendingFits(task[s], net[s])
      BY DEF CommandsFit
    <3>2. StateFits(s, task[s], net[s])'
      BY <1>1, <3>1 DEF StateFits
    <3>3. AnswerFits(s, task[s], net[s])'
      BY <3>1 DEF AnswerFits
    <3>4. SpendingFits(task[s], net[s])'
      BY <3>1 DEF SpendingFits
    <3>5. QED
      BY <3>2, <3>3, <3>4
  <2>2. QED
    BY <2>1 DEF CommandsFit
<1>4. OnePayment'
  BY DEF OnePayment, InFlight
<1>5. SignedOnce' /\ NotesEnterOnce' /\ StoredIsHeld'
  BY <1>1 DEF SignedOnce, NotesEnterOnce, StoredIsHeld, WillStore, HasStored
<1>6. SignaturesAreAwaited' /\ SpentIsTaken'
  BY <1>1 DEF SignaturesAreAwaited, SpentIsTaken
<1>7. ScanFits' /\ CounterFits'
  BY <1>1 DEF ScanFits, CounterFits
<1>8. MeltIdIsOfPayment' /\ NothingIsLeft'
  BY <1>1 DEF MeltIdIsOfPayment, NothingIsLeft, DealtWith
<1>9. QED
  BY <1>2, <1>3, <1>4, <1>5, <1>6, <1>7, <1>8

\* A batch of restored notes enters the table.
LEMMA RestoreBatchKeeps ==
  ASSUME WalletIInv, RestoreBatch
  PROVE  WalletIInv'
<1> USE WalletAssumption
<1>1. PICK found : found = (scan.next .. scan.next + Batch - 1) \cap signed
  OBVIOUS
<1>2. PICK last : last = IF found = {} THEN 0 ELSE Max(found) - scan.next + 1
  OBVIOUS
<1>3. PICK pc : pc = IF found = {} THEN "batch" ELSE "check"
  OBVIOUS
<1>4. PICK ins : ins = found \cap spent
  OBVIOUS
<1>5. PICK empties : empties = IF found = {} THEN scan.empties + 1 ELSE scan.empties
  OBVIOUS
<1>6. /\ scan.pc = "batch" /\ Scanning /\ counter' = scan.next + Batch
      /\ held' = held \cup found /\ reserved' = reserved /\ meltId' = meltId
      /\ UNCHANGED <<task, net, promised, signed, spent, meltQuote, handed, raised>>
  BY <1>1 DEF RestoreBatch, StoreProofs, wire, mint, Scanning
<1>7. scan' = [scan EXCEPT !.next = @ + Batch, !.found = @ + last, !.empties = empties,
                           !.ins = ins, !.pc = pc]
  BY <1>1, <1>2, <1>3, <1>4, <1>5 DEF RestoreBatch
<1>8. /\ scan \in Scans /\ scan.next \in Nat /\ scan.empties \in Nat /\ scan.found \in Nat
      /\ signed \in SUBSET Index /\ found \subseteq signed
      /\ scan.ins = {} /\ held \cap spent \subseteq scan.ins \cup raised
  BY <1>1, <1>6 DEF WalletIInv, WalletTyped, ScanFits, Scans
<1>9. last \in Nat
  <2>1. CASE found = {}
    BY <1>2, <2>1
  <2>2. CASE found # {}
    <3>1. found \subseteq 0 .. MaxIndex
      BY <1>8 DEF Index
    <3>2. Max(found) \in found
      BY <2>2, <3>1, GreatestIsIn
    <3>3. Max(found) \in Nat /\ Max(found) >= scan.next
      BY <1>1, <1>8, <3>2
    <3>4. QED
      BY <1>2, <1>8, <2>2, <3>3
  <2>3. QED
    BY <2>1, <2>2
<1>10. PICK next \in Nat : next = scan.next + Batch
  BY <1>8
<1>11. PICK all \in Nat : all = scan.found + last
  BY <1>8, <1>9
<1>12. scan' = [scan EXCEPT !.next = next, !.found = all, !.empties = empties, !.ins = ins, !.pc = pc]
  BY <1>7, <1>10, <1>11
<1>13. empties \in Nat /\ ins \in SUBSET Index /\ pc \in {"batch", "check"}
  BY <1>3, <1>4, <1>5, <1>8
<1>14. /\ scan' \in Scans /\ scan'.next = next /\ scan'.ins = ins /\ scan'.pc = pc
  BY <1>8, <1>12, <1>13 DEF Scans
<1>15. \A i \in signed \ spent : i \in held' \/ i >= scan'.next
  <2>1. ASSUME NEW i \in signed \ spent
        PROVE  i \in held' \/ i >= scan'.next
    <3>1. i \in held \/ i >= scan.next
      <4>1. \A t \in Tasks : promised[t] = {}
        BY <1>6, NobodyElse
      <4>2. QED
        BY <4>1 DEF WalletIInv, SignaturesAreAwaited
    <3>2. CASE i >= scan.next
      <4>1. i \in Int
        <5>1. i \in Index
          BY <1>8
        <5>2. QED
          BY <5>1 DEF Index
      <4>2. i >= next \/ i \in scan.next .. scan.next + Batch - 1
        BY <1>8, <1>10, <3>2, <4>1
      <4>3. QED
        BY <1>1, <1>6, <1>14, <4>2
    <3>3. QED
      BY <1>6, <3>1, <3>2
  <2>2. QED
    BY <2>1
<1>16. /\ scan'.ins \subseteq spent /\ held' \cap spent \subseteq scan'.ins \cup raised'
       /\ scan'.pc \in {"batch", "done"} => scan'.ins = {}
       /\ scan'.pc # "none" /\ counter' = scan'.next /\ counter' \in Nat
  BY <1>3, <1>4, <1>6, <1>8, <1>10, <1>13, <1>14
<1>17. /\ held' \subseteq signed /\ reserved' \subseteq held'
       /\ meltId' \in [Index -> MeltQuotes \cup {NoQuote}] /\ \A i \in Index : meltId'[i] = meltId[i]
  BY <1>6, <1>8 DEF WalletIInv, WalletTyped, SignedOnce
<1>18. QED
  BY <1>6, <1>14, <1>15, <1>16, <1>17, RestoreSteps

\* What is spent of it leaves the table.
LEMMA RestoreCheckKeeps ==
  ASSUME WalletIInv, RestoreCheck
  PROVE  WalletIInv'
<1>1. /\ scan.pc = "check" /\ Scanning /\ counter' = counter
      /\ UNCHANGED <<task, net, promised, signed, spent, meltQuote, handed>>
  BY DEF RestoreCheck, wire, mint, Scanning
<1>2. /\ scan \in Scans /\ scan.ins \in SUBSET Index /\ scan.ins \subseteq spent
      /\ held \cap spent \subseteq scan.ins \cup raised /\ counter = scan.next /\ counter \in Nat
      /\ held \subseteq signed
  BY <1>1 DEF WalletIInv, WalletTyped, ScanFits, Scans, SignedOnce
<1>3. \A i \in signed \ spent : i \in held \/ i >= scan.next
  <2>1. \A t \in Tasks : promised[t] = {}
    BY <1>1, NobodyElse
  <2>2. QED
    BY <2>1 DEF WalletIInv, SignaturesAreAwaited
<1>4. CASE scan.ins = {}
  <2>1. /\ scan' = [scan EXCEPT !.pc = "batch"]
        /\ held' = held /\ reserved' = reserved /\ meltId' = meltId /\ raised' = raised
    BY <1>4 DEF RestoreCheck, rows
  <2>2. scan' \in Scans /\ scan'.pc = "batch" /\ scan'.next = scan.next /\ scan'.ins = scan.ins
    BY <1>2, <2>1 DEF Scans
  <2>3. /\ held' \subseteq signed /\ reserved' \subseteq held' /\ counter' \in Nat
        /\ meltId' \in [Index -> MeltQuotes \cup {NoQuote}] /\ \A i \in Index : meltId'[i] = meltId[i]
    BY <1>1, <1>2, <2>1 DEF WalletIInv, WalletTyped
  <2>4. /\ \A i \in signed \ spent : i \in held' \/ i >= scan'.next
        /\ scan'.ins \subseteq spent /\ held' \cap spent \subseteq scan'.ins \cup raised'
        /\ counter' = scan'.next /\ scan'.pc # "none" /\ scan'.ins = {}
    BY <1>1, <1>2, <1>3, <1>4, <2>1, <2>2
  <2>5. QED
    BY <1>1, <2>1, <2>2, <2>3, <2>4, RestoreSteps
<1>5. CASE scan.ins # {}
  <2>1. PICK i : i = Min(scan.ins)
    OBVIOUS
  <2>2. i \in scan.ins /\ i \in spent
    BY <1>2, <1>5, <2>1, FirstIsIn
  <2>3. PICK ins : ins = scan.ins \ {i}
    OBVIOUS
  <2>4. InvalidateOrLog(i) /\ scan' = [scan EXCEPT !.ins = ins]
    BY <1>5, <2>1, <2>3 DEF RestoreCheck
  <2>5. scan' \in Scans /\ scan'.pc = "check" /\ scan'.next = scan.next /\ scan'.ins = scan.ins \ {i}
    BY <1>1, <1>2, <2>3, <2>4 DEF Scans
  <2>6. /\ held' \subseteq held /\ held \ held' \subseteq spent /\ reserved' \subseteq held'
        /\ raised \subseteq raised' /\ (i \notin held' \/ i \in raised')
        /\ meltId' \in [Index -> MeltQuotes \cup {NoQuote}]
        /\ \A j \in Index : meltId'[j] # NoQuote => meltId'[j] = meltId[j]
    BY <2>2, <2>4, RowGoesOrStays
  <2>7. /\ \A j \in signed \ spent : j \in held' \/ j >= scan'.next
        /\ scan'.ins \subseteq spent /\ held' \cap spent \subseteq scan'.ins \cup raised' /\ held' \subseteq signed
        /\ counter' = scan'.next /\ counter' \in Nat /\ scan'.pc # "none"
        /\ scan'.pc \in {"batch", "done"} => scan'.ins = {}
    BY <1>1, <1>2, <1>3, <2>2, <2>5, <2>6
  <2>8. QED
    BY <1>1, <2>5, <2>6, <2>7, RestoreSteps
<1>6. QED
  BY <1>4, <1>5

\* The restore ends, or dies.
LEMMA RestoreEndKeeps ==
  ASSUME WalletIInv, RestoreEnd \/ RestoreCrash
  PROVE  WalletIInv'
<1>1. PICK pc \in {"done", "crashed"} :
        /\ scan' = [scan EXCEPT !.pc = pc]
        /\ pc = "done" => scan.pc = "batch" /\ counter' = counter + (scan.found - scan.next)
        /\ pc = "crashed" => counter' = counter
  BY DEF RestoreEnd, RestoreCrash, BumpSecretDerivation
<1>2. /\ Scanning /\ held' = held /\ reserved' = reserved /\ meltId' = meltId
      /\ UNCHANGED <<task, net, promised, signed, spent, meltQuote, handed, raised>>
  BY DEF RestoreEnd, RestoreCrash, wire, mint, rows, Scanning
<1>3. /\ scan \in Scans /\ scan.ins \in SUBSET Index /\ scan.ins \subseteq spent
      /\ held \cap spent \subseteq scan.ins \cup raised /\ counter = scan.next /\ counter \in Nat
      /\ held \subseteq signed /\ scan.next \in Nat /\ scan.found \in Nat
      /\ scan.pc = "batch" => scan.ins = {}
  BY <1>2 DEF WalletIInv, WalletTyped, ScanFits, Scans, SignedOnce
<1>4. \A i \in signed \ spent : i \in held \/ i >= scan.next
  <2>1. \A t \in Tasks : promised[t] = {}
    BY <1>2, NobodyElse
  <2>2. QED
    BY <2>1 DEF WalletIInv, SignaturesAreAwaited
<1>5. scan' \in Scans /\ scan'.pc = pc /\ scan'.next = scan.next /\ scan'.ins = scan.ins
  BY <1>1, <1>3 DEF Scans
<1>6. /\ held' \subseteq signed /\ reserved' \subseteq held' /\ counter' \in Nat
      /\ meltId' \in [Index -> MeltQuotes \cup {NoQuote}] /\ \A i \in Index : meltId'[i] = meltId[i]
  BY <1>1, <1>2, <1>3 DEF WalletIInv, WalletTyped
<1>7. /\ \A i \in signed \ spent : i \in held' \/ i >= scan'.next
      /\ scan'.ins \subseteq spent /\ held' \cap spent \subseteq scan'.ins \cup raised'
      /\ scan'.pc # "none" /\ ~Scanning'
      /\ scan'.pc \in {"batch", "done"} => scan'.ins = {}
  BY <1>1, <1>2, <1>3, <1>4, <1>5 DEF Scanning
<1>8. QED
  BY <1>2, <1>5, <1>6, <1>7, RestoreSteps

-----------------------------------------------------------------------------
(* The theorems *)

\* Nothing happens.
LEMMA WalletIdles ==
  ASSUME WalletIInv, UNCHANGED walletVars
  PROVE  WalletIInv'
<1>1. /\ UNCHANGED <<counter, held, reserved, meltId, task, net, promised, scan, signed, spent,
                     meltQuote, handed, raised>>
  BY DEF walletVars, rows, mint, wire
<1>2. Scanning' = Scanning /\ \A t \in Tasks : InFlight(t)' <=> InFlight(t)
  BY <1>1 DEF Scanning, InFlight
<1>3. WalletTyped' /\ OnePayment' /\ SignedOnce' /\ NotesEnterOnce' /\ StoredIsHeld'
  BY <1>1, <1>2 DEF WalletIInv, WalletTyped, OnePayment, SignedOnce, NotesEnterOnce, StoredIsHeld,
                    WillStore, HasStored
<1>4. CommandsFit'
  BY <1>1, <1>2 DEF WalletIInv, CommandsFit, StateFits, AnswerFits, SpendingFits
<1>5. SignaturesAreAwaited' /\ SpentIsTaken' /\ ScanFits' /\ CounterFits'
  BY <1>1, <1>2 DEF WalletIInv, SignaturesAreAwaited, SpentIsTaken, ScanFits, CounterFits,
                    CounterCoversSigned, CounterIsFor
<1>6. MeltIdIsOfPayment' /\ NothingIsLeft'
  BY <1>1 DEF WalletIInv, MeltIdIsOfPayment, NothingIsLeft, DealtWith, Undoes
<1>7. QED
  BY <1>3, <1>4, <1>5, <1>6 DEF WalletIInv

\* Every step of a command, of the mint and of a restore keeps it.
LEMMA WalletKeeps ==
  ASSUME WalletIInv, [WalletNext]_walletVars
  PROVE  WalletIInv'
<1>1. CASE Restore
  BY <1>1, RestoreBatchKeeps, RestoreCheckKeeps, RestoreEndKeeps DEF Restore
<1>2. CASE OthersRedeem
  BY <1>2, OthersRedeemKeeps
<1>3. ASSUME NEW t \in Tasks, Command(t)
      PROVE  WalletIInv'
  <2>1. CASE \E q \in MintQuotes : MintTokens(t, q)
    BY <2>1, MintTokensKeeps
  <2>2. CASE \E q \in MeltQuotes : PayInvoice(t, q) \/ GetMeltQuote(t, q)
    BY <2>2, PayInvoiceKeeps, GetMeltQuoteKeeps
  <2>3. CASE BumpAfterMint(t) \/ Redeem(t) \/ SwapToSend(t) \/ SelectToSend(t)
    BY <2>3, BumpAfterMintKeeps, RedeemAndSwapKeep, SelectToSendKeeps
  <2>4. CASE PrintToken(t) \/ SetReservedForSend(t) \/ PostMelt(t) \/ UnreserveMelt(t)
    BY <2>4, PrintTokenKeeps, SetReservedForSendKeeps, PostMeltKeeps, UnreserveMeltKeeps
  <2>5. CASE ApplyMeltQuote(t) \/ Burn(t) \/ Answered(t) \/ ConnectionLost(t)
    BY <2>5, ApplyMeltQuoteKeeps, BurnKeeps, AnsweredKeeps
  <2>6. CASE ConstructProofs(t) \/ Invalidate(t) \/ Crash(t)
    BY <2>6, ConstructProofsKeeps, InvalidateKeeps, CrashKeeps
  <2>7. QED
    BY <1>3, <2>1, <2>2, <2>3, <2>4, <2>5, <2>6 DEF Command
<1>4. ASSUME NEW t \in Tasks, Mint(t)
      PROVE  WalletIInv'
  BY <1>4, MintSignsKeeps, MintRefusesKeeps, MintTakesMeltKeeps, PaymentEndsKeeps DEF Mint
<1>5. CASE UNCHANGED walletVars
  BY <1>5, WalletIdles
<1>6. QED
  BY <1>1, <1>2, <1>3, <1>4, <1>5 DEF WalletNext

\* The inductive invariant of a wallet: what its commands are about, what they
\* have been promised and taken, and what of it the tables and the counter show,
\* for any number of commands, quotes, indexes and crashes.
THEOREM WalletInvariant == WalletSpec => []WalletIInv
<1>1. WalletInit => WalletIInv
  BY WalletStarts
<1>2. WalletIInv /\ [WalletNext]_walletVars => WalletIInv'
  BY WalletKeeps
<1>3. QED
  BY <1>1, <1>2, PTL DEF WalletSpec

\* A command never draws the index of a signature the wallet has asked for
\* before: the counter is beyond every index that was signed, but for a mint
\* command that the mint has answered and that has not bumped it (Wallet.mint
\* bumps after the request).
THEOREM CounterIsAhead == WalletSpec => []CounterCoversSigned
<1>1. WalletIInv => CounterCoversSigned
  <2>1. WalletIInv /\ scan.pc = "none" => CounterCoversSigned
    BY DEF WalletIInv, CounterFits
  <2>2. scan.pc # "none" => CounterCoversSigned
    BY DEF CounterCoversSigned
  <2>3. QED
    BY <2>1, <2>2
<1>2. QED
  BY <1>1, WalletInvariant, PTL

\* No unspent signature is out of reach of the wallet: its note is in the table,
\* or a command that has not come to its end has asked for it, or it is the
\* change of a payment that was pending, or restore has yet to come to it.
THEOREM SignaturesAreAccountedFor == WalletSpec => []SignedIsAccountedFor
<1>1. ASSUME WalletIInv, NEW i \in signed \ spent
      PROVE  \/ i \in held
             \/ \E t \in Tasks : i \in task[t].outs /\ (task[t].pc # "done" \/ net[t] = "pending")
             \/ scan.pc # "none" /\ i >= scan.next
  <2>1. \A t \in Tasks : promised[t] \subseteq task[t].outs
    BY <1>1 DEF WalletIInv, CommandsFit, AnswerFits
  <2>2. QED
    BY <1>1, <2>1 DEF WalletIInv, SignaturesAreAwaited
<1>2. WalletIInv => SignedIsAccountedFor
  BY <1>1 DEF SignedIsAccountedFor
<1>3. QED
  BY <1>2, WalletInvariant, PTL

\* The balance counts no note that is spent, unless a command was interrupted,
\* two commands took the same note, the wallet is being restored, or the
\* database raised when the row was to go and invalidate only logged it: a send,
\* a payment, a check or a burn that runs to its end alone, with no such
\* exception, leaves none behind.
THEOREM BalancesAreExplained == WalletSpec => []BalanceIsExplained
<1>1. ASSUME WalletIInv, NEW i \in Available \cap spent
      PROVE  \/ \E t \in Tasks : i \in task[t].took /\ task[t].pc # "done"
             \/ \E t, s \in Tasks : t # s /\ i \in task[t].took \cap task[s].took
             \/ scan.pc # "none" /\ scan.pc # "done"
             \/ i \in raised
  <2>1. i \in held /\ i \notin reserved
    BY DEF Available
  <2>2. CASE \E t \in Tasks : i \in task[t].took
    <3>1. PICK t \in Tasks : i \in task[t].took
      BY <2>2
    <3>2. CASE task[t].pc = "done"
      <4>1. i \in DealtWith(task[t])
        BY <3>1, <3>2 DEF DealtWith
      <4>2. QED
        BY <1>1, <2>1, <3>1, <4>1 DEF WalletIInv, NothingIsLeft
    <3>3. QED
      BY <3>1, <3>2
  <2>3. QED
    BY <1>1, <2>1, <2>2 DEF WalletIInv, SpentIsTaken
<1>2. WalletIInv => BalanceIsExplained
  BY <1>1 DEF BalanceIsExplained
<1>3. QED
  BY <1>2, WalletInvariant, PTL
=============================================================================
