------------------------------- MODULE Amounts -------------------------------
(***************************************************************************)
(* The arithmetic of ecash: how the wallet chooses coins for a payment,     *)
(* splits amounts into powers of two, includes fees and posts a swap; what  *)
(* the mint's balance equation makes of it; and how the overpaid fee of a   *)
(* melt comes back on blank outputs.                                        *)
(*                                                                         *)
(* Fees are in ppk, so amounts are compared in thousandths, exactly (the    *)
(* code's floats round).  The purse is the wallet's list of proofs: a coin  *)
(* keeps its position when others leave, and new ones come behind it.  A    *)
(* set of coins is a set of positions.                                      *)
(***************************************************************************)
EXTENDS Integers, Sequences, SequencesExt, FiniteSets

CONSTANTS
  KeysetPpk,       \* input_fee_ppk of each keyset
  ActiveKeyset,    \* the keyset of every output
  Purses,          \* the purses a behaviour starts from
  Requested,       \* amounts to send
  FeeReserves,     \* fee reserves of melts
  TargetCount,     \* settings.wallet_target_amount_count
  AllowedAmounts,  \* get_allowed_amounts: those of the active keyset's keys, sorted
  MaxOrder,        \* the mint takes amounts below 2^MaxOrder
  Nothing, MaxPayments

Amount == Nat \ {0}
Coin == [amt : Amount, ks : DOMAIN KeysetPpk]
SumOf(coins, S) == SumFunctionOnSet([i \in DOMAIN coins |-> coins[i].amt], S)

\* no wallet owns as much as the first amount that the mint refuses
ASSUME AmountsAssumption ==
  /\ \A k \in DOMAIN KeysetPpk : KeysetPpk[k] \in Nat
  /\ ActiveKeyset \in DOMAIN KeysetPpk
  /\ 2^MaxOrder \in Amount
  /\ \A p \in Purses : p \in Seq(Coin) /\ SumOf(p, DOMAIN p) < 2^MaxOrder
  /\ Requested \subseteq Amount /\ FeeReserves \subseteq Nat
  /\ TargetCount \in Nat /\ AllowedAmounts \in Seq(Amount)

VARIABLES
  purse,           \* the wallet's coins, from their positions
  payment,         \* the last payment: what was asked for and what was sent
  posted,          \* the last swap the wallet posted
  overpaid,        \* the last melt: the overpaid fee and what came back
  payments         \* payments so far

amountVars == <<purse, payment, posted, overpaid, payments>>

PpkOf(coins, S) == SumFunctionOnSet([i \in DOMAIN coins |-> KeysetPpk[coins[i].ks]], S)

\* get_fees_for_proofs, the same formula in the wallet and in the mint
FeesOf(coins, S) == (PpkOf(coins, S) + 999) \div 1000

\* amount_split: the bits that are set, smallest first
Doubled(amounts) == [i \in DOMAIN amounts |-> 2 * amounts[i]]
AmountSplit[n \in Nat] ==
  IF n = 0 THEN <<>>
  ELSE (IF n % 2 = 1 THEN <<1>> ELSE <<>>) \o Doubled(AmountSplit[n \div 2])

(* coinselect(proofs, need / 1000): sorted by amount, the list's order among *)
(* equals.                                                                  *)
Smallest(coins, S) == CHOOSE i \in S : \A j \in S :
  coins[i].amt < coins[j].amt \/ (coins[i].amt = coins[j].amt /\ i <= j)
Largest(coins, S) == CHOOSE i \in S : \A j \in S :
  coins[i].amt > coins[j].amt \/ (coins[i].amt = coins[j].amt /\ i <= j)

\* one call of it, on the coins S; others[T][m] is the call on T for m
SelectFrom(coins, S, need, withFees, others) ==
  LET small == {i \in S : 1000 * coins[i].amt <= need}
      big == S \ small
      first == Largest(coins, small)
      rest == need - 1000 * coins[first].amt
                + IF withFees THEN KeysetPpk[coins[first].ks] ELSE 0
      taken == {first} \cup IF rest > 0 THEN others[small \ {first}][rest] ELSE {}
  IN IF 1000 * SumOf(coins, S) < need \/ S = {} THEN {}
     ELSE IF small = {} \/ (1000 * SumOf(coins, taken) < need /\ big # {})
     THEN {Smallest(coins, big)}
     ELSE taken

CoinSelect(coins, need, withFees) ==
  LET select[S \in SUBSET DOMAIN coins] ==
        [m \in Int |-> SelectFrom(coins, S, m, withFees, select)]
  IN select[DOMAIN coins][need]

\* split_wallet_state: fill up each amount to the target, then binary
Missing(coins, a) ==
  LET have == Cardinality({i \in DOMAIN coins : coins[i].amt = a})
  IN IF have < TargetCount THEN TargetCount - have ELSE 0
Wanted(coins) ==
  FlattenSeq([i \in DOMAIN AllowedAmounts |->
    [j \in 1 .. Missing(coins, AllowedAmounts[i]) |-> AllowedAmounts[i]]])
WalletSplit(coins, n) ==
  LET want == Wanted(coins)
      upTo(k) == SumFunctionOnSet(want, 1 .. k)
      k == CHOOSE k \in 0 .. Len(want) :
             upTo(k) <= n /\ (k < Len(want) => upTo(k + 1) > n)
  IN SubSeq(want, 1, k) \o AmountSplit[n - upTo(k)]

\* mutant: the fee of the outputs is taken for the fee of the inputs
DetermineByOutputs(coins, S, n, withFees) ==
  LET extra == IF withFees
               THEN (Len(AmountSplit[n]) * KeysetPpk[ActiveKeyset] + 999) \div 1000
               ELSE 0
  IN [keep |-> SumOf(coins, S) - n - 2 * extra, send |-> n + extra]

\* determine_output_amounts
DetermineOutputs(coins, S, n, withFees) ==
  LET extra == IF withFees
               THEN (Len(AmountSplit[n]) * KeysetPpk[ActiveKeyset] + 999) \div 1000
               ELSE 0
  IN [keep |-> SumOf(coins, S) - n - extra - FeesOf(coins, S), send |-> n + extra]

\* _verify_equation_balanced and _verify_amount
MintBalances(coins, S, outs) ==
  /\ S # {} /\ outs # <<>>
  /\ \A i \in DOMAIN outs : outs[i] > 0 /\ outs[i] < 2^MaxOrder
  /\ SumFunction(outs) + FeesOf(coins, S) = SumOf(coins, S)

\* coins are taken out of the list, others put behind the last one
Without(coins, S) == [i \in DOMAIN coins \ S |-> coins[i]]
LastOf(coins) == CHOOSE i \in DOMAIN coins \cup {0} : \A j \in DOMAIN coins : j <= i
With(coins, amounts) ==
  [i \in DOMAIN coins \cup {LastOf(coins) + j : j \in DOMAIN amounts} |->
     IF i \in DOMAIN coins THEN coins[i]
     ELSE [amt |-> amounts[i - LastOf(coins)], ks |-> ActiveKeyset]]

AmountsInit ==
  /\ purse = <<>> /\ payment = Nothing /\ posted = Nothing
  /\ overpaid = Nothing /\ payments = 0

FillPurse(p) ==
  /\ purse = <<>> /\ payments = 0
  /\ purse' = p
  /\ UNCHANGED <<payment, posted, overpaid, payments>>

\* select_to_send finds a selection offline
SendSelected(n, withFees) ==
  LET S == CoinSelect(purse, 1000 * n, withFees)
  IN /\ payments < MaxPayments
     /\ SumOf(purse, DOMAIN purse) >= n
     /\ S # {} /\ SumOf(purse, S) <= n + FeesOf(purse, S)
     /\ payment' = [asked |-> n, withFees |-> withFees, sent |-> SumOf(purse, S),
                    fees |-> FeesOf(purse, S)]
     /\ purse' = Without(purse, S)
     /\ payments' = payments + 1
     /\ UNCHANGED <<posted, overpaid>>

\* swap_to_send: online, with the coins of retired keysets swept along; a
\* negative amount to keep raises in split_wallet_state
SwapCoins(n) ==
  CoinSelect(purse, 1000 * n, TRUE)
    \cup {i \in DOMAIN purse : purse[i].ks # ActiveKeyset}

SendSwapped(n, withFees) ==
  LET offline == CoinSelect(purse, 1000 * n, withFees)
      S == SwapCoins(n)
      out == DetermineOutputs(purse, S, n, withFees)
      keeps == WalletSplit(purse, out.keep)
      sends == AmountSplit[out.send]
      ok == MintBalances(purse, S, keeps \o sends)
  IN /\ payments < MaxPayments
     /\ SumOf(purse, DOMAIN purse) >= n
     /\ offline = {} \/ SumOf(purse, offline) > n + FeesOf(purse, offline)
     /\ out.keep >= 0
     /\ posted' = [accepted |-> ok]
     /\ payment' = IF ok THEN [asked |-> n, withFees |-> withFees,
                               sent |-> SumFunction(sends), fees |-> 0]
                         ELSE Nothing
     /\ purse' = IF ok THEN With(Without(purse, S), keeps) ELSE purse
     /\ payments' = payments + 1
     /\ UNCHANGED overpaid

\* mutant: the logarithm is rounded down
LogDown[f \in Nat] == IF f <= 1 THEN 0 ELSE 1 + LogDown[f \div 2]
BlankOutputsFloor(f) ==
  IF f = 0 THEN 0 ELSE IF LogDown[f] < 1 THEN 1 ELSE LogDown[f]

\* calculate_number_of_blank_outputs: ceil(log2(f)), and at least 1
LogUp[f \in Nat] == IF f <= 1 THEN 0 ELSE 1 + LogUp[(f + 1) \div 2]
BlankOutputs(f) ==
  IF f = 0 THEN 0 ELSE IF LogUp[f] < 1 THEN 1 ELSE LogUp[f]

\* _generate_change_promises: the largest powers, one per blank output
ChangeOn(blanks, fee) ==
  LET amounts == AmountSplit[fee]
  IN SumFunctionOnSet(amounts, {i \in DOMAIN amounts : i > Len(amounts) - blanks})

\* a melt whose payment cost less than its reserve
MeltReturns(reserve, fee) ==
  /\ payments < MaxPayments
  /\ overpaid' = [fee |-> reserve - fee,
                  back |-> ChangeOn(BlankOutputs(reserve), reserve - fee)]
  /\ payments' = payments + 1
  /\ UNCHANGED <<purse, payment, posted>>

AmountsNext ==
  \/ \E p \in Purses : FillPurse(p)
  \/ \E n \in Requested, f \in BOOLEAN : SendSelected(n, f)
  \/ \E n \in Requested, f \in BOOLEAN : SendSwapped(n, f)
  \/ \E R \in FeeReserves, fee \in FeeReserves \cup {0} :
       fee <= R /\ MeltReturns(R, fee)

AmountsSpec == AmountsInit /\ [][AmountsNext]_amountVars

(* Properties.                                                              *)

(* Wallet and mint agree on the arithmetic (transactions.py:185-234 against *)
(* verification.py:261-281): every swap the wallet posts to make change     *)
(* satisfies the mint's balance equation, with coins of several keysets,    *)
(* included fees and coins of retired keysets swept along.                  *)
PostedSwapsBalance == posted # Nothing => posted.accepted

(* "The formula ensures that any overpaid fees can be represented by the    *)
(* blank outputs" (core/helpers.py:62-72): the mint's imprint returns all   *)
(* of it.                                                                   *)
OverpaidFeeComesBack == overpaid # Nothing => overpaid.back = overpaid.fee

(* "Selects proofs such that a desired `amount` can be sent"                *)
(* (wallet.py:1172).  With fees included, the selection of the rest may be  *)
(* empty for want of the fee, and what was selected so far is sent.         *)
SelectionCoversAmount ==
  (payment # Nothing /\ payment.withFees) => payment.sent >= payment.asked
=============================================================================
