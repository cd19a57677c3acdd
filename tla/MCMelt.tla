-------------------------------- MODULE MCMelt --------------------------------
(* Small instances of Melt: proofs of one keyset, blank outputs of another.  *)
EXTENDS Melt, FiniteSetsExt, TLC

CONSTANTS a1, a2, c1, c2, kOld, kNew, qe, qi, mq, m1, m2, g1, g2

MCTokens == {a1, a2, c1, c2}
FewTokens == {a1, a2, c2}
MCKeysets == {kOld, kNew}
OneKeyset == {kOld}    \* never rotated out
MCKeysetOf == [t \in Tokens |->
  IF t \in {a1, a2} \/ kNew \notin Keysets THEN kOld ELSE kNew]
MCAmount == [t \in MCTokens |-> CASE t = c1 -> 1 [] t = c2 -> 2 [] OTHER -> 4]
MCSum == [S \in SUBSET MCTokens |-> MapThenSumSet(LAMBDA t : MCAmount[t], S)]
MCValue(S) == MCSum[S]

\* 300 ppk per input: one or two inputs cost a fee of 1
MCPpk(S) == 300 * Cardinality(S)
MCGenesis == Tokens \cap {a1, a2}

\* an external quote, and one that pays the mint's own invoice
ExternalQuote == {qe}
BothQuotes == {qe, qi}
MCInternal == [q \in MeltQuotes |-> IF q = qi THEN mq ELSE NoQuote]
OneMintQuote == {mq}
MCQuoteAmount == [q \in OneMintQuote |-> 1]
MCMeltAmount == [q \in MeltQuotes |-> 1]
MCFeeReserve == [q \in MeltQuotes |-> IF q = qi THEN 0 ELSE 1]

OneMelt == {m1}
TwoMelts == {m1, m2}
Symmetry == Permutations(TwoMelts)
OnePoller == {g1}
TwoPollers == {g1, g2}
=============================================================================
