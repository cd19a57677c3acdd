---------------------------- MODULE MCMintQuote ----------------------------
(* Small instances of MintQuote: one keyset to mint in, one rotated away.   *)
EXTENDS MintQuote, FiniteSetsExt

CONSTANTS a1, a2, b1, kOld, kNew, q1, q2, m1, m2, m3, g1

MCTokens == {a1, a2, b1}
MCFewTokens == {a1, b1}
MCKeysets == {kOld, kNew}
MCKeysetOf == [t \in Tokens |-> IF t = b1 THEN kNew ELSE kOld]
MCSum == [S \in SUBSET MCTokens |-> MapThenSumSet(LAMBDA t : 2, S)]
MCValue(S) == MCSum[S]
MCPpk(S) == 0

OneQuote == {q1}
TwoQuotes == {q1, q2}
MCQuoteAmount == [q \in TwoQuotes |-> 2]
TwoMints == {m1, m2}
ThreeMints == {m1, m2, m3}
OnePoller == {g1}
=============================================================================
