------------------------------- MODULE MCSwap -------------------------------
(* Small instances of Swap: two keysets, the second with an input fee.  And *)
(* of Upkeep, the other part whose steps need fairness, in behaviours of its *)
(* own.                                                                      *)
EXTENDS Swap, Upkeep, FiniteSetsExt

CONSTANTS a1, a2, b1, b2, b3, b4, kOld, kNew, r1, r2, u1, u2, v1, v2

MCTokens == {a1, a2, b1, b2, b3, b4}
MCKeysets == {kOld, kNew}
MCKeysetOf == [t \in MCTokens |-> IF t \in {a1, a2} THEN kOld ELSE kNew]

\* Powers of two, so that two swaps can compete for the same outputs with
\* different inputs (a1 and b1 both pay for b2 b4) and notes of the second
\* generation can be swapped again (a1 a2 -> b3 -> b2 b4).
MCAmount == [t \in MCTokens |->
               CASE t \in {a2, b2} -> 1 [] t = b4 -> 2 [] OTHER -> 4]
MCSum == [S \in SUBSET MCTokens |-> MapThenSumSet(LAMBDA t : MCAmount[t], S)]
MCValue(S) == MCSum[S]

MCInputFeePpk == [k \in MCKeysets |-> IF k = kOld THEN 100 ELSE 300]
MCPpkSum == [S \in SUBSET MCTokens |->
               MapThenSumSet(LAMBDA t : MCInputFeePpk[MCKeysetOf[t]], S)]
MCPpk(S) == MCPpkSum[S]

MCGenesis == {a1, a2, b1}
MCSwaps == {r1, r2}

\* A node that holds what was issued, and no payment in or out: while nothing
\* is in flight the watchdog's test (balance + fees > node balance) is quiet.
RecordedBalance == MapThenSumSet(LAMBDA k : balance[k], Keysets)
WatchdogAccepts ==
  pending = {} => RecordedBalance + RecordedFees <= Value(Genesis)

TwoBackends == <<u1, u2>>

VARIABLE part
runVars == <<part, swapVars, upkeepVars>>

Init == part \in {"swaps", "upkeep"} /\ SwapInit /\ UpkeepInit
SwapsRun(A) == part = "swaps" /\ A /\ UNCHANGED <<part, upkeepVars>>
UpkeepRun(A) == part = "upkeep" /\ A /\ UNCHANGED <<part, swapVars>>
Next == SwapsRun(SwapNext) \/ UpkeepRun(UpkeepNext)
Spec == Init /\ [][Next]_runVars

\* the fairness of SwapFairSpec
SwapFair == \A r \in Swaps : WF_runVars(SwapsRun(SwapStep(r)))
\* the task goes on, somebody starts the mint again, and a backend that is asked
\* again and again works at some time, and answers for each of the quotes
UpkeepFair ==
  /\ WF_runVars(UpkeepRun(TaskStep))
  /\ \A q \in HeldQuotes : SF_runVars(UpkeepRun(QuoteAnswered(q)))
  /\ WF_runVars(UpkeepRun(StartMint \/ StartLedger))
  /\ \A n \in {0, 1} : SF_runVars(UpkeepRun(checked = n /\ BackendWorks))
FairSpec == Spec /\ SwapFair /\ UpkeepFair
=============================================================================
