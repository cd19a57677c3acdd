------------------------------- MODULE MCWallet -------------------------------
(* A small instance of Wallet: two commands that run at the same time, which *)
(* no constant tells apart, and any backup of the first four secrets.        *)
EXTENDS Wallet, TLC

backups == SUBSET (0 .. 3)
taskSymmetry == Permutations(Tasks)
=============================================================================
