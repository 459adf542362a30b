----------------------------- MODULE MCAccounts -----------------------------
(* Values of the constants of Accounts for TLC.                            *)
EXTENDS Accounts, TLC

CONSTANTS s1, s2, n1, n2, n3, fp1

MCCertOf == [s \in Sessions |-> fp1]
Symm == Permutations(Names) \cup Permutations(Sessions)

=============================================================================
