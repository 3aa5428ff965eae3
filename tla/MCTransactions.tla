---------------------------- MODULE MCTransactions ----------------------------
(* Two scopes and two keys for the units of work of Transactions. *)
EXTENDS Transactions, TLC

\* No call orders the keys.
Symmetry == Permutations(Keys)

===============================================================================
