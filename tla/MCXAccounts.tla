---------------------------- MODULE MCXAccounts ----------------------------
(* Small instances of XAccounts for TLC: tokens, ids, workers and callers  *)
(* are interchangeable.                                                    *)
EXTENDS XAccounts, TLC

Symmetry == Permutations(Tokens) \cup Permutations(RowIds)
              \cup Permutations(Workers) \cup Permutations(Callers)
=============================================================================
