------------------------------ MODULE MCAccounts ------------------------------
(***************************************************************************)
(* Threads, workers and uuids are interchangeable.                         *)
(***************************************************************************)
EXTENDS Accounts, TLC

Symmetry == Permutations(Threads) \union Permutations(TokenWorkers)
              \union Permutations(UserUuids) \union Permutations(TokenUuids)
=============================================================================
