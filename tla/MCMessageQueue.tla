---------------------------- MODULE MCMessageQueue ----------------------------
(***************************************************************************)
(* Threads, workers and requests are interchangeable; uuids are not, when  *)
(* clients supply some of them and the others are generated.               *)
(***************************************************************************)
EXTENDS MessageQueue, TLC

Symmetry == Permutations(Threads) \union Permutations(Workers)
              \union Permutations(Ids)
=============================================================================
