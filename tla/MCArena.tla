------------------------------ MODULE MCArena ------------------------------
(* Few addresses, so that they are given out again, and lists that begin  *)
(* with room for one entry, so that they grow soon and more than once.    *)
EXTENDS Arena, TLC

AddrsSymmetric == Permutations(Addrs)
=============================================================================
