-------------------------------- MODULE MCLRU --------------------------------
(* A small instance of LRU for TLC: four keys, and values of every size    *)
(* from nothing to more than the whole cache.                              *)
EXTENDS LRU

MCValue == {"empty", "one", "two", "five"}
MCSize == [v \in MCValue |->
             CASE v = "empty" -> 0 [] v = "one" -> 1 [] v = "two" -> 2 [] OTHER -> 5]
=============================================================================
