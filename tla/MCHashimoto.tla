----------------------------- MODULE MCHashimoto -----------------------------
(***************************************************************************)
(* A small instance of the hash engine: 8-bit words, two-word nodes, two   *)
(* nodes per page, two epochs with caches of 3 and 5 nodes and datasets of *)
(* 2 and 3 pages, one header and two nonces; ^ is the bitwise exclusive or.*)
(***************************************************************************)
EXTENDS Hashimoto, Bitwise

MCCacheSize == [e \in {0, 1} |-> IF e = 0 THEN 3 ELSE 5]
MCDataPages == [e \in {0, 1} |-> IF e = 0 THEN 2 ELSE 3]
MCHeaders == {<<7, 200>>}
MCXor(a, b) == a ^^ b
================================================================================
