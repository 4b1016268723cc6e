---------------------------- MODULE MCLightHandle ----------------------------
(***************************************************************************)
(* Small instances of the light handle: an epoch of one block, two epochs *)
(* in the tables, and a seed counter of W bits, so that 2^W epochs are a  *)
(* block number a caller can pass, as 2^32 epochs are for the uint64_t     *)
(* block number of the code.                                               *)
(***************************************************************************)
EXTENDS LightHandle
=============================================================================
