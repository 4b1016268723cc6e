----------------------------- MODULE MCDagFile -----------------------------
(***************************************************************************)
(* DagFile instantiated for TLC: four dataset nodes with the callback     *)
(* consulted at nodes 0 and 2, two handle addresses.                       *)
(***************************************************************************)
EXTENDS DagFile, TLC

CONSTANTS h1, h2

MCIds == {h1, h2}

\* Handle addresses are interchangeable.
MCSymmetry == Permutations(MCIds)

=============================================================================
