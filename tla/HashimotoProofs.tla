--------------------------- MODULE HashimotoProofs ---------------------------
(***************************************************************************)
(* Proofs that the two paths of vecash_hash agree and that the quick      *)
(* verifier accepts what they return, for every word width, node and page *)
(* shape, loop bound, table of sizes and choice of the ^ operator.        *)
(*                                                                         *)
(* Neither proof looks inside the hash: the light path and the full path  *)
(* run the same mix loop Mix over the table of nodes DagPages it reads,   *)
(* so it is enough that the two tables are equal (DagPagesAgree), and the *)
(* quick verifier rebuilds the very term vecash_hash hashes last           *)
(* (MixQuick).                                                             *)
(***************************************************************************)
EXTENDS Hashimoto, TLAPS

USE HashAssumption

\* The dataset vecash_compute_full_data builds holds item k at node k.
LEMMA FullDataItem ==
    ASSUME NEW cache, NEW P, NEW maxN \in Nat, NEW k \in 0 .. maxN - 1
    PROVE  ComputeFullData(cache, P, maxN)[k] = CalculateDagItem(cache, P, k)
BY DEF ComputeFullData

(***************************************************************************)
(* Node n of page index is node MIX_NODES * index + n of a dataset of     *)
(* pages * MIX_NODES nodes, and the light path's index * MIX_NODES + n is *)
(* the same number.                                                        *)
(***************************************************************************)
LEMMA PageNodeInRange ==
    ASSUME NEW pages \in Nat \ {0}, NEW index \in 0 .. pages - 1,
           NEW n \in 0 .. MixNodes - 1
    PROVE  /\ MixNodes * index + n \in 0 .. pages * MixNodes - 1
           /\ index * MixNodes + n = MixNodes * index + n
<1>1. MixNodes * index <= MixNodes * (pages - 1)
    OBVIOUS
<1>2. MixNodes * (pages - 1) = pages * MixNodes - MixNodes
    OBVIOUS
<1>3. QED
    BY <1>1, <1>2

(***************************************************************************)
(* The full path reads the dataset vecash_full_new built from the light    *)
(* cache at MIX_NODES * index + n; the light path computes item            *)
(* index * MIX_NODES + n from the same cache: node for node, page for     *)
(* page, the two tables the mix loop reads are the same.                  *)
(***************************************************************************)
LEMMA DagPagesAgree ==
    ASSUME NEW e \in Epochs
    PROVE  DagPages([full |-> FullOf[e]], DataPages[e])
             = DagPages([cache |-> CacheOf[e], P |-> CacheSize[e]], DataPages[e])
<1> DEFINE fsrc == [full |-> FullOf[e]]
           lsrc == [cache |-> CacheOf[e], P |-> CacheSize[e]]
<1>1. ASSUME NEW index \in 0 .. DataPages[e] - 1, NEW n \in 0 .. MixNodes - 1
      PROVE  DagNode(fsrc, index, n) = DagNode(lsrc, index, n)
    <2>1. DataPages[e] \in Nat \ {0}
        OBVIOUS
    <2>2. DagNode(fsrc, index, n) = FullOf[e][MixNodes * index + n]
        BY DEF DagNode
    <2>3. DagNode(lsrc, index, n)
            = CalculateDagItem(CacheOf[e], CacheSize[e], index * MixNodes + n)
        BY DEF DagNode
    <2>4. FullOf[e] = ComputeFullData(CacheOf[e], CacheSize[e], DataPages[e] * MixNodes)
        BY DEF FullOf
    <2>5. /\ MixNodes * index + n \in 0 .. DataPages[e] * MixNodes - 1
          /\ index * MixNodes + n = MixNodes * index + n
        BY <2>1, PageNodeInRange
    <2>6. DataPages[e] * MixNodes \in Nat
        BY <2>1
    <2>7. QED
        BY <2>2, <2>3, <2>4, <2>5, <2>6, FullDataItem
<1>2. QED
    BY <1>1 DEF DagPages

\* vecash_full_compute returns what vecash_light_compute returns.
LEMMA HashPathsEqual ==
    ASSUME NEW e \in Epochs, NEW h \in Headers, NEW x \in Nonces
    PROVE  FullHashOf[e][h][x] = LightHashOf[e][h][x]
<1>1. FullHashOf[e][h][x] = VecashHash([full |-> FullOf[e]], DataPages[e], h, x)
    BY DEF FullHashOf
<1>2. LightHashOf[e][h][x]
        = VecashHash([cache |-> CacheOf[e], P |-> CacheSize[e]], DataPages[e], h, x)
    BY DEF LightHashOf
<1>3. VecashHash([full |-> FullOf[e]], DataPages[e], h, x)
        = VecashHash([cache |-> CacheOf[e], P |-> CacheSize[e]], DataPages[e], h, x)
    BY DagPagesAgree DEF VecashHash
<1>4. QED
    BY <1>1, <1>2, <1>3

\* vecash_quick_hash rebuilds the last SHA3-256 of vecash_hash from the
\* header, the nonce and the mix_hash it returned.
LEMMA MixQuick ==
    ASSUME NEW page, NEW pages, NEW h, NEW x
    PROVE  QuickHash(h, x, Mix(page, pages, h, x).mixHash) = Mix(page, pages, h, x).result
BY DEF Mix, QuickHash

LEMMA LightQuick ==
    ASSUME NEW e \in Epochs, NEW h \in Headers, NEW x \in Nonces
    PROVE  QuickHash(h, x, LightHashOf[e][h][x].mixHash) = LightHashOf[e][h][x].result
<1> DEFINE page == DagPages([cache |-> CacheOf[e], P |-> CacheSize[e]], DataPages[e])
<1>1. LightHashOf[e][h][x] = Mix(page, DataPages[e], h, x)
    BY DEF LightHashOf, VecashHash
<1>2. QED
    BY <1>1, MixQuick

-----------------------------------------------------------------------------

LEMMA InitResultsLight == Init => ResultsLight
BY DEF Init, ResultsLight

LEMMA NextResultsLight == ResultsLight /\ [Next]_vars => ResultsLight'
<1> SUFFICES ASSUME ResultsLight, [Next]_vars PROVE ResultsLight'
    OBVIOUS
<1>1. CASE \E e \in Epochs : LightNew(e)
    BY <1>1 DEF LightNew, ResultsLight
<1>2. CASE LightDelete \/ FullDelete \/ FullNew
    BY <1>2 DEF LightDelete, FullDelete, FullNew, ResultsLight
<1>3. CASE \E h \in Headers, x \in Nonces : LightCompute(h, x)
    <2> PICK h \in Headers, x \in Nonces : LightCompute(h, x)
        BY <1>3
    <2>1. light \in Epochs
        BY DEF LightCompute, ResultsLight
    <2>2. QED
        BY <2>1 DEF LightCompute, Record, ResultsLight
<1>4. CASE \E h \in Headers, x \in Nonces : FullCompute(h, x)
    <2> PICK h \in Headers, x \in Nonces : FullCompute(h, x)
        BY <1>4
    <2>1. full \in Epochs
        BY DEF FullCompute, ResultsLight
    <2>2. FullHashOf[full][h][x] = LightHashOf[full][h][x]
        BY <2>1, HashPathsEqual
    <2>3. QED
        BY <2>1, <2>2 DEF FullCompute, Record, ResultsLight
<1>5. CASE UNCHANGED vars
    BY <1>5 DEF vars, ResultsLight
<1>6. QED
    BY <1>1, <1>2, <1>3, <1>4, <1>5 DEF Next

LEMMA ResultsLightInvariant == Spec => []ResultsLight
BY InitResultsLight, NextResultsLight, PTL DEF Spec

(***************************************************************************)
(* Light and full agree: every mix_hash and result vecash_light_compute    *)
(* and vecash_full_compute return for one epoch, header and nonce are the *)
(* same, whatever handles were created and deleted in between, for every *)
(* word width, page shape, number of accesses and table of sizes.         *)
(***************************************************************************)
THEOREM PathsAgree == Spec => []LightFullAgree
<1>1. ResultsLight => LightFullAgree
    BY DEF ResultsLight, LightFullAgree
<1>2. QED
    BY <1>1, ResultsLightInvariant, PTL

(***************************************************************************)
(* The quick verifier accepts every hash vecash_light_compute and          *)
(* vecash_full_compute return: vecash_quick_hash of the header, the nonce *)
(* and the returned mix_hash is the returned result.                      *)
(***************************************************************************)
THEOREM QuickVerifies == Spec => []QuickAgrees
<1>1. ResultsLight => QuickAgrees
    <2> SUFFICES ASSUME ResultsLight, NEW r \in results
                 PROVE  QuickHash(r.header, r.nonce, r.mixHash) = r.result
        BY DEF QuickAgrees
    <2>1. /\ r.epoch \in Epochs /\ r.header \in Headers /\ r.nonce \in Nonces
          /\ r.mixHash = LightHashOf[r.epoch][r.header][r.nonce].mixHash
          /\ r.result = LightHashOf[r.epoch][r.header][r.nonce].result
        BY DEF ResultsLight
    <2>2. QuickHash(r.header, r.nonce, LightHashOf[r.epoch][r.header][r.nonce].mixHash)
            = LightHashOf[r.epoch][r.header][r.nonce].result
        BY <2>1, LightQuick
    <2>3. QED
        BY <2>1, <2>2
<1>2. QED
    BY <1>1, ResultsLightInvariant, PTL

=============================================================================
