------------------------------ MODULE Hashimoto ------------------------------
(***************************************************************************)
(* The hash engine of libvecash (internal.c): the seed chain, the cache    *)
(* builder (SeqMemoHash), the dataset-item generator, the full dataset,    *)
(* the mix loop of vecash_hash on its two paths (light: items computed on  *)
(* demand from the cache; full: items read from the materialised dataset) *)
(* and the quick verifier, driven by the public handle API: light_new,     *)
(* light_delete, light_compute, full_new, full_delete and full_compute.    *)
(*                                                                         *)
(* Data is scaled down: a word has W bits instead of 32, a node has       *)
(* NodeWords words instead of 16, and the loop bounds (ACCESSES,           *)
(* DATASET_PARENTS, CACHE_ROUNDS) are constants.  SHA3-512 and SHA3-256    *)
(* are replaced by a fixed deterministic sponge over words: the properties *)
(* compare the two paths with each other and with the quick verifier, so  *)
(* they rely only on the hashes being functions.  Sizes are counted in     *)
(* nodes and pages, which is what the byte tables of data_sizes.h always   *)
(* are multiples of, so the alignment checks of the code always pass.  The *)
(* host is little endian, so every fix_endian call is the identity.  The  *)
(* ^ of two uint32_t words is the constant operator WordXor: MCHashimoto   *)
(* gives it the bitwise exclusive or of Bitwise; the proofs hold for any.  *)
(* The DAG file, the callback and the failures of vecash_full_new are     *)
(* DagFile's subject: here full_new either returns a computed handle or    *)
(* NULL with nothing changed.                                              *)
(***************************************************************************)
EXTENDS Integers, Sequences, FiniteSets

CONSTANTS
    W,            \* bits per word (32 in the code)
    NodeWords,    \* NODE_WORDS: words per node (16 in the code)
    MixNodes,     \* MIX_NODES: nodes per page (2 in the code)
    HashWords,    \* words in an h256 (8 in the code)
    Accesses,     \* VECASH_ACCESSES (64)
    Parents,      \* VECASH_DATASET_PARENTS (256)
    CacheRounds,  \* VECASH_CACHE_ROUNDS (3)
    Epochs,       \* the epochs the handles are created for
    CacheSize,    \* cache_sizes[e] / sizeof(node): cache nodes of epoch e
    DataPages,    \* dag_sizes[e] / page_size: full pages of epoch e
    Headers,      \* header hashes given to compute
    Nonces,       \* nonces given to compute
    WordXor(_, _) \* the ^ operator of C on uint32_t words

ASSUME HashAssumption ==
    /\ W \in Nat \ {0}
    /\ NodeWords \in Nat \ {0}
    /\ MixNodes \in Nat \ {0}
    /\ (MixNodes * NodeWords) % 4 = 0
    /\ HashWords \in Nat \ {0}
    /\ Accesses \in Nat /\ Parents \in Nat /\ CacheRounds \in Nat
    /\ Epochs \subseteq Nat
    /\ CacheSize \in [Epochs -> Nat \ {0}]
    /\ DataPages \in [Epochs -> Nat \ {0}]

Mod == 2^W
Word == 0 .. Mod - 1
MixWords == MixNodes * NodeWords

\* FNV_PRIME reduced to the word width.
FnvPrime == 16777619 % Mod

\* fnv_hash(x, y): (x * FNV_PRIME mod 2^32) XOR y.
Fnv(x, y) == WordXor((x * FnvPrime) % Mod, y)

\* Word i (0-based, as in the C arrays) of a node or a mix.
At(s, i) == s[i + 1]

\* Word-wise XOR of two nodes.
XorWords(a, b) == [i \in DOMAIN a |-> WordXor(a[i], b[i])]

(***************************************************************************)
(* The stand-in for Keccak: a sponge absorbing the input words one by one *)
(* from a starting value that separates the output word and the variant.  *)
(***************************************************************************)
Absorb(acc, x) == (WordXor(acc, x) * 167 + 89) % Mod
Sponge(in, start) ==
    LET f[i \in 0 .. Len(in)] ==
            IF i = 0 THEN start % Mod ELSE Absorb(f[i - 1], in[i])
    IN  f[Len(in)]
SHA3_512(in) == [j \in 1 .. NodeWords |-> Sponge(in, 101 + j)]
SHA3_256(in) == [j \in 1 .. HashWords |-> Sponge(in, 53 + 7 * j)]

(***************************************************************************)
(* vecash_get_seedhash: SHA3-256 applied epochs times to 32 zero bytes.    *)
(***************************************************************************)
GetSeedhash(e) ==
    LET f[i \in 0 .. e] ==
            IF i = 0 THEN [j \in 1 .. HashWords |-> 0] ELSE SHA3_256(f[i - 1])
    IN  f[e]

(***************************************************************************)
(* vecash_compute_cache_nodes: a chain of SHA3-512 from the seed, then     *)
(* CacheRounds rounds over the nodes in place, node i replaced by the hash *)
(* of its predecessor XOR a node chosen by its own first word.  Step k of *)
(* the rounds updates node (k-1) % N and sees the updates before it.       *)
(***************************************************************************)
ComputeCacheNodes(seed, N) ==
    LET chain[i \in 0 .. N - 1] ==
            IF i = 0 THEN SHA3_512(seed) ELSE SHA3_512(chain[i - 1])
        round[k \in 0 .. CacheRounds * N] ==
            IF k = 0 THEN chain
            ELSE LET c   == round[k - 1]
                     i   == (k - 1) % N
                     idx == At(c[i], 0) % N
                 IN  [c EXCEPT ![i] = SHA3_512(XorWords(c[(N - 1 + i) % N], c[idx]))]
    IN  round[CacheRounds * N]

(***************************************************************************)
(* vecash_calculate_dag_item: the cache node node_index % P with           *)
(* node_index XORed into word 0, hashed, mixed by FNV with Parents cache   *)
(* nodes chosen from its own words, and hashed again.                      *)
(***************************************************************************)
CalculateDagItem(cache, P, nodeIndex) ==
    LET init == [cache[nodeIndex % P] EXCEPT ![1] = WordXor(@, nodeIndex % Mod)]
        mixed[i \in 0 .. Parents] ==
            IF i = 0 THEN SHA3_512(init)
            ELSE LET r      == mixed[i - 1]
                     parent == cache[Fnv(WordXor(nodeIndex, i - 1) % Mod,
                                         At(r, (i - 1) % NodeWords)) % P]
                 IN  [w \in 1 .. NodeWords |-> Fnv(r[w], parent[w])]
    IN  SHA3_512(mixed[Parents])

(***************************************************************************)
(* vecash_compute_full_data: node n of the dataset is item n, for the     *)
(* max_n = full_size / sizeof(node) nodes (the loop without a cancel).     *)
(***************************************************************************)
ComputeFullData(cache, P, maxN) ==
    [n \in 0 .. maxN - 1 |-> CalculateDagItem(cache, P, n)]

\* Mutant: the full path reads node index + n instead of MIX_NODES * index + n.
DagNodeUnscaled(src, index, n) ==
    IF "full" \in DOMAIN src
    THEN src.full[index + n]
    ELSE CalculateDagItem(src.cache, src.P, index * MixNodes + n)

(***************************************************************************)
(* The dag_node of vecash_hash for page index and node n of the page: read *)
(* from full_nodes when it is given, computed from the light cache         *)
(* otherwise.  A source is [full |-> dataset] or [cache |-> c, P |-> p].   *)
(***************************************************************************)
DagNode(src, index, n) ==
    IF "full" \in DOMAIN src
    THEN src.full[MixNodes * index + n]
    ELSE CalculateDagItem(src.cache, src.P, index * MixNodes + n)

\* The compression of four mix words starting at word w into one.
Reduce(mix, w) ==
    Fnv(Fnv(Fnv(At(mix, w), At(mix, w + 1)), At(mix, w + 2)), At(mix, w + 3))

\* The seed s_mix[0]: SHA3-512 of the header hash followed by the nonce.
MixSeed(header, nonce) == SHA3_512(header \o <<nonce>>)

(***************************************************************************)
(* The nodes the mix loop of vecash_hash reads: for page index and node n *)
(* of the page, the dag_node of DagNode.  Both are pure, so the loop may  *)
(* read them from this table instead of computing each as it goes.        *)
(***************************************************************************)
DagPages(src, pages) ==
    [index \in 0 .. pages - 1 |-> [n \in 0 .. MixNodes - 1 |-> DagNode(src, index, n)]]

\* Mutant: mix_hash copied from the mix before the compression loop, the
\* result still hashed over the compressed words.
MixEarlyCopy(page, pages, header, nonce) ==
    LET s   == MixSeed(header, nonce)
        acc[i \in 0 .. Accesses] ==
            IF i = 0 THEN [w \in 1 .. MixWords |-> At(s, (w - 1) % NodeWords)]
            ELSE LET mix   == acc[i - 1]
                     index == Fnv(WordXor(At(s, 0), i - 1),
                                  At(mix, (i - 1) % MixWords)) % pages
                 IN  [w \in 1 .. MixWords |->
                        Fnv(mix[w], At(page[index][(w - 1) \div NodeWords],
                                       (w - 1) % NodeWords))]
        cmix == [j \in 1 .. MixWords \div 4 |-> Reduce(acc[Accesses], 4 * (j - 1))]
    IN  [mixHash |-> SubSeq(acc[Accesses], 1, MixWords \div 4),
         result |-> SHA3_256(s \o cmix)]

(***************************************************************************)
(* The body of vecash_hash over the nodes page[index][n] it reads: the mix *)
(* is the seed replicated, then Accesses rounds each fold the MixNodes     *)
(* nodes of a page chosen from the mix into it with FNV; the mix is        *)
(* compressed four words to one, the compressed words are mix_hash, and   *)
(* result is SHA3-256 of the seed followed by mix_hash.                    *)
(***************************************************************************)
Mix(page, pages, header, nonce) ==
    LET s   == MixSeed(header, nonce)
        acc[i \in 0 .. Accesses] ==
            IF i = 0 THEN [w \in 1 .. MixWords |-> At(s, (w - 1) % NodeWords)]
            ELSE LET mix   == acc[i - 1]
                     index == Fnv(WordXor(At(s, 0), i - 1),
                                  At(mix, (i - 1) % MixWords)) % pages
                 IN  [w \in 1 .. MixWords |->
                        Fnv(mix[w], At(page[index][(w - 1) \div NodeWords],
                                       (w - 1) % NodeWords))]
        cmix == [j \in 1 .. MixWords \div 4 |-> Reduce(acc[Accesses], 4 * (j - 1))]
    IN  [mixHash |-> cmix, result |-> SHA3_256(s \o cmix)]

\* vecash_hash(ret, light, full_nodes, full_size, header_hash, nonce).
VecashHash(src, pages, header, nonce) ==
    Mix(DagPages(src, pages), pages, header, nonce)

(***************************************************************************)
(* vecash_quick_hash: SHA3-256 of SHA3-512(header, nonce) and mix_hash.    *)
(***************************************************************************)
QuickHash(header, nonce, mixHash) == SHA3_256(MixSeed(header, nonce) \o mixHash)

-----------------------------------------------------------------------------
(***************************************************************************)
(* What a handle holds is a function of its epoch: the cache light_new     *)
(* computes from the epoch's seed, the dataset full_new computes from that *)
(* cache, and the hashes the two paths compute over them.  They are        *)
(* tabulated once per epoch, header and nonce, and a handle is represented *)
(* by its epoch.  The handle API has one light and one full handle slot;  *)
(* every hash either path has returned is recorded in results.             *)
(***************************************************************************)
CacheOf == [e \in Epochs |-> ComputeCacheNodes(GetSeedhash(e), CacheSize[e])]
FullOf == [e \in Epochs |->
              ComputeFullData(CacheOf[e], CacheSize[e], DataPages[e] * MixNodes)]
LightHashOf == [e \in Epochs |-> [h \in Headers |-> [x \in Nonces |->
                   VecashHash([cache |-> CacheOf[e], P |-> CacheSize[e]],
                              DataPages[e], h, x)]]]
FullHashOf == [e \in Epochs |-> [h \in Headers |-> [x \in Nonces |->
                  VecashHash([full |-> FullOf[e]], DataPages[e], h, x)]]]

NoHandle == -1

VARIABLES
    light,    \* NoHandle or the epoch of the vecash_light_t
    full,     \* NoHandle or the epoch of the vecash_full_t
    results   \* the return values of light_compute and full_compute

vars == <<light, full, results>>

Init ==
    /\ light = NoHandle
    /\ full = NoHandle
    /\ results = {}

\* A return value of vecash_hash on the given path, recorded.
Record(path, e, h, x, r) ==
    [path |-> path, epoch |-> e, header |-> h, nonce |-> x,
     mixHash |-> r.mixHash, result |-> r.result]

\* vecash_light_new(block): the cache of the epoch's size from its seed.
LightNew(e) ==
    /\ light = NoHandle
    /\ light' = e
    /\ UNCHANGED <<full, results>>

\* vecash_light_delete.
LightDelete ==
    /\ light # NoHandle
    /\ light' = NoHandle
    /\ UNCHANGED <<full, results>>

\* vecash_light_compute: vecash_hash without full nodes, full_size of the epoch.
LightCompute(h, x) ==
    /\ light # NoHandle
    /\ results' = results \cup {Record("light", light, h, x, LightHashOf[light][h][x])}
    /\ UNCHANGED <<light, full>>

\* vecash_full_new(light, callback) when it succeeds: the dataset of the
\* light's epoch, full_size = dag size, computed from the light's cache.
FullNew ==
    /\ light # NoHandle
    /\ full = NoHandle
    /\ full' = light
    /\ UNCHANGED <<light, results>>

\* vecash_full_delete.
FullDelete ==
    /\ full # NoHandle
    /\ full' = NoHandle
    /\ UNCHANGED <<light, results>>

\* vecash_full_compute: vecash_hash over the mapped dataset, light NULL.
FullCompute(h, x) ==
    /\ full # NoHandle
    /\ results' = results \cup {Record("full", full, h, x, FullHashOf[full][h][x])}
    /\ UNCHANGED <<light, full>>

Next ==
    \/ \E e \in Epochs : LightNew(e)
    \/ LightDelete
    \/ \E h \in Headers, x \in Nonces : LightCompute(h, x)
    \/ FullNew
    \/ FullDelete
    \/ \E h \in Headers, x \in Nonces : FullCompute(h, x)

Spec == Init /\ [][Next]_vars

(***************************************************************************)
(* Light and full agree: the mix_hash and result that vecash_light_compute *)
(* returns for an epoch, header and nonce are those vecash_full_compute    *)
(* returns over a dataset vecash_full_new built from any light handle of   *)
(* that epoch, whatever handles were created and deleted in between.       *)
(***************************************************************************)
LightFullAgree ==
    \A r1, r2 \in results :
        (r1.epoch = r2.epoch /\ r1.header = r2.header /\ r1.nonce = r2.nonce)
            => r1.mixHash = r2.mixHash /\ r1.result = r2.result

(***************************************************************************)
(* Quick verification accepts every returned hash: vecash_quick_hash of    *)
(* the header, nonce and returned mix_hash is the returned result.         *)
(***************************************************************************)
QuickAgrees ==
    \A r \in results : QuickHash(r.header, r.nonce, r.mixHash) = r.result


-----------------------------------------------------------------------------
(* The strengthening of the two properties that is inductive (HashimotoProofs). *)

\* The handles hold epochs, and every return value recorded is the hash the
\* light path computes for its epoch, header and nonce.
ResultsLight ==
    /\ light \in Epochs \cup {NoHandle}
    /\ full \in Epochs \cup {NoHandle}
    /\ \A r \in results :
         /\ r.epoch \in Epochs /\ r.header \in Headers /\ r.nonce \in Nonces
         /\ r.mixHash = LightHashOf[r.epoch][r.header][r.nonce].mixHash
         /\ r.result = LightHashOf[r.epoch][r.header][r.nonce].result

================================================================================
