----------------------------- MODULE LightHandle -----------------------------
(***************************************************************************)
(* The light handle of libvecash (vecash_light_new, vecash_light_new_      *)
(* internal, vecash_get_seedhash, vecash_get_cachesize, vecash_light_      *)
(* delete) and the Python binding that calls it (mkcache_bytes,            *)
(* hashimoto_light, get_seedhash in python/core.c), as seen by the heap.  *)
(*                                                                         *)
(* One thread makes the calls one after the other.  The seed loop is       *)
(* modelled step by step, with its uint32_t counter taken modulo 2^W; the *)
(* rest of a call, which neither loops nor waits, is one step.  The heap   *)
(* is a finite set of addresses: malloc and calloc return a free one, or   *)
(* NULL when none is free or, if AllocFails, whenever the allocator        *)
(* chooses.  A crash of the process (SIGSEGV on a NULL pointer, SIGABRT   *)
(* from an assert, SIGFPE from a division by zero) is recorded in faults   *)
(* and the process is restarted with an empty heap.                        *)
(***************************************************************************)
EXTENDS Naturals, FiniteSets

CONSTANTS
    EpochLength,  \* VECASH_EPOCH_LENGTH
    MaxEpochs,    \* the length of the size tables (2048)
    W,            \* bits of the seed loop counter (32)
    Blocks,       \* block numbers the callers pass
    PyCacheNodes, \* lengths, in nodes, of the cache bytes given to hashimoto_light
    Addresses,    \* the heap
    AllocFails,   \* whether an allocation may fail while memory is free
    Callers       \* which callers run: "C" (the library API), "Python"

\* A uint32_t wraps at 2^32: its values are 0 .. Modulus - 1.
Modulus == 2^W

(***************************************************************************)
(* Modulus is a positive natural number: a fact of arithmetic for every W *)
(* in Nat, stated here because the provers know nothing of ^.  Callers    *)
(* pass at least one block number.                                         *)
(***************************************************************************)
ASSUME LightAssumption ==
    /\ EpochLength \in Nat \ {0}
    /\ MaxEpochs \in Nat \ {0}
    /\ W \in Nat \ {0}
    /\ Modulus \in Nat \ {0}
    /\ Blocks \subseteq Nat
    /\ Blocks # {}
    /\ PyCacheNodes \subseteq Nat
    /\ IsFiniteSet(Addresses)
    /\ AllocFails \in BOOLEAN
    /\ Callers \subseteq {"C", "Python"}

\* epochs = block_number / VECASH_EPOCH_LENGTH.
EpochOf(b) == b \div EpochLength

VARIABLES
    pc,      \* "idle", or the stage of the call in progress
    call,    \* the call in progress: its operation and block number
    i,       \* the loop counter of vecash_get_seedhash
    heap,    \* the allocated addresses
    held,    \* the light handles the C caller holds: [light, cache, block]
    faults   \* the kinds of process crash that have happened

vars == <<pc, call, i, heap, held, faults>>

Ops == {"light_new", "mkcache_bytes", "get_seedhash"}
Faults == {"SIGSEGV", "SIGABRT", "SIGFPE"}

TypeOK ==
    /\ pc \in {"idle", "seed", "cachesize", "alloc"}
    /\ call \in [op : Ops, block : Blocks]
    /\ i \in 0 .. Modulus - 1
    /\ heap \subseteq Addresses
    /\ held \subseteq [light : Addresses, cache : Addresses, block : Blocks]
    /\ faults \subseteq Faults

\* The addresses reachable from the handles the C caller holds.
Owned == UNION {{h.light, h.cache} : h \in held}

Init ==
    /\ pc = "idle"
    /\ call = [op |-> "light_new", block |-> CHOOSE b \in Blocks : TRUE]
    /\ i = 0
    /\ heap = {}
    /\ held = {}
    /\ faults = {}

\* The process dies with signal f and is started again: the heap and every
\* handle are gone.
Crash(f) ==
    /\ faults' = faults \cup {f}
    /\ pc' = "idle" /\ heap' = {} /\ held' = {}
    /\ UNCHANGED <<call, i>>

\* The addresses malloc or calloc may return: a free one, or NULL (0 here).
AllocResults(used) ==
    (Addresses \ used) \cup
        (IF AllocFails \/ Addresses \subseteq used THEN {0} ELSE {})

-----------------------------------------------------------------------------
(* Calls from the C caller. *)

\* vecash_light_new(block_number) starts with vecash_get_seedhash.
LightNew(b) ==
    /\ "C" \in Callers /\ pc = "idle"
    /\ call' = [op |-> "light_new", block |-> b]
    /\ pc' = "seed" /\ i' = 0
    /\ UNCHANGED <<heap, held, faults>>

\* Mutation: vecash_light_delete frees the struct but not its cache.
LightDeleteKeepsCache(h) ==
    /\ "C" \in Callers /\ pc = "idle"
    /\ held' = held \ {h}
    /\ heap' = heap \ {h.light}
    /\ UNCHANGED <<pc, call, i, faults>>

\* vecash_light_delete: free(light->cache) when it is set, free(light).
LightDelete(h) ==
    /\ "C" \in Callers /\ pc = "idle"
    /\ held' = held \ {h}
    /\ heap' = heap \ {h.cache, h.light}
    /\ UNCHANGED <<pc, call, i, faults>>

-----------------------------------------------------------------------------
(* Calls from the Python binding. *)

\* mkcache_bytes(block_number): vecash_light_new without a range check.
MkcacheBytes(b) ==
    /\ "Python" \in Callers /\ pc = "idle"
    /\ call' = [op |-> "mkcache_bytes", block |-> b]
    /\ pc' = "seed" /\ i' = 0
    /\ UNCHANGED <<heap, held, faults>>

\* get_seedhash(block_number): a ValueError beyond the last epoch, else
\* vecash_get_seedhash.
GetSeedhash(b) ==
    /\ "Python" \in Callers /\ pc = "idle"
    /\ IF b >= EpochLength * MaxEpochs
       THEN UNCHANGED <<pc, call, i>>
       ELSE /\ call' = [op |-> "get_seedhash", block |-> b]
            /\ pc' = "seed" /\ i' = 0
    /\ UNCHANGED <<heap, held, faults>>

(***************************************************************************)
(* hashimoto_light(block_number, cache_bytes, header, nonce): calloc a      *)
(* light struct and a header copy without checking either for NULL, point *)
(* the struct at the caller's bytes, and call vecash_light_compute, whose  *)
(* vecash_get_datasize asserts the epoch and whose vecash_calculate_dag_   *)
(* item divides by cache_size / sizeof(node).  Neither calloc is freed.    *)
(***************************************************************************)
HashimotoLight(b, len) ==
    /\ "Python" \in Callers /\ pc = "idle"
    /\ \E s \in AllocResults(heap) :
         \E h \in AllocResults(heap \cup {s}) :
           CASE s = 0 \/ h = 0            -> Crash("SIGSEGV")
             [] EpochOf(b) >= MaxEpochs   -> Crash("SIGABRT")
             [] len = 0                   -> Crash("SIGFPE")
             [] OTHER -> /\ heap' = heap \cup {s, h}
                         /\ UNCHANGED <<pc, call, i, held, faults>>

-----------------------------------------------------------------------------
(* The steps inside vecash_light_new. *)

\* Mutation: the loop counter is one bit narrower.
SeedStepNarrow ==
    /\ pc = "seed"
    /\ IF i < EpochOf(call.block)
       THEN /\ i' = (i + 1) % 2^(W - 1)
            /\ UNCHANGED pc
       ELSE /\ pc' = IF call.op = "get_seedhash" THEN "idle" ELSE "cachesize"
            /\ UNCHANGED i
    /\ UNCHANGED <<call, heap, held, faults>>

\* Mutation: the loop runs while i <= epochs, one iteration too many.
SeedStepOffByOne ==
    /\ pc = "seed"
    /\ IF i <= EpochOf(call.block)
       THEN /\ i' = (i + 1) % Modulus
            /\ UNCHANGED pc
       ELSE /\ pc' = IF call.op = "get_seedhash" THEN "idle" ELSE "cachesize"
            /\ UNCHANGED i
    /\ UNCHANGED <<call, heap, held, faults>>

(***************************************************************************)
(* One iteration of for (uint32_t i = 0; i < epochs; ++i) in               *)
(* vecash_get_seedhash: the counter wraps at 2^W while epochs does not.   *)
(* When the loop ends, get_seedhash returns, and vecash_light_new goes on  *)
(* to vecash_get_cachesize.                                                *)
(***************************************************************************)
SeedStep ==
    /\ pc = "seed"
    /\ IF i < EpochOf(call.block)
       THEN /\ i' = (i + 1) % Modulus
            /\ UNCHANGED pc
       ELSE /\ pc' = IF call.op = "get_seedhash" THEN "idle" ELSE "cachesize"
            /\ UNCHANGED i
    /\ UNCHANGED <<call, heap, held, faults>>

\* Mutation: built with NDEBUG, the assert is gone and the size tables are
\* read past their end.
GetCachesizeNoAssert ==
    /\ pc = "cachesize"
    /\ pc' = "alloc"
    /\ UNCHANGED <<call, i, heap, held, faults>>

\* vecash_get_cachesize: assert(block_number / VECASH_EPOCH_LENGTH < 2048).
GetCachesize ==
    /\ pc = "cachesize"
    /\ IF EpochOf(call.block) < MaxEpochs
       THEN /\ pc' = "alloc"
            /\ UNCHANGED <<call, i, heap, held, faults>>
       ELSE Crash("SIGABRT")

\* Mutation: the malloc of the cache is not checked for NULL.
LightNewInternalNoCacheCheck ==
    /\ pc = "alloc"
    /\ \E l \in AllocResults(heap) :
         \E c \in (IF l = 0 THEN {0} ELSE AllocResults(heap \cup {l})) :
           IF l = 0
           THEN Crash("SIGSEGV")
           ELSE /\ pc' = "idle"
                /\ IF call.op = "light_new"
                   THEN /\ heap' = heap \cup {l, c}
                        /\ held' = held \cup {[light |-> l, cache |-> c, block |-> call.block]}
                   ELSE /\ heap' = heap \cup {l}
                        /\ UNCHANGED held
                /\ UNCHANGED <<call, i, faults>>

(***************************************************************************)
(* vecash_light_new_internal: calloc the struct (NULL returned on failure),*)
(* malloc the cache (on failure the struct is freed and NULL returned),    *)
(* compute the cache; then vecash_light_new stores block_number through    *)
(* the result without a NULL check.  mkcache_bytes then reads L->cache,   *)
(* copies it into a bytes object and frees the cache but not L.            *)
(***************************************************************************)
LightNewInternal ==
    /\ pc = "alloc"
    /\ \E l \in AllocResults(heap) :
         \E c \in (IF l = 0 THEN {0} ELSE AllocResults(heap \cup {l})) :
           IF l = 0 \/ c = 0
           THEN Crash("SIGSEGV")
           ELSE /\ pc' = "idle"
                /\ IF call.op = "light_new"
                   THEN /\ heap' = heap \cup {l, c}
                        /\ held' = held \cup {[light |-> l, cache |-> c, block |-> call.block]}
                   ELSE /\ heap' = heap \cup {l}
                        /\ UNCHANGED held
                /\ UNCHANGED <<call, i, faults>>

Next ==
    \/ \E b \in Blocks : LightNew(b) \/ MkcacheBytes(b) \/ GetSeedhash(b)
    \/ \E h \in held : LightDelete(h)
    \/ \E b \in Blocks, len \in PyCacheNodes : HashimotoLight(b, len)
    \/ SeedStep \/ GetCachesize \/ LightNewInternal

Spec == Init /\ [][Next]_vars

\* The library code runs in the calling thread, which does nothing else until
\* the call returns: a call in progress that can take a step eventually does.
\* The callers are not assumed to make calls.
LiveSpec == Spec /\ WF_vars(SeedStep \/ GetCachesize \/ LightNewInternal)

-----------------------------------------------------------------------------
(* Properties. *)

(***************************************************************************)
(* Every allocated block is reachable from a light handle the caller holds: *)
(* vecash_light_new allocates only what the handle it returns owns (an     *)
(* allocation failure ends the process at the NULL dereference of         *)
(* vecash_light_new, internal.c:326, so no failed call returns), and      *)
(* vecash_light_delete frees both the struct and its cache.  A caller that *)
(* deletes every handle leaves no memory behind.                           *)
(***************************************************************************)
HeapOwned == heap = Owned

(***************************************************************************)
(* Every call into the library returns (or ends the process): the seed    *)
(* loop of vecash_get_seedhash terminates and vecash_light_new reaches     *)
(* its allocation, for every block number a caller may pass.              *)
(***************************************************************************)
CallsReturn == pc # "idle" ~> pc = "idle"

(***************************************************************************)
(* No call crashes the process: spec section 4.8 says light_new returns    *)
(* null on allocation failure or an invalid block number, and sections 7   *)
(* and 8 that constructors fail with OutOfRange beyond the last epoch.     *)
(***************************************************************************)
NoFault == faults = {}

(***************************************************************************)
(* The seed hash is SHA3-256 applied exactly epochs times (spec 4.2): when *)
(* the epoch number fits the uint32_t counter of the loop in vecash_get_   *)
(* seedhash, the loop never runs past it, and when vecash_get_seedhash     *)
(* returns to vecash_light_new the counter has reached it exactly.        *)
(***************************************************************************)
SeedIterations ==
    EpochOf(call.block) < Modulus =>
        /\ pc = "seed" => i <= EpochOf(call.block)
        /\ pc \in {"cachesize", "alloc"} => i = EpochOf(call.block)

-----------------------------------------------------------------------------
(* The strengthening of HeapOwned that is inductive (LightHandleProofs). *)

\* No two handles share an address: each vecash_light_new_internal takes
\* its struct and its cache from memory no handle owns.
HandlesDisjoint ==
    \A h, g \in held : h # g => {h.light, h.cache} \cap {g.light, g.cache} = {}

LightInv == HeapOwned /\ HandlesDisjoint

-----------------------------------------------------------------------------
(* The light-handle API as its C caller sees it (LightApi). *)

\* A handle as the caller sees it: the address of its struct, its block.
ApiHandles == {[id |-> h.light, block |-> h.block] : h \in held}

Api == INSTANCE LightApi
           WITH handles <- ApiHandles, Ids <- Addresses,
                ValidBlocks <- {b \in Blocks : EpochOf(b) < MaxEpochs}

(***************************************************************************)
(* The library implements the API of LightApi, for C and Python callers   *)
(* alike: a handle vecash_light_new returns is built for a block whose     *)
(* epoch passed the assert in vecash_get_cachesize, its struct address is *)
(* fresh, and vecash_light_delete removes that handle and no other.        *)
(***************************************************************************)
ApiSpec == Api!Spec

\* The invariant the refinement proof rests on: the handles hold allocated,
\* pairwise disjoint memory, and a call that has reached the allocation
\* passed the assert.
ApiInv ==
    /\ TypeOK
    /\ Owned \subseteq heap
    /\ HandlesDisjoint
    /\ pc = "alloc" => EpochOf(call.block) < MaxEpochs

=============================================================================
