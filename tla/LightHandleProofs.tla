-------------------------- MODULE LightHandleProofs --------------------------
(***************************************************************************)
(* Proof that the C API of the light handle never leaks: with only C      *)
(* callers (vecash_light_new, vecash_light_delete), every allocated block  *)
(* belongs to a handle the caller holds, for every heap size, every set    *)
(* of block numbers and every pattern of allocation failures.              *)
(***************************************************************************)
EXTENDS LightHandle, TLAPS

\* The inductive invariant for C callers: LightInv, and the call in
\* progress is a vecash_light_new (only the binding starts other calls).
CInv == LightInv /\ call.op = "light_new"

LEMMA InitCInv == Init => CInv
BY DEF Init, CInv, LightInv, HeapOwned, HandlesDisjoint, Owned

\* A crash empties the heap and the handles.
LEMMA CrashCInv ==
    ASSUME NEW f, CInv, Crash(f)
    PROVE  CInv'
BY DEF Crash, CInv, LightInv, HeapOwned, HandlesDisjoint, Owned

(***************************************************************************)
(* vecash_light_delete of one handle frees exactly the addresses it owns: *)
(* no other handle shares them.                                            *)
(***************************************************************************)
LEMMA DeleteCInv ==
    ASSUME NEW h \in held, CInv, LightDelete(h)
    PROVE  CInv'
<1>1. HandlesDisjoint'
    BY DEF LightDelete, HandlesDisjoint
<1>2. heap' = UNION {{g.light, g.cache} : g \in held'}
    <2>1. heap' = Owned \ {h.light, h.cache}
        BY DEF LightDelete, CInv, LightInv, HeapOwned
    <2>2. \A g \in held \ {h} : {g.light, g.cache} \cap {h.light, h.cache} = {}
        BY DEF CInv, LightInv, HandlesDisjoint
    <2>3. Owned \ {h.light, h.cache} = UNION {{g.light, g.cache} : g \in held \ {h}}
        BY <2>2 DEF Owned
    <2>4. QED
        BY <2>1, <2>3 DEF LightDelete
<1>3. QED
    BY <1>1, <1>2 DEF LightDelete, CInv, LightInv, HeapOwned, Owned

(***************************************************************************)
(* A successful vecash_light_new_internal takes its struct and its cache   *)
(* from free memory, two different addresses, and hands both to the new   *)
(* handle.                                                                 *)
(***************************************************************************)
LEMMA AllocCInv ==
    ASSUME CInv, LightNewInternal
    PROVE  CInv'
<1> SUFFICES ASSUME NEW l \in AllocResults(heap),
                    NEW c \in (IF l = 0 THEN {0} ELSE AllocResults(heap \cup {l})),
                    IF l = 0 \/ c = 0
                    THEN Crash("SIGSEGV")
                    ELSE /\ pc' = "idle"
                         /\ IF call.op = "light_new"
                            THEN /\ heap' = heap \cup {l, c}
                                 /\ held' = held \cup {[light |-> l, cache |-> c, block |-> call.block]}
                            ELSE /\ heap' = heap \cup {l}
                                 /\ UNCHANGED held
                         /\ UNCHANGED <<call, i, faults>>
             PROVE  CInv'
    BY DEF LightNewInternal
<1>1. CASE l = 0 \/ c = 0
    BY <1>1, CrashCInv
<1>2. CASE l # 0 /\ c # 0
    <2> DEFINE r == [light |-> l, cache |-> c, block |-> call.block]
    <2>1. l \notin heap /\ c \notin heap /\ l # c
        BY <1>2 DEF AllocResults
    <2>2. heap' = heap \cup {l, c} /\ held' = held \cup {r} /\ call' = call
        BY <1>2 DEF CInv
    <2>3. \A g \in held : {g.light, g.cache} \subseteq heap
        BY DEF CInv, LightInv, HeapOwned, Owned
    <2>4. HeapOwned'
        <3>1. r.light = l /\ r.cache = c
            OBVIOUS
        <3>2. Owned' = Owned \cup {r.light, r.cache}
            <4>1. Owned' = UNION {{h.light, h.cache} : h \in held \cup {r}}
                BY <2>2 DEF Owned
            <4>2. UNION {{h.light, h.cache} : h \in held \cup {r}}
                    = Owned \cup {r.light, r.cache}
                BY Zenon DEF Owned
            <4>3. QED
                BY <4>1, <4>2
        <3>3. QED
            BY <2>2, <3>1, <3>2 DEF CInv, LightInv, HeapOwned
    <2>5. HandlesDisjoint'
        <3>1. \A g \in held : {g.light, g.cache} \cap {r.light, r.cache} = {}
            BY <2>1, <2>3
        <3>2. QED
            BY <2>2, <3>1 DEF CInv, LightInv, HandlesDisjoint
    <2>6. QED
        BY <2>2, <2>4, <2>5 DEF CInv, LightInv
<1>3. QED
    BY <1>1, <1>2

(***************************************************************************)
(* Every step of a C caller preserves CInv: one step per action.           *)
(***************************************************************************)
LEMMA NextCInv ==
    ASSUME Callers = {"C"}
    PROVE  CInv /\ [Next]_vars => CInv'
<1> SUFFICES ASSUME CInv, [Next]_vars PROVE CInv'
    OBVIOUS
<1>1. CASE \E b \in Blocks : LightNew(b)
    BY <1>1 DEF LightNew, CInv, LightInv, HeapOwned, HandlesDisjoint, Owned
<1>2. CASE \E b \in Blocks : MkcacheBytes(b) \/ GetSeedhash(b)
    BY <1>2 DEF MkcacheBytes, GetSeedhash
<1>3. CASE \E b \in Blocks, len \in PyCacheNodes : HashimotoLight(b, len)
    BY <1>3 DEF HashimotoLight
<1>4. CASE \E h \in held : LightDelete(h)
    BY <1>4, DeleteCInv
<1>5. CASE SeedStep
    BY <1>5 DEF SeedStep, CInv, LightInv, HeapOwned, HandlesDisjoint, Owned
<1>6. CASE GetCachesize
    <2>1. CASE EpochOf(call.block) < MaxEpochs
        BY <1>6, <2>1 DEF GetCachesize, CInv, LightInv, HeapOwned,
                          HandlesDisjoint, Owned
    <2>2. CASE ~(EpochOf(call.block) < MaxEpochs)
        BY <1>6, <2>2, CrashCInv DEF GetCachesize
    <2>3. QED
        BY <2>1, <2>2
<1>7. CASE LightNewInternal
    BY <1>7, AllocCInv
<1>8. CASE UNCHANGED vars
    BY <1>8 DEF vars, CInv, LightInv, HeapOwned, HandlesDisjoint, Owned
<1>9. QED
    BY <1>1, <1>2, <1>3, <1>4, <1>5, <1>6, <1>7, <1>8 DEF Next

(***************************************************************************)
(* A program that uses the light handle only through the C API never      *)
(* leaks: at every point every allocated block is the struct or the cache *)
(* of a handle it holds, whatever the heap size and whichever allocations *)
(* fail.  (The Python binding breaks this: run binding_leak.)              *)
(***************************************************************************)
THEOREM CHeapOwned ==
    ASSUME Callers = {"C"}
    PROVE  Spec => []HeapOwned
<1>1. CInv => HeapOwned
    BY DEF CInv, LightInv
<1>2. QED
    BY <1>1, InitCInv, NextCInv, PTL DEF Spec


-----------------------------------------------------------------------------
(* Type correctness, for C and Python callers. *)

USE LightAssumption

\* malloc and calloc return NULL or an address of the heap.
LEMMA AllocResultsType ==
    ASSUME NEW used, NEW a \in AllocResults(used), a # 0
    PROVE  a \in Addresses \ used
BY DEF AllocResults

\* The epoch number of a block number is a natural number.
LEMMA EpochOfNat ==
    ASSUME NEW b \in Nat
    PROVE  EpochOf(b) \in Nat
BY DEF EpochOf

\* A crash restarts the process in a well-typed state.
LEMMA CrashTypeOK ==
    ASSUME TypeOK, NEW f \in Faults, Crash(f)
    PROVE  TypeOK'
BY DEF Crash, TypeOK

LEMMA InitTypeOK == Init => TypeOK
BY DEF Init, TypeOK, Ops

\* hashimoto_light crashes or grows the heap by two fresh addresses.
LEMMA HashimotoLightTypeOK ==
    ASSUME TypeOK, NEW b \in Blocks, NEW len \in PyCacheNodes,
           HashimotoLight(b, len)
    PROVE  TypeOK'
<1> SUFFICES ASSUME NEW s \in AllocResults(heap),
                    NEW h \in AllocResults(heap \cup {s}),
                    CASE s = 0 \/ h = 0            -> Crash("SIGSEGV")
                      [] EpochOf(b) >= MaxEpochs   -> Crash("SIGABRT")
                      [] len = 0                   -> Crash("SIGFPE")
                      [] OTHER -> /\ heap' = heap \cup {s, h}
                                  /\ UNCHANGED <<pc, call, i, held, faults>>
             PROVE  TypeOK'
    BY DEF HashimotoLight
<1>1. CASE s = 0 \/ h = 0
    BY <1>1, CrashTypeOK DEF Faults
<1>2. CASE ~(s = 0 \/ h = 0) /\ EpochOf(b) >= MaxEpochs
    BY <1>2, CrashTypeOK DEF Faults
<1>3. CASE ~(s = 0 \/ h = 0) /\ ~(EpochOf(b) >= MaxEpochs) /\ len = 0
    BY <1>3, CrashTypeOK DEF Faults
<1>4. CASE ~(s = 0 \/ h = 0) /\ ~(EpochOf(b) >= MaxEpochs) /\ len # 0
    <2>1. s \in Addresses /\ h \in Addresses
        BY <1>4, AllocResultsType
    <2>2. heap' = heap \cup {s, h} /\ UNCHANGED <<pc, call, i, held, faults>>
        BY <1>4
    <2>3. QED
        BY <2>1, <2>2 DEF TypeOK
<1>5. QED
    BY <1>1, <1>2, <1>3, <1>4

\* vecash_light_new_internal crashes, or takes its struct and cache from
\* the free heap and hands out a handle for the block of the call.
LEMMA AllocTypeOK ==
    ASSUME TypeOK, LightNewInternal
    PROVE  TypeOK'
<1> SUFFICES ASSUME NEW l \in AllocResults(heap),
                    NEW c \in (IF l = 0 THEN {0} ELSE AllocResults(heap \cup {l})),
                    IF l = 0 \/ c = 0
                    THEN Crash("SIGSEGV")
                    ELSE /\ pc' = "idle"
                         /\ IF call.op = "light_new"
                            THEN /\ heap' = heap \cup {l, c}
                                 /\ held' = held \cup {[light |-> l, cache |-> c, block |-> call.block]}
                            ELSE /\ heap' = heap \cup {l}
                                 /\ UNCHANGED held
                         /\ UNCHANGED <<call, i, faults>>
             PROVE  TypeOK'
    BY DEF LightNewInternal
<1>1. CASE l = 0 \/ c = 0
    BY <1>1, CrashTypeOK DEF Faults
<1>2. CASE l # 0 /\ c # 0
    <2>1. l \in Addresses /\ c \in Addresses
        BY <1>2, AllocResultsType
    <2>2. [light |-> l, cache |-> c, block |-> call.block]
              \in [light : Addresses, cache : Addresses, block : Blocks]
        BY <2>1 DEF TypeOK
    <2>3. QED
        BY <1>2, <2>1, <2>2 DEF TypeOK
<1>3. QED
    BY <1>1, <1>2

\* Every step keeps the state well typed; the seed counter stays a uint32_t.
LEMMA NextTypeOK == TypeOK /\ [Next]_vars => TypeOK'
<1> SUFFICES ASSUME TypeOK, [Next]_vars PROVE TypeOK'
    OBVIOUS
<1>1. CASE \E b \in Blocks : LightNew(b) \/ MkcacheBytes(b) \/ GetSeedhash(b)
    BY <1>1 DEF LightNew, MkcacheBytes, GetSeedhash, TypeOK, Ops
<1>2. CASE \E h \in held : LightDelete(h)
    BY <1>2 DEF LightDelete, TypeOK
<1>3. CASE \E b \in Blocks, len \in PyCacheNodes : HashimotoLight(b, len)
    BY <1>3, HashimotoLightTypeOK
<1>4. CASE SeedStep
    BY <1>4 DEF SeedStep, TypeOK
<1>5. CASE GetCachesize
    BY <1>5, CrashTypeOK DEF GetCachesize, TypeOK, Faults
<1>6. CASE LightNewInternal
    BY <1>6, AllocTypeOK
<1>7. CASE UNCHANGED vars
    BY <1>7 DEF vars, TypeOK
<1>8. QED
    BY <1>1, <1>2, <1>3, <1>4, <1>5, <1>6, <1>7 DEF Next

(***************************************************************************)
(* The state of the light handle is well typed for every caller: above    *)
(* all, the loop counter of vecash_get_seedhash stays within its uint32_t *)
(* range across the wrap, and every handle holds two heap addresses.       *)
(***************************************************************************)
THEOREM LightTypeCorrect == Spec => []TypeOK
BY InitTypeOK, NextTypeOK, PTL DEF Spec


-----------------------------------------------------------------------------
(* The seed loop runs exactly epochs times. *)

SeedInv == TypeOK /\ SeedIterations

\* Every step that leaves the seed loop, the cache size and the call alone
\* keeps SeedIterations.
LEMMA SeedUntouched ==
    ASSUME SeedIterations, UNCHANGED <<pc, call, i>>
    PROVE  SeedIterations'
BY DEF SeedIterations

\* A step that returns to the caller or crashes keeps SeedIterations.
LEMMA SeedIdle ==
    ASSUME pc' = "idle"
    PROVE  SeedIterations'
BY DEF SeedIterations

\* A call starts the seed loop with the counter at 0.
LEMMA SeedStart ==
    ASSUME NEW b \in Blocks, pc' = "seed", i' = 0, call'.block = b
    PROVE  SeedIterations'
BY EpochOfNat DEF SeedIterations

(***************************************************************************)
(* One iteration: while i < epochs and epochs < 2^W, i + 1 does not wrap. *)
(* When the loop ends, i has reached epochs.                               *)
(***************************************************************************)
LEMMA SeedStepIterations ==
    ASSUME SeedInv, SeedStep
    PROVE  SeedIterations'
<1> DEFINE E == EpochOf(call.block)
<1>1. E \in Nat /\ i \in 0 .. Modulus - 1 /\ call' = call /\ pc = "seed"
    BY EpochOfNat DEF SeedInv, TypeOK, SeedStep
<1>2. CASE i < E
    <2>1. pc' = "seed" /\ i' = (i + 1) % Modulus
        BY <1>2 DEF SeedStep
    <2>2. E < Modulus => i' = i + 1 /\ i + 1 <= E
        BY <1>1, <1>2, <2>1
    <2>3. QED
        BY <1>1, <2>1, <2>2 DEF SeedIterations
<1>3. CASE ~(i < E)
    <2>1. pc' \in {"idle", "cachesize"} /\ i' = i
        BY <1>3 DEF SeedStep
    <2>2. E < Modulus => i = E
        BY <1>1, <1>3 DEF SeedInv, SeedIterations
    <2>3. QED
        BY <1>1, <2>1, <2>2 DEF SeedIterations
<1>4. QED
    BY <1>2, <1>3

LEMMA InitSeedInv == Init => SeedInv
BY InitTypeOK DEF Init, SeedInv, SeedIterations

LEMMA NextSeedInv == SeedInv /\ [Next]_vars => SeedInv'
<1> SUFFICES ASSUME SeedInv, [Next]_vars PROVE SeedIterations'
    BY NextTypeOK DEF SeedInv
<1>1. CASE \E b \in Blocks : LightNew(b) \/ MkcacheBytes(b)
    BY <1>1, SeedStart DEF LightNew, MkcacheBytes
<1>2. CASE \E b \in Blocks : GetSeedhash(b)
    <2> PICK b \in Blocks : GetSeedhash(b)
        BY <1>2
    <2>1. CASE b >= EpochLength * MaxEpochs
        BY <2>1, SeedUntouched DEF GetSeedhash, SeedInv
    <2>2. CASE ~(b >= EpochLength * MaxEpochs)
        BY <2>2, SeedStart DEF GetSeedhash
    <2>3. QED
        BY <2>1, <2>2
<1>3. CASE \E h \in held : LightDelete(h)
    BY <1>3, SeedUntouched DEF LightDelete, SeedInv
<1>4. CASE \E b \in Blocks, len \in PyCacheNodes : HashimotoLight(b, len)
    <2> PICK b \in Blocks, len \in PyCacheNodes : HashimotoLight(b, len)
        BY <1>4
    <2>1. pc' = "idle" \/ UNCHANGED <<pc, call, i>>
        BY DEF HashimotoLight, Crash
    <2>2. QED
        BY <2>1, SeedIdle, SeedUntouched DEF SeedInv
<1>5. CASE SeedStep
    BY <1>5, SeedStepIterations
<1>6. CASE GetCachesize
    <2>1. CASE EpochOf(call.block) < MaxEpochs
        <3>1. pc = "cachesize" /\ pc' = "alloc" /\ UNCHANGED <<call, i>>
            BY <1>6, <2>1 DEF GetCachesize
        <3>2. QED
            BY <3>1 DEF SeedInv, SeedIterations
    <2>2. CASE ~(EpochOf(call.block) < MaxEpochs)
        BY <1>6, <2>2, SeedIdle DEF GetCachesize, Crash
    <2>3. QED
        BY <2>1, <2>2
<1>7. CASE LightNewInternal
    <2>1. pc' = "idle"
        BY <1>7 DEF LightNewInternal, Crash
    <2>2. QED
        BY <2>1, SeedIdle
<1>8. CASE UNCHANGED vars
    BY <1>8, SeedUntouched DEF vars, SeedInv
<1>9. QED
    BY <1>1, <1>2, <1>3, <1>4, <1>5, <1>6, <1>7, <1>8 DEF Next

(***************************************************************************)
(* vecash_get_seedhash applies SHA3-256 exactly epochs times whenever the *)
(* epoch number fits its uint32_t counter: the loop never overshoots, and *)
(* vecash_light_new reaches vecash_get_cachesize with the counter at       *)
(* epochs, for every caller, every epoch length and every counter width.  *)
(***************************************************************************)
THEOREM SeedLoopExact == Spec => []SeedIterations
<1>1. SeedInv => SeedIterations
    BY DEF SeedInv
<1>2. QED
    BY <1>1, InitSeedInv, NextSeedInv, PTL DEF Spec


-----------------------------------------------------------------------------
(* The library implements LightApi, for C and Python callers. *)

\* A step that leaves heap, handles and the stage of the call alone keeps
\* ApiInv once TypeOK holds after it.
LEMMA ApiUntouched ==
    ASSUME ApiInv, TypeOK', UNCHANGED <<pc, call, heap, held>>
    PROVE  ApiInv'
BY DEF ApiInv, Owned, HandlesDisjoint

\* A crash leaves no handle and no call at the allocation.
LEMMA ApiCrash ==
    ASSUME TypeOK', NEW f, Crash(f)
    PROVE  ApiInv'
BY DEF Crash, ApiInv, Owned, HandlesDisjoint

\* vecash_light_delete leaves the other handles' memory allocated.
LEMMA DeleteApiInv ==
    ASSUME ApiInv, TypeOK', NEW h \in held, LightDelete(h)
    PROVE  ApiInv'
<1>1. \A g \in held \ {h} : {g.light, g.cache} \subseteq heap \ {h.cache, h.light}
    BY DEF ApiInv, Owned, HandlesDisjoint
<1>2. Owned' \subseteq heap'
    BY <1>1 DEF LightDelete, Owned
<1>3. QED
    BY <1>2 DEF LightDelete, ApiInv, HandlesDisjoint

\* hashimoto_light crashes or grows the heap; it touches no handle.
LEMMA HashimotoLightApiInv ==
    ASSUME ApiInv, TypeOK', NEW b \in Blocks, NEW len \in PyCacheNodes,
           HashimotoLight(b, len)
    PROVE  ApiInv'
<1> SUFFICES ASSUME NEW s \in AllocResults(heap),
                    NEW h \in AllocResults(heap \cup {s}),
                    CASE s = 0 \/ h = 0            -> Crash("SIGSEGV")
                      [] EpochOf(b) >= MaxEpochs   -> Crash("SIGABRT")
                      [] len = 0                   -> Crash("SIGFPE")
                      [] OTHER -> /\ heap' = heap \cup {s, h}
                                  /\ UNCHANGED <<pc, call, i, held, faults>>
             PROVE  ApiInv'
    BY DEF HashimotoLight
<1>1. CASE (s = 0 \/ h = 0) \/ EpochOf(b) >= MaxEpochs \/ len = 0
    <2>1. \E f : Crash(f)
        BY <1>1
    <2>2. QED
        BY <2>1, ApiCrash
<1>2. CASE ~((s = 0 \/ h = 0) \/ EpochOf(b) >= MaxEpochs \/ len = 0)
    <2>1. heap' = heap \cup {s, h} /\ UNCHANGED <<pc, call, held>>
        BY <1>2
    <2>2. QED
        BY <2>1 DEF ApiInv, Owned, HandlesDisjoint
<1>3. QED
    BY <1>1, <1>2

\* vecash_light_new_internal: the new handle's memory was free.
LEMMA AllocApiInv ==
    ASSUME ApiInv, TypeOK', LightNewInternal
    PROVE  ApiInv'
<1> SUFFICES ASSUME NEW l \in AllocResults(heap),
                    NEW c \in (IF l = 0 THEN {0} ELSE AllocResults(heap \cup {l})),
                    IF l = 0 \/ c = 0
                    THEN Crash("SIGSEGV")
                    ELSE /\ pc' = "idle"
                         /\ IF call.op = "light_new"
                            THEN /\ heap' = heap \cup {l, c}
                                 /\ held' = held \cup {[light |-> l, cache |-> c, block |-> call.block]}
                            ELSE /\ heap' = heap \cup {l}
                                 /\ UNCHANGED held
                         /\ UNCHANGED <<call, i, faults>>
             PROVE  ApiInv'
    BY DEF LightNewInternal
<1>1. CASE l = 0 \/ c = 0
    BY <1>1, ApiCrash
<1>2. CASE l # 0 /\ c # 0 /\ call.op # "light_new"
    BY <1>2 DEF ApiInv, Owned, HandlesDisjoint
<1>3. CASE l # 0 /\ c # 0 /\ call.op = "light_new"
    <2> DEFINE r == [light |-> l, cache |-> c, block |-> call.block]
    <2>1. l \notin heap /\ c \notin heap /\ l # c
        BY <1>3 DEF AllocResults
    <2>2. heap' = heap \cup {l, c} /\ held' = held \cup {r} /\ pc' = "idle"
        BY <1>3
    <2>3. r.light = l /\ r.cache = c
        OBVIOUS
    <2>4. \A g \in held : {g.light, g.cache} \subseteq heap
        BY DEF ApiInv, Owned
    <2>5. Owned' \subseteq heap'
        BY <2>2, <2>3, <2>4 DEF Owned
    <2>6. HandlesDisjoint'
        <3>1. \A g \in held : {g.light, g.cache} \cap {r.light, r.cache} = {}
            BY <2>1, <2>3, <2>4
        <3>2. QED
            BY <2>2, <3>1 DEF ApiInv, HandlesDisjoint
    <2>7. QED
        BY <2>2, <2>5, <2>6 DEF ApiInv
<1>4. QED
    BY <1>1, <1>2, <1>3

LEMMA InitApiInv == Init => ApiInv
BY InitTypeOK DEF Init, ApiInv, Owned, HandlesDisjoint

LEMMA NextApiInv == ApiInv /\ [Next]_vars => ApiInv'
<1> SUFFICES ASSUME ApiInv, [Next]_vars PROVE ApiInv'
    OBVIOUS
<1>0. TypeOK'
    BY NextTypeOK DEF ApiInv
<1>1. CASE \E b \in Blocks : LightNew(b) \/ MkcacheBytes(b) \/ GetSeedhash(b)
    BY <1>0, <1>1 DEF LightNew, MkcacheBytes, GetSeedhash, ApiInv, Owned,
                      HandlesDisjoint
<1>2. CASE \E h \in held : LightDelete(h)
    BY <1>0, <1>2, DeleteApiInv
<1>3. CASE \E b \in Blocks, len \in PyCacheNodes : HashimotoLight(b, len)
    BY <1>0, <1>3, HashimotoLightApiInv
<1>4. CASE SeedStep
    BY <1>0, <1>4 DEF SeedStep, ApiInv, Owned, HandlesDisjoint
<1>5. CASE GetCachesize
    <2>1. CASE EpochOf(call.block) < MaxEpochs
        BY <1>0, <1>5, <2>1 DEF GetCachesize, ApiInv, Owned, HandlesDisjoint
    <2>2. CASE ~(EpochOf(call.block) < MaxEpochs)
        BY <1>0, <1>5, <2>2, ApiCrash DEF GetCachesize
    <2>3. QED
        BY <2>1, <2>2
<1>6. CASE LightNewInternal
    BY <1>0, <1>6, AllocApiInv
<1>7. CASE UNCHANGED vars
    BY <1>0, <1>7, ApiUntouched DEF vars
<1>8. QED
    BY <1>1, <1>2, <1>3, <1>4, <1>5, <1>6, <1>7 DEF Next


\* The handles the caller sees after deleting h: ApiHandles without h's
\* entry, because no other handle has h's struct address.
LEMMA ApiHandlesDelete ==
    ASSUME HandlesDisjoint, NEW h \in held
    PROVE  {[id |-> g.light, block |-> g.block] : g \in held \ {h}}
               = ApiHandles \ {[id |-> h.light, block |-> h.block]}
<1>1. \A g \in held : g # h => g.light # h.light
    BY DEF HandlesDisjoint
<1>2. QED
    BY <1>1 DEF ApiHandles

\* The library's step maps to a LightApi step or to a stutter.
LEMMA NextApi ==
    ASSUME ApiInv, [Next]_vars
    PROVE  [Api!Next]_ApiHandles
<1> USE DEF ApiInv
<1>1. CASE held' = held
    BY <1>1 DEF ApiHandles
<1>2. CASE held' = {}
    BY <1>2 DEF Api!Next, Api!Reset, ApiHandles
<1>3. CASE \E h \in held : LightDelete(h)
    <2> PICK h \in held : LightDelete(h)
        BY <1>3
    <2>1. ApiHandles' = ApiHandles \ {[id |-> h.light, block |-> h.block]}
        BY ApiHandlesDelete DEF LightDelete, ApiHandles
    <2>2. [id |-> h.light, block |-> h.block] \in ApiHandles
        BY DEF ApiHandles
    <2>3. QED
        BY <2>1, <2>2 DEF Api!Next, Api!Delete
<1>4. CASE LightNewInternal /\ held' # held /\ held' # {}
    <2> SUFFICES ASSUME NEW l \in AllocResults(heap),
                        NEW c \in (IF l = 0 THEN {0} ELSE AllocResults(heap \cup {l})),
                        l # 0, c # 0, call.op = "light_new",
                        held' = held \cup {[light |-> l, cache |-> c, block |-> call.block]}
                 PROVE  [Api!Next]_ApiHandles
        BY <1>4 DEF LightNewInternal, Crash
    <2>1. pc = "alloc"
        BY <1>4 DEF LightNewInternal
    <2>2. call.block \in {b \in Blocks : EpochOf(b) < MaxEpochs}
        BY <2>1 DEF TypeOK
    <2>3. l \in Addresses \ heap
        BY AllocResultsType
    <2>4. \A x \in ApiHandles : x.id # l
        BY <2>3 DEF ApiHandles, Owned
    <2>5. ApiHandles' = ApiHandles \cup {[id |-> l, block |-> call.block]}
        <3> DEFINE r == [light |-> l, cache |-> c, block |-> call.block]
        <3>1. r.light = l /\ r.block = call.block
            OBVIOUS
        <3>2. held' = held \cup {r}
            OBVIOUS
        <3>3. ApiHandles' = ApiHandles \cup {[id |-> r.light, block |-> r.block]}
            BY <3>2 DEF ApiHandles
        <3>4. QED
            BY <3>1, <3>3
    <2>6. Api!New(l, call.block)
        BY <2>2, <2>4, <2>5 DEF Api!New
    <2>7. QED
        BY <2>2, <2>3, <2>6 DEF Api!Next
<1>5. QED
    <2>1. held' = held \/ held' = {} \/ (\E h \in held : LightDelete(h))
              \/ (LightNewInternal /\ held' # held /\ held' # {})
        BY DEF Next, vars, LightNew, MkcacheBytes, GetSeedhash, HashimotoLight,
               Crash, SeedStep, GetCachesize
    <2>2. QED
        BY <1>1, <1>2, <1>3, <1>4, <2>1

(***************************************************************************)
(* The light-handle library implements the API of LightApi for C and      *)
(* Python callers alike: every handle vecash_light_new hands out is new   *)
(* and built for a block the size tables cover, whatever the heap and    *)
(* whichever allocations fail; vecash_light_delete removes exactly the    *)
(* handle it is given; and crashes only ever drop every handle at once.   *)
(***************************************************************************)
THEOREM ApiRefinement == Spec => ApiSpec
<1>1. Init => Api!Init
    BY DEF Init, Api!Init, ApiHandles
<1>2. QED
    BY <1>1, InitApiInv, NextApiInv, NextApi, PTL DEF Spec, ApiSpec, Api!Spec

=============================================================================
