# Verification of vecash (the Ethash-family proof-of-work engine)

This directory holds TLA+ models of the C library under
`src/Godeps/_workspace/src/github.com/vector/vecash/src/`. The library is
`libvecash/internal.c` with the public header `libvecash/vecash.h`, plus the
Python binding `python/core.c`. The directory also holds the TLC
configurations that model-check those models, TLAPS proofs about them, and
`PROJECT.json`. `PROJECT.json` maps every modelled definition to the source
lines it translates and lists the runs, mutants, findings and hazards.

## 1. Inventory

### Components and their state

| Component | Code | State it keeps | Operations |
|---|---|---|---|
| Parameter tables | `vecash_get_datasize`, `vecash_get_cachesize` (internal.c:44-54); the tables are in `data_sizes.h`, which is not in the repository | none (constant arrays) | table lookup guarded only by `assert` |
| Seed derivation | `vecash_get_seedhash` (273-281) | none | iterate SHA3-256 `epochs` times |
| Cache builder | `vecash_compute_cache_nodes` (59-91) | the cache buffer, written in place | SeqMemoHash: fill, then 3 in-place rounds, then endian fix |
| Dataset node generator | `vecash_calculate_dag_item` (93-143) | none (reads the cache) | one 64-byte node from 256 FNV mixes of cache parents |
| DAG materialiser | `vecash_compute_full_data` (145-172) | the mapped file body; the loop index | node-by-node fill; progress callback every 1%; cancellation |
| Full handle | `vecash_full_new(_internal)`, `vecash_mmap`, `vecash_full_delete` (363-477) | struct `vecash_full`: FILE*, mapping, `file_size`; the DAG file on disk (magic number + body) | prepare file, map, compute, write magic, flush; delete |
| File preparation | `vecash_io_prepare` (io.c, not in the repository; spec section 4.5) | the DAG file | FAIL / MEMO_MATCH / MEMO_MISMATCH / MEMO_SIZE_MISMATCH, forced recreate |
| Mix engine | `vecash_hash` (174-255), `vecash_light_compute(_internal)`, `vecash_full_compute` | none (reads cache or DAG) | hashimoto: 64 page accesses, compression, final SHA3-256 |
| Quick verifier | `vecash_quick_hash`, `vecash_quick_check_difficulty` (257-294) | none | recompute only the final hash and compare it with the boundary |
| Light handle | `vecash_light_new(_internal)`, `vecash_light_delete` (296-336) | struct `vecash_light`: cache, `cache_size`, `block_number` | allocate and build the cache; free |
| Python binding | `python/core.c` | heap objects it allocates | `mkcache_bytes`, `hashimoto_light`, `get_seedhash` |

SHA3 and the platform file functions are external collaborators. The model
treats them as fixed functions, and as calls that may succeed or fail.

### How the components interact

- `vecash_light_new` derives the seed, looks up the cache size and builds the
  cache.
- `vecash_full_new` uses a light handle to fill the dataset: each node is
  `vecash_calculate_dag_item` over the light's cache.
- After `vecash_full_new` returns, the full handle no longer needs the light
  handle.
- `vecash_light_compute` and `vecash_full_compute` both run `vecash_hash`. The
  light path recomputes every dataset node it reads. The full path reads the
  node from the mapped file.
- The DAG file is state shared across processes and across runs. Each run
  trusts a file whose magic number is present and whose size is right
  (MEMO_MATCH). Otherwise it recomputes the file in place, or recreates it.

### What is hard

- **Ordering and crashes.** The body is written through a `MAP_SHARED`
  mapping. The magic number is written with `fwrite` and then `fflush`. Both
  reach the kernel page cache, which writes pages back to disk in any order.
  The process may be killed at any point, and the machine may crash at any
  point.
- **Partial failure.** The build can stop at any of seven points: the
  `vecash_io_prepare` failure, the `mmap` failure, cancellation by the
  callback, and failures of `fseek`, `fwrite` and `fflush`. Each of these
  paths has its own cleanup.
- **Several handles at once.** A process can hold several full handles over
  the same file while a later `vecash_full_new` recreates or recomputes that
  file.
- **Numeric edges.** The code uses 32-bit arithmetic modulo 2^32. The seed
  loop counter is `uint32_t` while `epochs` is 64-bit. Two divisors can be
  zero: `max_n / 100` and `full_size / 128`.
- **Object lifetime.** On the light path `vecash_hash` reads the dataset
  item through a pointer to `tmp_node`, a variable whose block has already
  ended (internal.c:213-215).

### What makes each component correct

- **DAG file.** The magic number is present only over a complete, correct
  body, both in the page cache and on disk. A returned full handle always maps
  a complete DAG. Every error path releases the stream and the mapping. The
  DAG never changes under a live handle.
- **Mix engine.** The light path and the full path give the same result for
  every header and nonce. The quick verifier agrees with the result of the mix
  engine.
- **Cache builder and node generator.** The in-place loops compute the
  reference SeqMemoHash and the reference dataset item. The indices stay in
  range.
- **Seed derivation.** It ends for every block number the API accepts, and
  gives SHA3-256 applied `epochs` times to the zero seed.
- **Light handle and binding.** Every allocation is freed or owned. An
  allocation failure gives NULL, not a crash.

The hazards are listed with their source lines under `"hazards"` in
`PROJECT.json`.

## 2. Plan and status

1. **`DagFile`** (done). The DAG file, the build of `vecash_full_new_internal`
   and the full handles, under page-cache writeback, process kill and OS
   crash. This is where the code's concurrency, ordering, failure and
   crash hazards are. It also covers the liveness of the build under
   fairness of the calling thread (section 3c).
2. **`DagMemo`** (done). The write-once memo that the DAG file promises its
   readers. `DagFile` implements it without crashes, which is checked by TLC
   and proved by TLAPS (section 3d).
3. **`Hashimoto`** (done, with `HashimotoProofs`). `vecash_calculate_dag_item`,
   `vecash_compute_cache_nodes`, `vecash_hash` and `vecash_quick_hash` as
   operators over a small word width, driven by the light and full handle API.
4. **`LightHandle`** and **`LightApi`** (done). `vecash_light_new`, the seed loop with its
   32-bit counter, the cache-size assert, both allocations and their failure
   paths, `vecash_light_delete`, and the three functions of the Python
   binding (section 3e).
5. Still open:
   - the composition of `DagFile` with `Hashimoto`, in which the memo's
     dataset is the function of the cache;
   - a reference SeqMemoHash written as a whole-array recurrence, to check
     the in-place loop of `vecash_compute_cache_nodes` against;
   - bound lemmas for the cache indices of `Hashimoto` (`% N`, `% P`).
     The page index of the full path is done (`PageNodeInRange`).

## 3. The DagFile model

`DagFile.tla` models the file through two copies:

- `cMagic` and `cBody` are the page-cache view. Every process reads and writes
  this view, through the mapping and stdio.
- `dMagic` and `dBody` are the disk, which is what survives a crash.

A dataset node is abstracted to whether it holds its correct value, that is
`vecash_calculate_dag_item` of its index. Only the control flow and the order
of writes matter to the file properties, so the node values are left out.
`size` is the file's size class:
- `"absent"`;
- `"wrong"`, another size, which gives `MEMO_SIZE_MISMATCH`;
- `"right"`, which is `full_size + 8`.

| Action | Code |
|---|---|
| `FullNew` | `vecash_full_new` and the `calloc` in `vecash_full_new_internal` (internal.c:458-467, 395-401); the callback may be NULL. The new address is one no live handle, open stream or mapping uses. `calloc` could hand out again the freed struct of a handle whose mapping leaked (`dag_munmap_leak`); the model never does, which only keeps the leaked mapping apart from later handles and changes no property |
| `Prepare` | `vecash_io_prepare(force = false)` and the `switch` (400-418) |
| `Reprepare` | the forced prepare after `MEMO_SIZE_MISMATCH` (414-418) |
| `Recreate` | file creation or truncation inside `vecash_io_prepare` (spec-modelled) |
| `Mmap` | `vecash_mmap` in the MATCH and MISMATCH cases, called at 405-410 and 419-424 with `fail_close_file` (363-385); the loop index starts at 0 |
| `ComputeNode` | one iteration of the loop of `vecash_compute_full_data`, with cancellation when `n % (max_n/100) == 0` (156-170) |
| `ComputeDone`, `Seek`, `WriteMagic`, `Flush` | the end of the loop, `fseek`, `fwrite` into the stdio buffer, and `fflush` (171, 433-446) |
| `FailFreeFullData` | the error path: `munmap(ret->data)` fails because `data` is 8 bytes past the page-aligned mapping; `fclose` may still flush a buffered magic (448-455) |
| `FullDelete` | `vecash_full_delete` (469-477): `munmap` fails for the same reason; `fclose` |
| `WritebackStep`, `Kill`, `Crash` | the environment: the kernel writes one dirty item back, in any order; the process dies and its handles, streams, mappings and stdio buffer go with it; or the machine crashes and the page cache is lost as well |

Allocation failures of `calloc` return NULL and change nothing, so they are
stutters. The size check at the top of `vecash_compute_full_data` never fails
for table sizes, and is not modelled. One builder runs at a time, because the
spec leaves concurrent builders undefined. The builder's process may hold any
number of handles.

### Runs

All runs use `MCDagFile.tla`. The bounds are:
- 4 nodes, with `Percent = 2`, so the callback is consulted at nodes 0 and 2.
  A cancellation can therefore come before any write, or after a partial
  body.
- 2 handle addresses, with symmetry, so that a live handle can coexist with a
  second build.
- Every initial file state: absent, wrong size, or right size with any body.

The magic number is present in the initial state only over a complete body,
because an earlier run of this code without a crash could leave nothing else.
The address set is finite, but a `Kill` frees addresses, so the model never
deadlocks. The runs and what they show:

- **`dag_nocrash`** (`MCDagFile.cfg`, MaxCrashes = 0, about 3,700 states,
  passes):
  - `FileConsistent`: the magic is visible only over a complete body.
  - `HandleDataValid`: every live handle maps a complete DAG.
  - `MemoSpec`: the DAG file implements `DagMemo` (section 3d).
- **`dag_crash`** (`MCDagFileCrash.cfg`, one crash, about 7,900 states,
  passes):
  - `BuiltHandlesValid`: a handle whose own build completed maps a complete
    DAG.
  - `FileStreamsOwned`: no FILE* leaks on any error path. Every behaviour
    of `dag_nocrash` is one of this run's, so the property is checked here
    only.
- **`dag_torn_after_crash`** (`MCDagFileTornDag.cfg`, a violation run):
  `HandleDataValid` fails. After a successful build, the kernel writes back
  the magic page and not the body pages, and then the machine crashes. The
  next `vecash_full_new` gets `MEMO_MATCH` and returns a handle over a DAG
  with missing nodes. Spec section 5 requires the magic to become durable
  only after the body. The code never calls `msync` or `fsync` before writing
  the magic (internal.c:433-445).
- **`dag_munmap_leak`** (`MCDagFileMunmap.cfg`, a violation run):
  `MappingsReleased` fails. `munmap` is called with the data pointer, which is
  the mapping plus 8 bytes. That address is not page aligned, so the call
  fails with `EINVAL`, and every deleted or failed full handle leaks its whole
  mapping (internal.c:450 and 472).

- **`dag_build_returns`** (`MCDagFileLive.cfg`, one crash, no symmetry,
  about 15,500 states, passes): `BuildReturns`, every `vecash_full_new` that
  starts returns (section 3c).

For each property of a passing run there is a mutant in `DagFile.tla`: a
plausible bug in the code that TLC must catch.
- The loop stops one node early.
- A cancelling callback is ignored.
- The error path skips `fclose`.
- The first prepare is forced. This breaks `MemoSpec`.
- The loop runs one node past the end.
- A failed `fflush` is retried by writing the magic again. This breaks
  `BuildReturns`.

## 3c. Fairness and liveness of the build

`LiveSpec` is `Spec /\ WF_vars(BuildStep)`. `BuildStep` is the disjunction
of the steps of a `vecash_full_new_internal` call in progress: `Prepare`,
`Reprepare`, `Mmap`, `ComputeNode`, `ComputeDone`, `Seek`, `WriteMagic` and
`Flush`. The justification is in the code: these steps run in the calling
thread, which does nothing else until the call returns, and none of them
waits on another actor. So a build that can take a step eventually does.
Nothing is assumed of the environment (writeback, kill, crash) or of the
caller (starting or deleting a handle): those actions are not fair.

`BuildReturns` (`pc # "idle" ~> pc = "idle"`) says every call returns,
whatever the outcome of each I/O call and the callback, across kills and a
crash. This rules out an error path that loops. The mutant `FlushRetry`
retries a failed `fflush`; TLC then finds a behaviour where the flush fails
forever. The run has no symmetry set, because TLC's symmetry reduction is
unsound for liveness.

## 3d. The memo abstraction and its refinement

`DagMemo.tla` is the promise the DAG file makes to its readers, with no page
cache, disk, stdio or build steps. Its state:
- `complete`: every node is correct;
- `valid`: the file carries the magic number;
- `handles`: the open full handles.

Its actions:
- `Fill`: the dataset becomes complete;
- `Publish`: the magic is written over a complete dataset, possibly
  returning a handle;
- `Open(h)`: a handle is returned over a valid file;
- `Close`: some handles are closed.

Nothing ever makes the dataset incomplete or invalid again: the memo is
written once and read many times.

`DagFile` defines `Memo == INSTANCE DagMemo WITH complete <- cBody = NodeIdx,
valid <- cMagic, handles <- live, Handles <- Ids`, and `MemoSpec == Memo!Spec`.
Each concrete step maps as follows:
- the last `ComputeNode` is `Fill`;
- a successful `Flush` is `Publish` with the new handle;
- the `fclose` of a failed `Flush` that still flushes the buffered magic is
  `Publish` without a handle;
- a MATCH `Mmap` is `Open`;
- `FullDelete` and `Kill` are `Close`;
- every other step, a `Recreate` included, changes nothing the memo sees.

Without crashes a `Recreate` only ever meets a file that has neither magic
nor nodes (`FileShape`): a file of the wrong size or an absent file was never
past `vecash_io_prepare`. With a crash the refinement fails, as
`dag_torn_after_crash` shows: the magic can survive without the body.

## 3e. The LightHandle model

`LightHandle.tla` models the light handle and the Python binding as the heap
sees them. The heap is a finite set `Addresses`. `malloc` and `calloc`
return a free address, or NULL (0). NULL is returned when nothing is free,
or at any time if `AllocFails`.

A process crash is recorded in `faults` and the process restarts with an
empty heap:
- `SIGSEGV`: a NULL dereference;
- `SIGABRT`: an `assert`;
- `SIGFPE`: a division by zero.

| Action | Code |
|---|---|
| `LightNew(b)` | `vecash_light_new` up to the call of `vecash_get_seedhash` (internal.c:321-324) |
| `SeedStep` | one iteration of the loop of `vecash_get_seedhash`, with the `uint32_t` counter taken modulo 2^W (273-281) |
| `GetCachesize` | `vecash_get_cachesize` and its assert (50-54) |
| `LightNewInternal` | `vecash_light_new_internal` with both allocations and their `goto` paths, the unchecked `ret->block_number` store (296-328), and for `mkcache_bytes` the `free(L->cache)` that leaves `L` (core.c:28-30) |
| `LightDelete(h)` | `vecash_light_delete` (330-336) |
| `MkcacheBytes(b)` | `mkcache_bytes` (core.c:19-27), which shares the steps of `vecash_light_new` |
| `GetSeedhash(b)` | the binding's `get_seedhash`, with its range check (core.c:185-199) |
| `HashimotoLight(b, len)` | the binding's `hashimoto_light`: two unchecked `calloc`s, never freed; the `vecash_get_datasize` assert; the division by the number of cache nodes (core.c:69-97) |

The hash values are those of `Hashimoto`. This model sees only the control
flow and the heap. `vecash_compute_cache_nodes` cannot fail for a size from
the table, so it is not a failure path here. The instance is an epoch of one
block, two epochs in the table, `W = 2` and three addresses. So 2^W epochs is
a block number a caller can pass, as 2^32 epochs (about 1.3 * 10^14) is a
64-bit block number in the code.

`LiveSpec` adds weak fairness of `SeedStep`, `GetCachesize` and
`LightNewInternal`, the steps of a call in progress in the calling thread.

`Modulus == 2^W` is the range of the `uint32_t` counter. `LightAssumption`
states that it is a positive natural. That is a fact of arithmetic for
every `W`, but the provers know nothing of `^`. The assumption also says
that callers pass at least one block number.

**The API a caller sees.** `LightApi.tla` is the abstract specification of
the light-handle API (spec section 4.8). Its one variable is `handles`, a
set of `[id, block]` records:
- `New(id, b)`: a fresh `id`, for a block `b` in `ValidBlocks`;
- `Delete(x)`: removes exactly `x`;
- `Reset`: a process crash drops every handle.

`LightHandle` maps onto it with `ApiHandles`, the struct address and block
of each held handle. `ValidBlocks` is the set of blocks whose epoch is below
`MaxEpochs`. `ApiSpec` is `Api!Spec`.

Runs:
- **`light_c_heap`** (passes): a C caller with the heap running out.
  - `HeapOwned`: every allocated block is the struct or cache of a held
    handle.
  - `SeedIterations`: when the epoch number fits the counter, the seed loop
    never runs past it, and `vecash_light_new` leaves the loop with the
    counter exactly at `epochs` (spec 4.2: SHA3 applied `epochs` times).
  - `TypeOK`.
- **`light_py_returns`** (passes): C and Python calls interleaved, with
  allocations failing at will. Every behaviour of a C caller alone is one
  of its behaviours, so the liveness and refinement questions are asked
  here only:
  - `CallsReturn`: every call returns, for block numbers below 2^W epochs.
  - `ApiSpec`: the handles a C caller holds behave as `LightApi` says.
  Every action fires.
- **`light_new_oom`** (violation of `NoFault`): an allocation failure in
  `vecash_light_new_internal` makes `vecash_light_new` store through NULL
  (internal.c:326). The spec says null is returned.
- **`light_new_out_of_range`** (violation of `NoFault`): a block past the
  last epoch aborts on the assert of `vecash_get_cachesize` (internal.c:52).
  The spec says it fails with OutOfRange.
- **`seed_loop_hang`** (violation of `CallsReturn`): a block of 2^W epochs
  makes the seed loop wrap forever (internal.c:278). It never reaches the
  range assert, which comes after it.
- **`binding_leak`** (violation of `HeapOwned`): `mkcache_bytes` leaks the
  light struct, and `hashimoto_light` leaks both its `calloc`s
  (core.c:29, 86, 91).

Mutants:
- `LightDeleteKeepsCache` breaks `HeapOwned`;
- `SeedStepNarrow`, a counter one bit narrower, breaks `CallsReturn`;
- `LightNewInternalNoCacheCheck` stores a NULL cache, which breaks `TypeOK`;
- `SeedStepOffByOne`, the loop guard `i <= epochs`, breaks `SeedIterations`;
- `GetCachesizeNoAssert`, an `NDEBUG` build, hands out a handle for a block
  past the tables, which breaks `ApiSpec`.

## 3b. The Hashimoto model

`Hashimoto.tla` models the hash engine. It keeps every loop of the code
and scales down only the data:

| Code | Scaled to |
|---|---|
| 32-bit words | `W`-bit words (8 in the run) |
| `NODE_WORDS` = 16 | `NodeWords` = 2 |
| `MIX_NODES` = 2 | `MixNodes` = 2 |
| 64 accesses, 256 parents, 3 rounds | `Accesses` = 3, `Parents` = 3, `CacheRounds` = 3 |
| the size tables | `CacheSize` and `DataPages` per epoch (3 and 5 cache nodes; 2 and 3 pages) |

`fnv_hash` keeps its definition, with the product taken modulo 2^W. SHA3-512
and SHA3-256 are replaced by a fixed sponge over words. The properties compare
two ways of computing the same value, so they depend only on the hashes being
functions. The host is little endian, so `fix_endian*` is the identity.
The C operator `^` on words is the constant operator `WordXor`.
`MCHashimoto` gives it the bitwise exclusive or `^^` of `Bitwise`. The
proofs hold for any `WordXor`, so `Hashimoto` itself needs no `Bitwise`.

| Operator | Code |
|---|---|
| `GetSeedhash(e)` | `vecash_get_seedhash`: SHA3-256 iterated `e` times from zero |
| `ComputeCacheNodes(seed, N)` | `vecash_compute_cache_nodes`. The chain, then the in-place rounds: step k rewrites node (k-1) % N and sees the steps before it |
| `CalculateDagItem(cache, P, i)` | `vecash_calculate_dag_item`, the portable loop (the SSE branch computes the same words) |
| `ComputeFullData` | `vecash_compute_full_data` when it is not cancelled |
| `DagNode`, `DagPages` | the `dag_node` of `vecash_hash`: the full path reads `full_nodes[MIX_NODES * index + n]`; the light path computes item `index * MIX_NODES + n`. `DagPages` is the table of these nodes per page and node. The loop reads from it; the nodes are pure, so this is the same as computing each one in the loop |
| `Mix`, `Reduce` | the body of `vecash_hash` over the nodes it reads: the access loop, the compression, `mix_hash` and the final SHA3-256 |
| `VecashHash` | `vecash_hash`: `Mix` over `DagPages` of the light or full source |
| `QuickHash` | `vecash_quick_hash` |

The state is one light handle slot, one full handle slot and the set
`results` of every value `vecash_light_compute` and `vecash_full_compute` have
returned. What a handle holds is a function of its epoch. So the cache, the
dataset and the hashes are tabulated once per epoch (`CacheOf`, `FullOf`, and
`LightHashOf[e][h][x]`, `FullHashOf[e][h][x]`), and a handle is represented by its epoch. The
actions are `LightNew`, `LightDelete`, `LightCompute`, `FullNew` (built from
the current light handle), `FullDelete` and `FullCompute`. The failures of
`vecash_full_new` and the DAG file belong to `DagFile`.

Run `hash_paths_agree` (`MCHashimoto.cfg`, 2304 states) checks two
properties:
- `LightFullAgree`: any two returned values for the same epoch, header and
  nonce are equal, whichever path computed them and from whichever handle.
- `QuickAgrees`: `vecash_quick_hash` of a returned `mix_hash` gives the
  returned result.

Each property has a mutant:
- `DagNodeUnscaled`: the full path reads node `index + n`, which breaks
  `LightFullAgree`.
- `MixEarlyCopy`: `mix_hash` is copied before the compression, which breaks
  `QuickAgrees`.

There are two epochs, with caches and datasets of different sizes, so a full
handle can outlive the light handle it was built from and coexist with a light
handle of another epoch. The access loop reaches every page of both datasets.
Both properties are also proved for every value of the constants
(`HashimotoProofs`, section 4).

## 4. Proofs (DagFileProofs.tla, LightHandleProofs.tla, HashimotoProofs.tla)

All proofs are checked by `tlapm`. They hold for every value of the
constants allowed by `DagAssumption` and `LightAssumption`.

- `TypeCorrect`: `Spec => []TypeOK`.
- `BuiltHandlesSafe`: `Spec => []BuiltHandlesValid`. This holds with any
  number of crashes.
- `MagicImpliesCompleteDag`: under `MaxCrashes = 0`,
  `Spec => []FileConsistent`.
- `LiveHandlesSafe`: under `MaxCrashes = 0`, `Spec => []HandleDataValid`.
- `StreamsOwned`: `Spec => []FileStreamsOwned`, with any number of crashes.
  It is inductive relative to `IInv`. Every step that opens a stream moves the
  build into a stream-holding state. Every step that leaves such a state
  either closes the stream or makes the handle live. Deleting a handle closes
  its stream, and a kill or crash empties everything.

The properties are not inductive by themselves. `IInv`, in `DagFile.tla`,
strengthens them:
- `BuildProgress`: during the loop, every node below `n` is written. At
  `seek`, `write` and `flush` the whole body is written. The stdio buffer holds
  the magic only at `flush`.
- `SizeInv`: past the prepare step the file has the right size. A forced
  prepare happens only to a file of the wrong size.
- Built handles imply the right size.

`NoCrashInv` adds three facts:
- a live handle implies the right size, so no recreate can happen under it;
- a `MEMO_MATCH` build proceeds only while the magic is present;
- the two properties themselves.

- `MemoRefinement`: under `MaxCrashes = 0`, `Spec => MemoSpec`. The
  initial states map to `Memo!Init`, because the magic is present only over
  a complete body. `NextMemo` shows that under `NoCrashInv /\ FileShape`
  every step is a `Memo!Next` step or leaves `<<cBody = NodeIdx, cMagic,
  live>>` unchanged, with one case per action (section 3d). `FileShape` is
  proved inductive alongside `NoCrashInv` (`NextFileShape`).
- `CHeapOwned` (`LightHandleProofs`): with `Callers = {"C"}`,
  `Spec => []HeapOwned`. This holds for any heap size, block numbers and
  allocation failures. The inductive invariant `CInv` adds two facts:
  - `HandlesDisjoint`: no two handles share an address, so deleting one
    frees exactly its own blocks;
  - the call in progress is a `vecash_light_new`.

  A successful `vecash_light_new_internal` takes two distinct free addresses
  (lemma `AllocCInv`), and a crash empties everything (`CrashCInv`).

Further results in `LightHandleProofs` hold for C and Python callers alike:
- `LightTypeCorrect`: `Spec => []TypeOK`. The seed counter stays in
  `0 .. Modulus - 1` across its wrap, and every handle holds two heap
  addresses. Lemma `AllocResultsType`: a non-NULL result of `malloc` is a
  free heap address.
- `SeedLoopExact`: `Spec => []SeedIterations`. The inductive invariant is
  `SeedInv == TypeOK /\ SeedIterations`; `TypeOK` supplies `i \in Nat`.
  The key step is `SeedStepIterations`: while `i < epochs < Modulus`,
  `(i + 1) % Modulus = i + 1 <= epochs`, so the counter does not wrap. When
  the loop exits, `i >= epochs` and `i <= epochs` give `i = epochs`.
- `ApiRefinement`: `Spec => ApiSpec`. It rests on the inductive invariant
  `ApiInv` (lemma `NextApiInv`), which has four parts:
  - `TypeOK`;
  - `Owned \subseteq heap` (with the binding, `HeapOwned` itself fails, but
    the leaked blocks still leave every handle's memory allocated);
  - `HandlesDisjoint`;
  - a call at the allocation stage passed the assert.

  `NextApi` maps every step:
  - a step that leaves the handles alone is a stutter;
  - a crash is `Reset`;
  - `vecash_light_delete` is `Delete`. No other handle has the same struct
    address (`HandlesDisjoint`), so the image loses exactly one record
    (`ApiHandlesDelete`);
  - a successful `vecash_light_new_internal` is `New`. Its address was free
    and every held handle's address is allocated, so it is fresh. Its block
    passed the assert.

`HashimotoProofs` proves the two properties of `hash_paths_agree` for every
word width, node and page shape, number of accesses, parents and rounds,
table of sizes and `^` operator:
- `PathsAgree`: `Spec => []LightFullAgree`;
- `QuickVerifies`: `Spec => []QuickAgrees`.

Neither proof looks inside a hash or a loop. Both rest on the inductive
invariant `ResultsLight` (in `Hashimoto.tla`): the handles hold epochs, and
every recorded value is `LightHashOf` of its epoch, header and nonce. Three
lemmas support it:
- `DagPagesAgree`: the table of nodes the full path reads equals the table
  the light path computes. For a page `index < pages` and `n < MixNodes`,
  `MixNodes * index + n` lies inside the dataset of `pages * MixNodes` nodes
  (`PageNodeInRange`), where `vecash_compute_full_data` stored that very item
  (`FullDataItem`).
- `HashPathsEqual`: `FullHashOf` equals `LightHashOf`. Both are `Mix` over
  equal tables, so they are equal by substitution, without induction over
  the 64 accesses.
- `MixQuick`: `QuickHash` rebuilds the exact term whose SHA3-256 `Mix`
  returns as the result.

`FullCompute` preserves `ResultsLight` through `HashPathsEqual`.

TLC checked the invariants (`IInv`, `NoCrashInv`, `FileShape`, `LightInv`,
`ApiInv`, `SeedInv`, `ResultsLight`)
on the runs' instances before they were proved.
Each proof has one case per action. `PTL` then combines the initial-state
lemma and the step lemma.

A crash copies the disk into the page cache, and the disk may hold the magic
without the body. This is why `FileConsistent` and `HandleDataValid` are
proved only for executions without a crash, and why the run with a crash
shows them violated.

## 5. What is only model-checked, and what is not modelled

- `MappingsReleased` is only checked by TLC, and is violated (the munmap
  finding).
- `BuildReturns` and `CallsReturn` are liveness properties. They are
  checked by TLC only, because TLAPS cannot prove liveness or ENABLED.
- `HeapOwned` with the Python binding is violated (`binding_leak`), so it is
  proved only for C callers.
- What the recursive functions of `Hashimoto` compute is not proved:
  - the hash chains of `GetSeedhash`;
  - the cache rounds;
  - the dataset parents;
  - the values of the access loop.

  Doing so would be induction over data, which the installed provers cannot
  do. `PathsAgree` and `QuickVerifies` avoid it: they compare the two paths
  as the same term over equal arguments.
- Not modelled yet: the composition of the DAG file with the hash values of
  `Hashimoto`. See the plan.
- `LightHandle` assumes a build with asserts enabled. In an `NDEBUG` build
  the out-of-range lookup reads past the tables. This is not modelled,
  except as the mutant `GetCachesizeNoAssert`, which `ApiSpec` catches.
- Not modelled, by design:
  - SHA3 (a fixed stand-in function in `Hashimoto`);
  - the SSE branches of `vecash_calculate_dag_item` and `vecash_hash`, which
    compute the same words as the portable loops that are modelled;
  - big-endian hosts (`endian.h` is not in the repository);
  - floating-point progress values;
  - the contents of the parameter tables (not in the repository);
  - two processes building the same file (undefined by the spec);
  - path resolution.
