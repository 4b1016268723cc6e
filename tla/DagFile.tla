------------------------------- MODULE DagFile -------------------------------
(***************************************************************************)
(* The on-disk DAG file of vecash and the full handles that map it:        *)
(* vecash_full_new_internal, vecash_compute_full_data, vecash_full_delete  *)
(* (libvecash/internal.c), and vecash_io_prepare, whose source is not in   *)
(* the repository and is modelled from the spec (section 4.5).             *)
(*                                                                         *)
(* The file is seen through two copies: the page cache, which every        *)
(* process reads and writes (MAP_SHARED mapping, stdio writes), and the    *)
(* disk, which is what survives an operating-system crash.  A dataset node *)
(* is abstracted to whether it holds its correct value                     *)
(* (vecash_calculate_dag_item of its index); the magic number to whether   *)
(* it is present.  One process builds at a time (the spec leaves two      *)
(* concurrent builders undefined); it may hold several full handles.      *)
(***************************************************************************)
EXTENDS Naturals, FiniteSets

CONSTANTS
    Nodes,       \* full_size / sizeof(node): max_n of vecash_compute_full_data
    Percent,     \* the divisor 100 of the progress cadence max_n / 100
    Ids,         \* addresses a struct vecash_full may be allocated at
    MaxCrashes   \* bound on operating-system crashes

ASSUME DagAssumption ==
    /\ Nodes \in Nat \ {0}
    /\ Percent \in Nat \ {0}
    \* max_n / 100 is a divisor in the loop; every dataset size of the
    \* parameter table has max_n >= 2^24, so it is never zero.
    /\ Percent <= Nodes
    /\ MaxCrashes \in Nat

NodeIdx == 0 .. (Nodes - 1)

\* max_n / 100: the callback is consulted at every multiple of Step.
Step == Nodes \div Percent

\* Control points of vecash_full_new_internal.
BuilderPcs == {"idle", "prepare", "reprepare", "mmapMatch", "mmapMismatch",
               "compute", "seek", "write", "flush"}

\* Control points at which the builder holds the FILE* of the DAG file.
HoldsStream == {"mmapMatch", "mmapMismatch", "compute", "seek", "write", "flush"}

VARIABLES
    size,      \* the DAG file: "absent", "wrong" (unexpected size) or "right"
    cMagic,    \* the magic number is present in the page cache view
    dMagic,    \* the magic number is present on disk
    cBody,     \* nodes holding their correct value in the page cache view
    dBody,     \* nodes holding their correct value on disk
    pc,        \* control point of the running vecash_full_new_internal
    cur,       \* the struct vecash_full it is building
    n,         \* loop index of vecash_compute_full_data
    cb,        \* a progress callback was passed
    buf,       \* the magic number sits in the stream's stdio buffer
    live,      \* handles returned by vecash_full_new and not yet deleted
    built,     \* live handles whose build computed the DAG itself
    streams,   \* handles whose FILE* is open
    maps,      \* handles whose mmap of the file still exists
    crashes    \* crashes so far

fileVars == <<size, cMagic, dMagic, cBody, dBody>>
procVars == <<pc, cur, n, cb, buf, live, built, streams, maps>>
vars == <<fileVars, procVars, crashes>>

TypeOK ==
    /\ size \in {"absent", "wrong", "right"}
    /\ cMagic \in BOOLEAN /\ dMagic \in BOOLEAN
    /\ cBody \subseteq NodeIdx /\ dBody \subseteq NodeIdx
    /\ pc \in BuilderPcs
    /\ cur \in Ids
    /\ n \in 0 .. Nodes
    /\ cb \in BOOLEAN /\ buf \in BOOLEAN
    /\ live \subseteq Ids /\ built \subseteq live
    /\ streams \subseteq Ids /\ maps \subseteq Ids
    /\ crashes \in 0 .. MaxCrashes

(***************************************************************************)
(* Initially no process runs and the file is as an earlier, uncrashed run  *)
(* of this code left it: absent, of another size, or of the right size     *)
(* with the magic only if every node was written.                          *)
(***************************************************************************)
Init ==
    /\ size \in {"absent", "wrong", "right"}
    /\ cBody \in SUBSET NodeIdx
    /\ cMagic \in BOOLEAN
    /\ size # "right" => cMagic = FALSE /\ cBody = {}
    /\ cMagic => cBody = NodeIdx
    /\ dMagic = cMagic /\ dBody = cBody
    /\ pc = "idle" /\ cur \in Ids /\ n = 0 /\ cb = FALSE /\ buf = FALSE
    /\ live = {} /\ built = {} /\ streams = {} /\ maps = {}
    /\ crashes = 0

-----------------------------------------------------------------------------
(***************************************************************************)
(* vecash_full_new: calloc of a struct vecash_full whose address is not   *)
(* in use (a calloc failure returns NULL and changes nothing); the caller *)
(* passes a callback or NULL.                                              *)
(***************************************************************************)
FullNew ==
    /\ pc = "idle"
    /\ \E id \in Ids \ (live \cup streams \cup maps), c \in BOOLEAN :
          /\ cur' = id /\ cb' = c
    /\ pc' = "prepare"
    /\ UNCHANGED <<fileVars, n, buf, live, built, streams, maps, crashes>>

\* vecash_io_prepare creates the file, or truncates it when forced, to
\* full_size + 8 zero bytes: no magic and no node written, on disk as well.
Recreate ==
    /\ size' = "right"
    /\ cMagic' = FALSE /\ dMagic' = FALSE /\ cBody' = {} /\ dBody' = {}

\* Mutation: the first vecash_io_prepare is called with force = true.
PrepareForced ==
    /\ pc = "prepare"
    /\ \/ /\ pc' = "idle"
          /\ UNCHANGED <<fileVars, streams>>
       \/ /\ Recreate
          /\ streams' = streams \cup {cur} /\ pc' = "mmapMismatch"
    /\ UNCHANGED <<cur, n, cb, buf, live, built, maps, crashes>>

(***************************************************************************)
(* vecash_io_prepare(force = false) and the switch on its result.  FAIL   *)
(* frees the handle; SIZE_MISMATCH has closed the file and leads to a      *)
(* forced prepare; MATCH and MISMATCH return the open FILE*.               *)
(***************************************************************************)
Prepare ==
    /\ pc = "prepare"
    /\ \/ /\ pc' = "idle"
          /\ UNCHANGED <<fileVars, streams>>
       \/ /\ size = "absent"
          /\ Recreate
          /\ streams' = streams \cup {cur} /\ pc' = "mmapMismatch"
       \/ /\ size = "wrong"
          /\ pc' = "reprepare"
          /\ UNCHANGED <<fileVars, streams>>
       \/ /\ size = "right"
          /\ streams' = streams \cup {cur}
          /\ pc' = IF cMagic THEN "mmapMatch" ELSE "mmapMismatch"
          /\ UNCHANGED fileVars
    /\ UNCHANGED <<cur, n, cb, buf, live, built, maps, crashes>>

\* The forced vecash_io_prepare after SIZE_MISMATCH: anything but MISMATCH
\* (only FAIL can happen) goes to fail_free_full.
Reprepare ==
    /\ pc = "reprepare"
    /\ \/ /\ pc' = "idle"
          /\ UNCHANGED <<fileVars, streams>>
       \/ /\ Recreate
          /\ streams' = streams \cup {cur} /\ pc' = "mmapMismatch"
    /\ UNCHANGED <<cur, n, cb, buf, live, built, maps, crashes>>

(***************************************************************************)
(* vecash_mmap in the MATCH and MISMATCH cases.  On failure the file is   *)
(* closed (fail_close_file); on success a MATCH returns the handle and a   *)
(* MISMATCH enters vecash_compute_full_data.                               *)
(***************************************************************************)
Mmap ==
    /\ pc \in {"mmapMatch", "mmapMismatch"}
    /\ \/ /\ streams' = streams \ {cur} /\ pc' = "idle"
          /\ UNCHANGED <<maps, live, n>>
       \/ /\ maps' = maps \cup {cur}
          /\ streams' = streams
          /\ pc' = IF pc = "mmapMatch" THEN "idle" ELSE "compute"
          /\ live' = IF pc = "mmapMatch" THEN live \cup {cur} ELSE live
          /\ n' = 0
    /\ UNCHANGED <<fileVars, cur, cb, buf, built, crashes>>

\* Mutation: the error path skips fclose(ret->file).
FailFreeFullDataNoClose ==
    /\ cMagic' \in IF buf THEN {cMagic, TRUE} ELSE {cMagic}
    /\ buf' = FALSE
    /\ pc' = "idle"
    /\ UNCHANGED <<size, dMagic, cBody, dBody, cur, n, cb, live, built, streams, maps, crashes>>

(***************************************************************************)
(* fail_free_full_data: munmap(ret->data, full_size) is given the mapping  *)
(* address plus VECASH_DAG_MAGIC_NUM_SIZE, which is not page aligned, so   *)
(* it fails with EINVAL and the mapping stays; fclose(ret->file) closes    *)
(* the stream, flushing a buffered magic number if it can.                 *)
(***************************************************************************)
FailFreeFullData ==
    /\ streams' = streams \ {cur}
    /\ cMagic' \in IF buf THEN {cMagic, TRUE} ELSE {cMagic}
    /\ buf' = FALSE
    /\ pc' = "idle"
    /\ UNCHANGED <<size, dMagic, cBody, dBody, cur, n, cb, live, built, maps, crashes>>

\* Mutation: a cancelling callback makes vecash_compute_full_data return true.
ComputeNodeCancelIgnored ==
    /\ pc = "compute"
    /\ n < Nodes
    /\ \/ /\ cb /\ n % Step = 0
          /\ pc' = "seek"
          /\ UNCHANGED <<fileVars, cur, n, cb, buf, live, built, streams, maps, crashes>>
       \/ /\ cBody' = cBody \cup {n}
          /\ n' = n + 1
          /\ UNCHANGED <<size, cMagic, dMagic, dBody, pc, cur, cb, buf,
                         live, built, streams, maps, crashes>>

\* Mutation: the loop runs while n <= max_n, one node past the mapping.
ComputeNodeOverrun ==
    /\ pc = "compute"
    /\ n <= Nodes
    /\ cBody' = cBody \cup {n}
    /\ n' = n + 1
    /\ UNCHANGED <<size, cMagic, dMagic, dBody, pc, cur, cb, buf,
                   live, built, streams, maps, crashes>>

(***************************************************************************)
(* One iteration of the loop of vecash_compute_full_data: at a multiple of *)
(* max_n / 100 a callback that returns non-zero aborts the build;          *)
(* otherwise node n is computed into the mapping.                          *)
(***************************************************************************)
ComputeNode ==
    /\ pc = "compute"
    /\ n < Nodes
    /\ \/ /\ cb /\ n % Step = 0
          /\ FailFreeFullData
       \/ /\ cBody' = cBody \cup {n}
          /\ n' = n + 1
          /\ UNCHANGED <<size, cMagic, dMagic, dBody, pc, cur, cb, buf,
                         live, built, streams, maps, crashes>>

\* Mutation: the loop stops one node early.
ComputeDoneOffByOne ==
    /\ pc = "compute"
    /\ n = Nodes - 1
    /\ pc' = "seek"
    /\ UNCHANGED <<fileVars, cur, n, cb, buf, live, built, streams, maps, crashes>>

\* The loop has written all max_n nodes and returns true.
ComputeDone ==
    /\ pc = "compute"
    /\ n = Nodes
    /\ pc' = "seek"
    /\ UNCHANGED <<fileVars, cur, n, cb, buf, live, built, streams, maps, crashes>>

\* fseek(f, 0, SEEK_SET), which may fail.
Seek ==
    /\ pc = "seek"
    /\ \/ FailFreeFullData
       \/ /\ pc' = "write"
          /\ UNCHANGED <<fileVars, cur, n, cb, buf, live, built, streams, maps, crashes>>

\* fwrite of the magic number into the stream's buffer, which may fail.
WriteMagic ==
    /\ pc = "write"
    /\ \/ FailFreeFullData
       \/ /\ buf' = TRUE /\ pc' = "flush"
          /\ UNCHANGED <<fileVars, cur, n, cb, live, built, streams, maps, crashes>>

\* Mutation: a failed fflush is retried by writing the magic number again.
FlushRetry ==
    /\ pc = "flush"
    /\ \/ /\ pc' = "write" /\ buf' = FALSE
          /\ UNCHANGED <<fileVars, cur, n, cb, live, built, streams, maps, crashes>>
       \/ /\ cMagic' = TRUE /\ buf' = FALSE
          /\ live' = live \cup {cur} /\ built' = built \cup {cur}
          /\ pc' = "idle"
          /\ UNCHANGED <<size, dMagic, cBody, dBody, cur, n, cb, streams, maps, crashes>>

(***************************************************************************)
(* fflush(f): the magic number reaches the page cache and the handle is   *)
(* returned; no msync or fsync precedes it.  A failed flush goes to        *)
(* fail_free_full_data.                                                    *)
(***************************************************************************)
Flush ==
    /\ pc = "flush"
    /\ \/ FailFreeFullData
       \/ /\ cMagic' = TRUE /\ buf' = FALSE
          /\ live' = live \cup {cur} /\ built' = built \cup {cur}
          /\ pc' = "idle"
          /\ UNCHANGED <<size, dMagic, cBody, dBody, cur, n, cb, streams, maps, crashes>>

(***************************************************************************)
(* vecash_full_delete: munmap(full->data, ...) fails as in                 *)
(* fail_free_full_data, fclose closes the stream and the handle is freed.  *)
(***************************************************************************)
FullDelete(h) ==
    /\ h \in live
    /\ live' = live \ {h} /\ built' = built \ {h}
    /\ streams' = streams \ {h}
    /\ UNCHANGED <<fileVars, pc, cur, n, cb, buf, maps, crashes>>

-----------------------------------------------------------------------------
(***************************************************************************)
(* The environment: the kernel writes one dirty page-cache item back to   *)
(* disk, in any order; the process is killed (its handles, streams,        *)
(* mappings and stdio buffer vanish, the page cache stays); the machine    *)
(* crashes (the page cache is lost too).                                   *)
(***************************************************************************)
Writeback ==
    \/ /\ cMagic # dMagic
       /\ dMagic' = cMagic
       /\ UNCHANGED dBody
    \/ \E i \in NodeIdx :
          /\ (i \in cBody) # (i \in dBody)
          /\ dBody' = IF i \in cBody THEN dBody \cup {i} ELSE dBody \ {i}
          /\ UNCHANGED dMagic

WritebackStep ==
    /\ Writeback
    /\ UNCHANGED <<size, cMagic, cBody, procVars, crashes>>

ProcessGone ==
    /\ pc' = "idle" /\ n' = 0 /\ cb' = FALSE /\ buf' = FALSE
    /\ live' = {} /\ built' = {} /\ streams' = {} /\ maps' = {}
    /\ UNCHANGED cur

Kill ==
    /\ pc # "idle" \/ live \cup streams \cup maps # {}
    /\ ProcessGone
    /\ UNCHANGED <<fileVars, crashes>>

Crash ==
    /\ crashes < MaxCrashes
    /\ ProcessGone
    /\ cMagic' = dMagic /\ cBody' = dBody
    /\ crashes' = crashes + 1
    /\ UNCHANGED <<size, dMagic, dBody>>

Next ==
    \/ FullNew \/ Prepare \/ Reprepare \/ Mmap
    \/ ComputeNode \/ ComputeDone \/ Seek \/ WriteMagic \/ Flush
    \/ \E h \in Ids : FullDelete(h)
    \/ WritebackStep \/ Kill \/ Crash

Spec == Init /\ [][Next]_vars

(***************************************************************************)
(* The steps of a vecash_full_new_internal call in progress.  They run in  *)
(* the calling thread, which does nothing else until the call returns, so *)
(* a build that can take a step eventually does: weak fairness on them.    *)
(* The environment (writeback, kill, crash) and the caller's decision to   *)
(* start or delete a handle are not assumed to happen.                     *)
(***************************************************************************)
BuildStep ==
    \/ Prepare \/ Reprepare \/ Mmap \/ ComputeNode \/ ComputeDone
    \/ Seek \/ WriteMagic \/ Flush

LiveSpec == Spec /\ WF_vars(BuildStep)

-----------------------------------------------------------------------------
(***************************************************************************)
(* Properties.                                                             *)
(***************************************************************************)

\* The DAG file's format promise (vecash_full_new_internal writes the magic
\* only after vecash_compute_full_data): whenever a process can see the
\* magic number, every node of the body holds its correct value.
FileConsistent == cMagic => cBody = NodeIdx

\* Every handle vecash_full_new returned, whether it computed the DAG or
\* trusted a MEMO_MATCH, maps a complete and correct DAG.
HandleDataValid == live # {} => cBody = NodeIdx

\* Every handle whose own build ran vecash_compute_full_data to the end maps
\* a complete and correct DAG, crashes or not.
BuiltHandlesValid == built # {} => cBody = NodeIdx

\* No FILE* leaks: an open stream belongs to a live handle or to the build
\* in progress (every error path of vecash_full_new_internal closes it).
FileStreamsOwned ==
    streams \subseteq live \cup (IF pc \in HoldsStream THEN {cur} ELSE {})

\* No mapping leaks: vecash_full_delete and the error paths release it.
MappingsReleased ==
    maps \subseteq live \cup (IF pc \in HoldsStream THEN {cur} ELSE {})

(***************************************************************************)
(* Every call of vecash_full_new returns: whatever the outcome of          *)
(* vecash_io_prepare, mmap, the callback, fseek, fwrite and fflush, and    *)
(* across crashes and kills, the build eventually leaves its steps.        *)
(***************************************************************************)
BuildReturns == pc # "idle" ~> pc = "idle"


(***************************************************************************)
(* The DAG file implements the memo of DagMemo: the dataset is complete    *)
(* when every node in the page cache view holds its value, valid when the *)
(* magic number is visible there, and the open handles are the live ones. *)
(* Without an operating-system crash, every step of vecash_full_new,       *)
(* vecash_full_delete, writeback and a kill is a step of the memo.         *)
(***************************************************************************)
Memo == INSTANCE DagMemo
            WITH complete <- cBody = NodeIdx, valid <- cMagic,
                 handles <- live, Handles <- Ids

MemoSpec == Memo!Spec

-----------------------------------------------------------------------------
(***************************************************************************)
(* Strengthenings of the properties that are inductive (DagFileProofs).    *)
(***************************************************************************)

\* The build in progress has written every node below its loop index, and
\* all of them once the loop is over; the magic sits in the stdio buffer
\* only between fwrite and fflush.
BuildProgress ==
    /\ pc = "compute" => \A i \in NodeIdx : i < n => i \in cBody
    /\ pc \in {"seek", "write", "flush"} => cBody = NodeIdx
    /\ buf => pc = "flush"

\* The file exists at its right size under every build past vecash_io_prepare,
\* and a forced prepare happens only to a file of the wrong size.
SizeInv ==
    /\ pc \in HoldsStream => size = "right"
    /\ pc = "reprepare" => size = "wrong"

\* Holds in every execution, crashes included.
IInv ==
    /\ TypeOK
    /\ BuildProgress
    /\ SizeInv
    /\ built # {} => size = "right"
    /\ BuiltHandlesValid

\* Holds in every execution without an operating-system crash.
NoCrashInv ==
    /\ IInv
    /\ live # {} => size = "right"
    /\ pc = "mmapMatch" => cMagic
    /\ FileConsistent
    /\ HandleDataValid

\* Without a crash, a file not of the right size was left so by an earlier
\* run that never got past vecash_io_prepare: no magic and no node, so
\* recreating it changes nothing a reader of the memo can see.
FileShape == size # "right" => ~cMagic /\ cBody = {}

=============================================================================
