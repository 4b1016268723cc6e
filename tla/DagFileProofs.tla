---------------------------- MODULE DagFileProofs ----------------------------
(***************************************************************************)
(* Proofs about the DAG file model: type correctness, that a handle whose *)
(* own build finished maps a complete DAG whatever crashes happen, and     *)
(* that without a crash the magic number and every live handle imply a     *)
(* complete DAG.                                                           *)
(***************************************************************************)
EXTENDS DagFile, TLAPS

USE DagAssumption

\* The initial states satisfy the inductive invariant.
LEMMA InitIInv == Init => IInv
<1> SUFFICES ASSUME Init PROVE IInv
    OBVIOUS
<1>1. TypeOK
    <2>1. size \in {"absent", "wrong", "right"} /\ cMagic \in BOOLEAN
          /\ dMagic \in BOOLEAN /\ cBody \subseteq NodeIdx /\ dBody \subseteq NodeIdx
        BY DEF Init
    <2>2. pc \in BuilderPcs /\ cur \in Ids /\ n \in 0 .. Nodes
        BY DEF Init, BuilderPcs
    <2>5. cb \in BOOLEAN /\ buf \in BOOLEAN
        BY DEF Init
    <2>3. live \subseteq Ids /\ built \subseteq live /\ streams \subseteq Ids
          /\ maps \subseteq Ids /\ crashes \in 0 .. MaxCrashes
        BY DEF Init
    <2>4. QED
        BY <2>1, <2>2, <2>3, <2>5 DEF TypeOK
<1>2. BuildProgress /\ SizeInv
    BY DEF Init, BuildProgress, SizeInv, HoldsStream
<1>3. built = {}
    BY DEF Init
<1>4. QED
    BY <1>1, <1>2, <1>3 DEF IInv, BuiltHandlesValid

(***************************************************************************)
(* Every step preserves IInv, crashes included: one step per action.       *)
(*                                                                         *)
(***************************************************************************)
LEMMA NextIInv == IInv /\ [Next]_vars => IInv'
<1> SUFFICES ASSUME IInv, [Next]_vars PROVE IInv'
    OBVIOUS
<1> USE DEF IInv, TypeOK, BuildProgress, SizeInv, BuiltHandlesValid, NodeIdx,
           BuilderPcs, HoldsStream
<1>1. CASE FullNew
    BY <1>1 DEF FullNew, fileVars
<1>2. CASE Prepare
    BY <1>2 DEF Prepare, Recreate, fileVars, HoldsStream
<1>3. CASE Reprepare
    BY <1>3 DEF Reprepare, Recreate, fileVars, HoldsStream
<1>4. CASE Mmap
    BY <1>4 DEF Mmap, fileVars, HoldsStream
<1>5. CASE ComputeNode
    <2>1. CASE cb /\ n % Step = 0 /\ FailFreeFullData
        BY <2>1 DEF FailFreeFullData
    <2>2. CASE cBody' = cBody \cup {n} /\ n' = n + 1
               /\ UNCHANGED <<size, cMagic, dMagic, dBody, pc, cur, cb, buf,
                              live, built, streams, maps, crashes>>
        BY <1>5, <2>2 DEF ComputeNode
    <2>3. QED
        BY <1>5, <2>1, <2>2 DEF ComputeNode
<1>6. CASE ComputeDone
    <2>1. cBody = NodeIdx
        <3>1. pc = "compute" /\ n = Nodes
            BY <1>6 DEF ComputeDone
        <3>2. \A i \in NodeIdx : i \in cBody
            BY <3>1
        <3>3. QED
            BY <3>2
    <2>2. QED
        BY <1>6, <2>1 DEF ComputeDone, fileVars
<1>7. CASE Seek
    <2>1. CASE FailFreeFullData
        BY <2>1 DEF FailFreeFullData
    <2>2. CASE pc' = "write"
               /\ UNCHANGED <<fileVars, cur, n, cb, buf, live, built, streams, maps, crashes>>
        BY <1>7, <2>2 DEF Seek, fileVars
    <2>3. QED
        BY <1>7, <2>1, <2>2 DEF Seek
<1>8. CASE WriteMagic
    BY <1>8 DEF WriteMagic, FailFreeFullData, fileVars
<1>9. CASE Flush
    BY <1>9 DEF Flush, FailFreeFullData
<1>10. CASE \E h \in Ids : FullDelete(h)
    BY <1>10 DEF FullDelete, fileVars
<1>11. CASE WritebackStep
    BY <1>11 DEF WritebackStep, Writeback, procVars
<1>12. CASE Kill
    <2>1. cb' \in BOOLEAN /\ buf' \in BOOLEAN /\ buf' = FALSE
        BY <1>12, Zenon DEF Kill, ProcessGone
    <2>2. QED
        BY <1>12, <2>1 DEF Kill, ProcessGone, fileVars
<1>13. CASE Crash
    <2>1. cb' \in BOOLEAN /\ buf' \in BOOLEAN /\ buf' = FALSE
          /\ cMagic' \in BOOLEAN /\ dMagic' \in BOOLEAN
        BY <1>13, Zenon DEF Crash, ProcessGone
    <2>2. QED
        BY <1>13, <2>1 DEF Crash, ProcessGone
<1>14. CASE UNCHANGED vars
    BY <1>14 DEF vars, fileVars, procVars
<1>15. QED
    BY <1>1, <1>2, <1>3, <1>4, <1>5, <1>6, <1>7, <1>8, <1>9, <1>10,
       <1>11, <1>12, <1>13, <1>14 DEF Next

\* IInv holds in every reachable state, crashes included.
THEOREM IInvariant == Spec => []IInv
BY InitIInv, NextIInv, PTL DEF Spec

(***************************************************************************)
(* Every step keeps the FILE* streams owned: each open stream belongs to a *)
(* live handle or to the build in progress, past its vecash_io_prepare.    *)
(***************************************************************************)
LEMMA NextStreamsOwned == IInv /\ FileStreamsOwned /\ [Next]_vars => FileStreamsOwned'
<1> SUFFICES ASSUME IInv, FileStreamsOwned, [Next]_vars PROVE FileStreamsOwned'
    OBVIOUS
<1> USE DEF FileStreamsOwned, HoldsStream
<1>1. CASE FullNew
    BY <1>1 DEF FullNew
<1>2. CASE Prepare
    BY <1>2 DEF Prepare
<1>3. CASE Reprepare
    BY <1>3 DEF Reprepare
<1>4. CASE Mmap
    BY <1>4 DEF Mmap
<1>5. CASE ComputeNode
    BY <1>5 DEF ComputeNode, FailFreeFullData
<1>6. CASE ComputeDone
    BY <1>6 DEF ComputeDone
<1>7. CASE Seek
    BY <1>7 DEF Seek, FailFreeFullData
<1>8. CASE WriteMagic
    BY <1>8 DEF WriteMagic, FailFreeFullData
<1>9. CASE Flush
    BY <1>9 DEF Flush, FailFreeFullData
<1>10. CASE \E h \in Ids : FullDelete(h)
    BY <1>10 DEF FullDelete
<1>11. CASE WritebackStep
    BY <1>11 DEF WritebackStep, procVars
<1>12. CASE Kill
    BY <1>12 DEF Kill, ProcessGone
<1>13. CASE Crash
    BY <1>13 DEF Crash, ProcessGone
<1>14. CASE UNCHANGED vars
    BY <1>14 DEF vars, procVars
<1>15. QED
    BY <1>1, <1>2, <1>3, <1>4, <1>5, <1>6, <1>7, <1>8, <1>9, <1>10,
       <1>11, <1>12, <1>13, <1>14 DEF Next

(***************************************************************************)
(* No FILE* leaks, whatever crashes, kills and failures happen: every      *)
(* error path of vecash_full_new_internal closes the stream it opened, and *)
(* vecash_full_delete closes the handle's.                                 *)
(***************************************************************************)
THEOREM StreamsOwned == Spec => []FileStreamsOwned
<1>1. Init => FileStreamsOwned
    BY DEF Init, FileStreamsOwned
<1>2. Spec => [](IInv /\ FileStreamsOwned)
    BY <1>1, InitIInv, NextIInv, NextStreamsOwned, PTL DEF Spec
<1>3. QED
    BY <1>2, PTL

(***************************************************************************)
(* Type correctness of the DAG file model.                                 *)
(***************************************************************************)
THEOREM TypeCorrect == Spec => []TypeOK
BY IInvariant, PTL DEF IInv

(***************************************************************************)
(* A handle whose own vecash_full_new_internal ran the compute loop to the *)
(* end and flushed the magic maps every node of the DAG with its correct   *)
(* value, whatever crashes, kills and writebacks happened before.          *)
(***************************************************************************)
THEOREM BuiltHandlesSafe == Spec => []BuiltHandlesValid
BY IInvariant, PTL DEF IInv

(***************************************************************************)
(* Without an operating-system crash (MaxCrashes = 0) every step also      *)
(* preserves NoCrashInv: the magic number appears only over a complete     *)
(* body, a MEMO_MATCH build proceeds only while it is present, and the     *)
(* file is recreated only when no handle is live.                          *)
(***************************************************************************)
LEMMA NextNoCrashInv ==
    ASSUME MaxCrashes = 0
    PROVE  NoCrashInv /\ [Next]_vars => NoCrashInv'
<1> SUFFICES ASSUME NoCrashInv, [Next]_vars PROVE NoCrashInv'
    OBVIOUS
<1>1. IInv'
    BY NextIInv DEF NoCrashInv
<1> DEFINE Extra == (live # {} => size = "right")
                   /\ (pc = "mmapMatch" => cMagic)
                   /\ FileConsistent
                   /\ HandleDataValid
<1>2. Extra'
    <2> USE DEF NoCrashInv, IInv, TypeOK, BuildProgress, SizeInv, NodeIdx,
                BuilderPcs, HoldsStream, FileConsistent, HandleDataValid
    <2>1. CASE FullNew
        BY <2>1 DEF FullNew, fileVars
    <2>2. CASE Prepare
        BY <2>2 DEF Prepare, Recreate, fileVars
    <2>3. CASE Reprepare
        BY <2>3 DEF Reprepare, Recreate, fileVars
    <2>4. CASE Mmap
        BY <2>4 DEF Mmap, fileVars
    <2>5. CASE ComputeNode
        <3>1. CASE cb /\ n % Step = 0 /\ FailFreeFullData
            BY <3>1 DEF FailFreeFullData
        <3>2. CASE cBody' = cBody \cup {n} /\ n' = n + 1
                   /\ UNCHANGED <<size, cMagic, dMagic, dBody, pc, cur, cb, buf,
                                  live, built, streams, maps, crashes>>
            BY <2>5, <3>2 DEF ComputeNode
        <3>3. QED
            BY <2>5, <3>1, <3>2 DEF ComputeNode
    <2>6. CASE ComputeDone
        BY <2>6 DEF ComputeDone, fileVars
    <2>7. CASE Seek
        BY <2>7 DEF Seek, FailFreeFullData, fileVars
    <2>8. CASE WriteMagic
        BY <2>8 DEF WriteMagic, FailFreeFullData, fileVars
    <2>9. CASE Flush
        BY <2>9 DEF Flush, FailFreeFullData
    <2>10. CASE \E h \in Ids : FullDelete(h)
        BY <2>10 DEF FullDelete, fileVars
    <2>11. CASE WritebackStep
        BY <2>11 DEF WritebackStep, Writeback, procVars
    <2>12. CASE Kill
        BY <2>12 DEF Kill, ProcessGone, fileVars
    <2>13. CASE Crash
        BY <2>13 DEF Crash
    <2>14. CASE UNCHANGED vars
        BY <2>14 DEF vars, fileVars, procVars
    <2>15. QED
        BY <2>1, <2>2, <2>3, <2>4, <2>5, <2>6, <2>7, <2>8, <2>9, <2>10,
           <2>11, <2>12, <2>13, <2>14 DEF Next
<1>3. QED
    BY <1>1, <1>2 DEF NoCrashInv, Extra

LEMMA InitNoCrashInv == Init => NoCrashInv
<1> SUFFICES ASSUME Init PROVE NoCrashInv
    OBVIOUS
<1>1. live = {} /\ pc = "idle"
    BY DEF Init
<1>2. cMagic => cBody = NodeIdx
    BY Zenon DEF Init
<1>3. QED
    BY <1>1, <1>2, InitIInv DEF NoCrashInv, FileConsistent, HandleDataValid

(***************************************************************************)
(* Without an operating-system crash NoCrashInv holds in every reachable  *)
(* state of the DAG file and the builds of vecash_full_new_internal.       *)
(***************************************************************************)
THEOREM NoCrashInvariant ==
    ASSUME MaxCrashes = 0
    PROVE  Spec => []NoCrashInv
BY InitNoCrashInv, NextNoCrashInv, PTL DEF Spec

(***************************************************************************)
(* In every execution without an operating-system crash, the magic number *)
(* of the DAG file is visible only over a complete and correct body: a    *)
(* cancelled, failed or killed vecash_full_new_internal never leaves a    *)
(* file that a later MEMO_MATCH would trust wrongly.                      *)
(***************************************************************************)
THEOREM MagicImpliesCompleteDag ==
    ASSUME MaxCrashes = 0
    PROVE  Spec => []FileConsistent
BY NoCrashInvariant, PTL DEF NoCrashInv

(***************************************************************************)
(* In every execution without an operating-system crash, every handle     *)
(* vecash_full_new returned, computed or trusted through MEMO_MATCH, maps  *)
(* a complete and correct DAG for as long as it is live.                   *)
(***************************************************************************)
THEOREM LiveHandlesSafe ==
    ASSUME MaxCrashes = 0
    PROVE  Spec => []HandleDataValid
BY NoCrashInvariant, PTL DEF NoCrashInv


(***************************************************************************)
(* Without a crash, the size of the file changes only by vecash_io_prepare *)
(* creating or truncating it to the right size, so a file of another size *)
(* still has neither magic nor nodes.                                      *)
(***************************************************************************)
LEMMA NextFileShape ==
    ASSUME MaxCrashes = 0
    PROVE  NoCrashInv /\ FileShape /\ [Next]_vars => FileShape'
<1> SUFFICES ASSUME NoCrashInv, FileShape, [Next]_vars PROVE FileShape'
    OBVIOUS
<1> USE DEF NoCrashInv, IInv, TypeOK, FileShape
<1>1. CASE Prepare \/ Reprepare
    BY <1>1 DEF Prepare, Reprepare, Recreate, fileVars
<1>2. CASE Crash
    BY <1>2 DEF Crash
<1>3. CASE WritebackStep
    BY <1>3 DEF WritebackStep
<1>4. CASE UNCHANGED size /\ (size # "right" => UNCHANGED <<cMagic, cBody>>)
    BY <1>4
<1>5. QED
    <2>1. CASE FullNew \/ Mmap \/ ComputeDone \/ (\E h \in Ids : FullDelete(h))
               \/ Kill \/ UNCHANGED vars
        BY <2>1, <1>4 DEF FullNew, Mmap, ComputeDone, FullDelete, Kill, fileVars, vars
    <2>2. CASE ComputeNode \/ Seek \/ WriteMagic \/ Flush
        \* These run past vecash_io_prepare, on a file of the right size.
        <3>1. size = "right"
            BY <2>2 DEF ComputeNode, Seek, WriteMagic, Flush, SizeInv, HoldsStream
        <3>2. UNCHANGED size
            BY <2>2 DEF ComputeNode, Seek, WriteMagic, Flush, FailFreeFullData, fileVars
        <3>3. QED
            BY <3>1, <3>2
    <2>3. QED
        BY <1>1, <1>2, <1>3, <2>1, <2>2 DEF Next

LEMMA InitFileShape == Init => FileShape
BY DEF Init, FileShape

(***************************************************************************)
(* Without a crash, every step of the DAG file model is a step of the memo *)
(* of DagMemo or leaves it unchanged: building and recreating never touch *)
(* what a reader can see, the last node written is Fill, a flushed magic   *)
(* (by fflush or by the fclose of an error path) is Publish, a MEMO_MATCH  *)
(* is Open, and vecash_full_delete and a kill are Close.                   *)
(***************************************************************************)
LEMMA NextMemo ==
    ASSUME MaxCrashes = 0
    PROVE  NoCrashInv /\ FileShape /\ [Next]_vars
               => [Memo!Next]_Memo!memoVars
<1> SUFFICES ASSUME NoCrashInv, FileShape, [Next]_vars
             PROVE  [Memo!Next]_Memo!memoVars
    OBVIOUS
<1> USE DEF NoCrashInv, IInv, TypeOK, BuildProgress, SizeInv, HoldsStream, NodeIdx
<1>0. UNCHANGED <<cBody, cMagic, live>> => UNCHANGED Memo!memoVars
    BY DEF Memo!memoVars
<1>1. CASE FullNew \/ ComputeDone \/ WritebackStep \/ UNCHANGED vars
    BY <1>0, <1>1 DEF FullNew, ComputeDone, WritebackStep, Writeback, procVars,
                      fileVars, vars
<1>2. CASE Prepare \/ Reprepare
    BY <1>0, <1>2 DEF Prepare, Reprepare, Recreate, FileShape, fileVars
<1>3. CASE Mmap
    <2>1. UNCHANGED <<cBody, cMagic>>
        BY <1>3 DEF Mmap, fileVars
    <2>2. CASE live' = live
        BY <1>0, <2>1, <2>2
    <2>3. CASE live' # live
        <3>1. pc = "mmapMatch" /\ live' = live \cup {cur}
            BY <1>3, <2>3 DEF Mmap
        <3>2. Memo!Open(cur)
            BY <2>1, <3>1 DEF Memo!Open
        <3>3. QED
            BY <3>2 DEF Memo!Next
    <2>4. QED
        BY <2>2, <2>3
<1>4. CASE ComputeNode
    <2>1. CASE cb /\ n % Step = 0 /\ FailFreeFullData
        \* No magic is buffered before fwrite, so fclose adds none.
        <3>1. ~buf
            BY <1>4 DEF ComputeNode
        <3>2. QED
            BY <1>0, <2>1, <3>1 DEF FailFreeFullData
    <2>2. CASE cBody' = cBody \cup {n} /\ n' = n + 1
               /\ UNCHANGED <<cMagic, live>>
        <3>1. CASE cBody' = 0 .. (Nodes - 1)
            BY <2>2, <3>1 DEF Memo!Next, Memo!Fill
        <3>2. CASE cBody' # 0 .. (Nodes - 1)
            <4>1. cBody # 0 .. (Nodes - 1)
                BY <1>4, <2>2, <3>2 DEF ComputeNode
            <4>2. QED
                BY <2>2, <3>2, <4>1 DEF Memo!memoVars
        <3>3. QED
            BY <3>1, <3>2
    <2>3. QED
        BY <1>4, <2>1, <2>2 DEF ComputeNode
<1>5. CASE Seek \/ WriteMagic
    BY <1>0, <1>5 DEF Seek, WriteMagic, FailFreeFullData, fileVars
<1>6. CASE Flush
    <2>1. cBody = 0 .. (Nodes - 1)
        BY <1>6 DEF Flush
    <2>2. CASE FailFreeFullData
        <3>1. CASE cMagic' = cMagic
            BY <1>0, <2>2, <3>1 DEF FailFreeFullData
        <3>2. CASE cMagic' = TRUE
            BY <2>1, <2>2, <3>2 DEF FailFreeFullData, Memo!Next, Memo!Publish
        <3>3. QED
            BY <2>2, <3>1, <3>2 DEF FailFreeFullData
    <2>3. CASE ~FailFreeFullData
        BY <1>6, <2>1, <2>3 DEF Flush, Memo!Next, Memo!Publish
    <2>4. QED
        BY <2>2, <2>3
<1>7. CASE \E h \in Ids : FullDelete(h)
    BY <1>7 DEF FullDelete, fileVars, Memo!Next, Memo!Close
<1>8. CASE Kill
    BY <1>8 DEF Kill, ProcessGone, fileVars, Memo!Next, Memo!Close
<1>9. CASE Crash
    BY <1>9 DEF Crash
<1>10. QED
    BY <1>1, <1>2, <1>3, <1>4, <1>5, <1>6, <1>7, <1>8, <1>9 DEF Next

(***************************************************************************)
(* Without an operating-system crash the DAG file and the builds of        *)
(* vecash_full_new_internal implement the memo of DagMemo: whatever        *)
(* cancellations, I/O failures, kills and deletes happen, a complete or    *)
(* valid dataset is never taken back, the magic is only written over a    *)
(* complete dataset, and a handle is only handed out over one.             *)
(***************************************************************************)
THEOREM MemoRefinement ==
    ASSUME MaxCrashes = 0
    PROVE  Spec => MemoSpec
<1>1. Init => Memo!Init
    BY DEF Init, Memo!Init
<1>2. Init => NoCrashInv /\ FileShape
    BY InitNoCrashInv, InitFileShape
<1>3. NoCrashInv /\ FileShape /\ [Next]_vars => (NoCrashInv /\ FileShape)'
    BY NextNoCrashInv, NextFileShape
<1>4. QED
    BY <1>1, <1>2, <1>3, NextMemo, PTL DEF Spec, MemoSpec, Memo!Spec

=============================================================================
