------------------------------- MODULE DagMemo -------------------------------
(***************************************************************************)
(* What the DAG file promises its readers (spec sections 4.5 and 5), with  *)
(* no page cache, no disk, no stdio and no build steps: the dataset in    *)
(* the file is complete or not, the magic number marks it valid or not,   *)
(* and full handles are opened over it and closed.                         *)
(*                                                                         *)
(*   - a dataset is only marked valid once it is complete;                 *)
(*   - a handle is only handed out over a complete dataset, either one    *)
(*     just computed and published or one found valid;                     *)
(*   - a complete or valid dataset is never taken back: the memo is       *)
(*     written once and read many times.                                   *)
(***************************************************************************)
CONSTANT Handles   \* the full handles that may be opened

VARIABLES
    complete,  \* every node of the dataset in the file is correct
    valid,     \* the file carries the magic number
    handles    \* the open full handles

memoVars == <<complete, valid, handles>>

\* A file left by an earlier run: the magic number only on a complete body.
Init ==
    /\ complete \in BOOLEAN
    /\ valid \in BOOLEAN
    /\ valid => complete
    /\ handles = {}

\* The last node of the dataset is written.
Fill ==
    /\ complete' = TRUE
    /\ UNCHANGED <<valid, handles>>

\* The magic number is written over a complete dataset, and possibly a
\* handle over it is returned.
Publish ==
    /\ complete
    /\ valid' = TRUE
    /\ \/ UNCHANGED handles
       \/ \E h \in Handles : handles' = handles \cup {h}
    /\ UNCHANGED complete

\* A handle is returned over a file found valid.
Open(h) ==
    /\ valid
    /\ handles' = handles \cup {h}
    /\ UNCHANGED <<complete, valid>>

\* Some handles are closed.
Close ==
    /\ handles' \subseteq handles
    /\ UNCHANGED <<complete, valid>>

Next == Fill \/ Publish \/ (\E h \in Handles : Open(h)) \/ Close

Spec == Init /\ [][Next]_memoVars

=============================================================================
