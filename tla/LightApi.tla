------------------------------- MODULE LightApi -------------------------------
(***************************************************************************)
(* What the light-handle API promises its C caller (spec section 4.8),    *)
(* with no heap, no seed loop and no allocation steps: the caller holds a *)
(* set of light handles, each named by the address of its struct and      *)
(* built for one block number.                                             *)
(*                                                                         *)
(*   - vecash_light_new returns a handle only for a block number whose     *)
(*     epoch has a cache size, and the handle is new: its address is not  *)
(*     that of a handle the caller still holds;                            *)
(*   - vecash_light_delete takes away exactly the handle it is given;      *)
(*   - when the process dies, every handle is gone with it.                *)
(***************************************************************************)
CONSTANTS
    Ids,          \* the addresses a handle may have
    ValidBlocks   \* the block numbers a handle may be built for

VARIABLE handles  \* the handles the caller holds: [id, block]

Init == handles = {}

\* vecash_light_new(b) returns a new handle.
New(id, b) ==
    /\ b \in ValidBlocks
    /\ \A h \in handles : h.id # id
    /\ handles' = handles \cup {[id |-> id, block |-> b]}

\* vecash_light_delete(x).
Delete(x) ==
    /\ x \in handles
    /\ handles' = handles \ {x}

\* The process ends.
Reset == handles' = {}

Next ==
    \/ \E id \in Ids, b \in ValidBlocks : New(id, b)
    \/ \E x \in handles : Delete(x)
    \/ Reset

Spec == Init /\ [][Next]_handles

=============================================================================
