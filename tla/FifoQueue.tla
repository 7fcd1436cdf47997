----------------------------- MODULE FifoQueue ------------------------------
(***************************************************************************)
(* What wqueue promises its users, with no mutex and no condition          *)
(* variable: every item that was added is handed to one worker, once, in   *)
(* the order of the calls of add.                                          *)
(***************************************************************************)
EXTENDS Integers, Sequences

CONSTANTS Worker, NoItem

VARIABLES
    added,    \* how many items have been added; item n is the n-th of them
    pending,  \* the items that nobody has taken yet
    held      \* the item each worker is working on

fqvars == <<added, pending, held>>

FifoInit == added = 0 /\ pending = << >> /\ held = [w \in Worker |-> NoItem]

Add ==
    /\ added' = added + 1
    /\ pending' = Append(pending, added + 1)
    /\ UNCHANGED held

Take(w) ==
    /\ held[w] = NoItem /\ pending # << >>
    /\ held' = [held EXCEPT ![w] = Head(pending)]
    /\ pending' = Tail(pending)
    /\ UNCHANGED added

Delete(w) ==
    /\ held[w] # NoItem
    /\ held' = [held EXCEPT ![w] = NoItem]
    /\ UNCHANGED <<added, pending>>

FifoNext == Add \/ \E w \in Worker : Take(w) \/ Delete(w)

FifoSpec == FifoInit /\ [][FifoNext]_fqvars
=============================================================================
