---------------------------- MODULE BoundedFifo ----------------------------
(***************************************************************************)
(* What a chunk ring promises its two users: a first-in first-out queue of *)
(* at most Slots items.  SpscRing is shown to implement it.                *)
(***************************************************************************)
EXTENDS Integers, Sequences

CONSTANTS Slots,   \* capacity
          Items,   \* what can be put in
          Nothing  \* no item taken yet

VARIABLES queue,   \* the items put and not yet taken, oldest first
          taken    \* the item taken last

vars == <<queue, taken>>

Init == /\ queue = <<>>
        /\ taken = Nothing

Put(item) == /\ Len(queue) < Slots
             /\ queue' = Append(queue, item)
             /\ UNCHANGED taken

Take == /\ queue # <<>>
        /\ taken' = Head(queue)
        /\ queue' = Tail(queue)

Next == (\E item \in Items : Put(item)) \/ Take

Spec == Init /\ [][Next]_vars
=============================================================================
