------------------------------ MODULE SpscRing ------------------------------
(***************************************************************************)
(* The lock-free ring of engine/src/ring.hpp, with the two threads that    *)
(* use one: a producer (the rx thread filling chunks, or the ctl thread    *)
(* queueing capture requests) and a consumer (the dsp thread).             *)
(*                                                                         *)
(* Each thread owns one cursor and only reads the other's, so a ring call  *)
(* touches shared memory once: beginWrite loads tail, commitWrite stores   *)
(* head, peekRead loads head, commitRead stores tail.  Each is one action. *)
(* Between the two calls of a pair the thread works on the slot in place,  *)
(* which is why filling and reading are steps of their own.                *)
(*                                                                         *)
(* Cursors are free-running size_t counters.  They wrap at 2^64, and slot  *)
(* numbers come from cursor % slots_, which is right across the wrap only  *)
(* because the two rings have 512 and 4096 slots, divisors of 2^64: hence  *)
(* Wrap == Laps * Slots.                                                   *)
(***************************************************************************)
EXTENDS Integers, Sequences

CONSTANTS
  Slots,    \* slots_: 512 chunks, 4096 capture requests
  Laps,     \* times the slots fit in the cursor's range
  Items,    \* what a producer stores
  Nothing,  \* no item
  Torn      \* a slot whose item is only partly written

ASSUME SlotsAssumption == Slots \in Nat \ {0}
ASSUME LapsAssumption == Laps \in Nat \ {0, 1}
ASSUME ItemsAssumption == Nothing \notin Items /\ Torn \notin Items

VARIABLES
  head,     \* head_: the producer's cursor
  tail,     \* tail_: the consumer's cursor
  buf,      \* buf_: the slots
  writer,   \* the producer: "idle", "filling" a slot, or "filled" it
  reader,   \* the consumer: "idle", "reading" a slot, or "done" with it
  held,     \* the item the consumer read from the slot it holds
  released  \* the item of the slot the consumer released last

vars == <<head, tail, buf, writer, reader, held, released>>

Wrap == Laps * Slots

SlotOf(cursor) == cursor % Slots

\* size_t arithmetic.
Advance(cursor) == (cursor + 1) % Wrap
Distance(h, t) == (h - t) % Wrap

Init == /\ head = 0
        /\ tail = 0
        /\ buf = [s \in 0 .. Slots - 1 |-> Nothing]
        /\ writer = "idle"
        /\ reader = "idle"
        /\ held = Nothing
        /\ released = Nothing

-----------------------------------------------------------------------------
(* The producer.                                                           *)

\* Mutant: "full" tested one slot late.
BeginWriteOneLate ==
  /\ writer = "idle"
  /\ Distance(head, tail) <= Slots
  /\ buf' = [buf EXCEPT ![SlotOf(head)] = Torn]
  /\ writer' = "filling"
  /\ UNCHANGED <<head, tail, reader, held, released>>

\* beginWrite gave a slot: the radio driver starts to write into it.  When
\* the ring is full it gives none, the caller drops what it has, and nothing
\* here changes.
BeginWrite == /\ writer = "idle"
              /\ Distance(head, tail) < Slots
              /\ buf' = [buf EXCEPT ![SlotOf(head)] = Torn]
              /\ writer' = "filling"
              /\ UNCHANGED <<head, tail, reader, held, released>>

Fill(item) == /\ writer = "filling"
              /\ buf' = [buf EXCEPT ![SlotOf(head)] = item]
              /\ writer' = "filled"
              /\ UNCHANGED <<head, tail, reader, held, released>>

\* A receive timeout or a broken chain: the slot is left as it is and not
\* committed.
Abandon == /\ writer \in {"filling", "filled"}
           /\ writer' = "idle"
           /\ UNCHANGED <<head, tail, buf, reader, held, released>>

\* Mutant: the chunk is published before it is written.
CommitWriteEarly == /\ writer \in {"filling", "filled"}
                    /\ head' = Advance(head)
                    /\ writer' = "idle"
                    /\ UNCHANGED <<tail, buf, reader, held, released>>

CommitWrite == /\ writer = "filled"
               /\ head' = Advance(head)
               /\ writer' = "idle"
               /\ UNCHANGED <<tail, buf, reader, held, released>>

-----------------------------------------------------------------------------
(* The consumer.                                                           *)

PeekRead == /\ reader = "idle"
            /\ tail # head
            /\ reader' = "reading"
            /\ UNCHANGED <<head, tail, buf, writer, held, released>>

ReadSlot == /\ reader = "reading"
            /\ held' = buf[SlotOf(tail)]
            /\ reader' = "done"
            /\ UNCHANGED <<head, tail, buf, writer, released>>

\* The capture ended inside the chunk: it stays in the ring, for the next
\* capture to read the rest of it.
Keep == /\ reader = "done"
        /\ reader' = "idle"
        /\ UNCHANGED <<head, tail, buf, writer, held, released>>

CommitRead == /\ reader = "done"
              /\ tail' = Advance(tail)
              /\ released' = held
              /\ reader' = "idle"
              /\ UNCHANGED <<head, buf, writer, held>>

-----------------------------------------------------------------------------
Producer == \/ BeginWrite
            \/ \E item \in Items : Fill(item)
            \/ Abandon
            \/ CommitWrite

Consumer == PeekRead \/ ReadSlot \/ Keep \/ CommitRead

Next == Producer \/ Consumer

Spec == Init /\ [][Next]_vars

-----------------------------------------------------------------------------
(* Properties.                                                             *)

\* Every variable keeps its type; both cursors stay inside a size_t.
TypeOK == /\ head \in 0 .. Wrap - 1
          /\ tail \in 0 .. Wrap - 1
          /\ buf \in [0 .. Slots - 1 -> Items \cup {Nothing, Torn}]
          /\ writer \in {"idle", "filling", "filled"}
          /\ reader \in {"idle", "reading", "done"}
          /\ held \in Items \cup {Nothing, Torn}
          /\ released \in Items \cup {Nothing, Torn}

\* The cursors never drift further apart than the ring is long, on either
\* side of a wrap: a tail past head would read as a ring that is full for
\* ever to the producer and full of old chunks to the consumer.
CursorsInStep == Distance(head, tail) \in 0 .. Slots

\* The two threads never work on the same slot at the same time, so the
\* unlocked reads and writes of a slot's contents do not race.
SlotExclusive ==
  writer # "idle" /\ reader # "idle" => SlotOf(head) # SlotOf(tail)

\* The items committed and not yet released, oldest first.
Stored == [i \in 1 .. Distance(head, tail) |->
             buf[SlotOf((tail + i - 1) % Wrap)]]

\* The consumer never gets a chunk that is only partly written, and what it
\* holds is the oldest chunk in the ring, however long it holds it.
HeldIsOldest ==
  reader = "done" => held \in Items /\ held = buf[SlotOf(tail)]

\* The inductive strengthening of the above: who holds a slot knows that it
\* is his (room in the ring, or a chunk in it), and every slot between the
\* cursors holds a whole chunk.
RingInv ==
  /\ TypeOK
  /\ CursorsInStep
  /\ writer # "idle" => Distance(head, tail) < Slots
  /\ reader # "idle" => head # tail
  /\ writer = "filled" => buf[SlotOf(head)] \in Items
  /\ \A d \in 0 .. Distance(head, tail) - 1 :
       buf[SlotOf((tail + d) % Wrap)] \in Items
  /\ HeldIsOldest

\* The ring is the bounded queue its users take it for: nothing is lost,
\* invented, reordered or handed out twice.
Fifo == INSTANCE BoundedFifo WITH queue <- Stored, taken <- released
ImplementsFifo == Fifo!Spec
=============================================================================
