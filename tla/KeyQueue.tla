------------------------------ MODULE KeyQueue ------------------------------
(***************************************************************************)
(* EFI_KEY_QUEUE of KeypadDxe: a ring of MaxCount slots with Head and Tail *)
(* indices, empty when they are equal, so that one slot is never used.     *)
(***************************************************************************)
EXTENDS Naturals, Sequences

CONSTANT MaxCount     \* KEYPAD_EFI_KEY_MAX_COUNT

ASSUME QueueAssumption == MaxCount \in Nat /\ MaxCount >= 2

Slots  == 0 .. (MaxCount - 1)
NoData == <<>>                  \* a slot that was never written
Queues(D) == [Buffer : [Slots -> D \union {NoData}], Head : Slots, Tail : Slots]

ZeroQueue == [Buffer |-> [i \in Slots |-> NoData], Head |-> 0, Tail |-> 0]

IsEfikeyBufEmpty(q) == q.Head = q.Tail
HeadData(q) == q.Buffer[q.Head]

\* PopEfikeyBufHead on a queue that is not empty.
Advanced(q) == [q EXCEPT !.Head = (@ + 1) % MaxCount]
PopEfikeyBufHead(q) == IF IsEfikeyBufEmpty(q) THEN q ELSE Advanced(q)

\* If the queue is full the oldest key makes room.
MakeRoom(q) ==
    IF (q.Tail + 1) % MaxCount = q.Head THEN PopEfikeyBufHead(q) ELSE q

PushEfikeyBufTail(q, d) ==
    LET r == MakeRoom(q)
    IN  [r EXCEPT !.Buffer = [@ EXCEPT ![r.Tail] = d], !.Tail = (@ + 1) % MaxCount]

\* InitKeypad: the indices go back, the slots keep what they held.
Cleared(q) == [q EXCEPT !.Head = 0, !.Tail = 0]

\* The keys in the queue, oldest first.
Count(q)    == (q.Tail + MaxCount - q.Head) % MaxCount
Contents(q) == [i \in 1 .. Count(q) |-> q.Buffer[(q.Head + i - 1) % MaxCount]]

=============================================================================
