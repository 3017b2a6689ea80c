------------------------------- MODULE KeyFifo -------------------------------
(***************************************************************************)
(* What a reader of the keypad is promised: the keys typed since the last  *)
(* reset come in order, each once, and if the reader falls behind it       *)
(* loses the oldest ones, never more than it has to.                       *)
(***************************************************************************)
EXTENDS Naturals, Sequences

CONSTANTS Capacity, KeyDatas, Partial(_)

VARIABLES fifo, resets

\* A key arrives.
Arrived(s, d) == IF Len(s) = Capacity THEN Append(Tail(s), d) ELSE Append(s, d)

\* WaitForKey passes over the partial keys at the head.
Skips(s, t) ==
    /\ Len(t) <= Len(s)
    /\ t = SubSeq(s, Len(s) - Len(t) + 1, Len(s))
    /\ \A i \in 1 .. (Len(s) - Len(t)) : Partial(s[i])

\* One poll of the device brings no key or one; then at most one key is read.
Polled(s) == {s} \union {Arrived(s, d) : d \in KeyDatas}

Init == fifo = <<>> /\ resets = 0

Deliver ==
    /\ \E s \in Polled(fifo) :
          \/ fifo' = s
          \/ s # <<>> /\ fifo' = Tail(s)
          \/ Skips(s, fifo')
    /\ UNCHANGED resets

Reset == fifo' = <<>> /\ resets' = resets + 1

Spec == Init /\ [][Deliver \/ Reset]_<<fifo, resets>>

=============================================================================
