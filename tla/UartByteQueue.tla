---------------------------- MODULE UartByteQueue ----------------------------
(***************************************************************************)
(* What a ring buffer of the M4's UART driver promises: a bounded FIFO of *)
(* bytes.  The producer puts a run of bytes at the end while there is      *)
(* room; the consumer takes bytes from the front, in order -- the RX      *)
(* reader everything there is, the TX interrupt what fits the FIFO.       *)
(* `taken` is the history of what the consumer has been handed.           *)
(***************************************************************************)
EXTENDS Naturals, Sequences, SequencesExt

CONSTANTS
    Capacity,   \* bytes the queue can hold
    Bytes       \* the byte values

VARIABLES queue, taken

Init == queue = <<>> /\ taken = <<>>

\* The producer appends bytes (possibly none) without exceeding Capacity.
Put ==
    /\ IsPrefix(queue, queue')
    /\ Len(queue') <= Capacity
    /\ UNCHANGED taken

\* The consumer takes a nonempty run of bytes from the front.
Take ==
    /\ queue # <<>>
    /\ \E n \in 1..Len(queue) :
          /\ taken' = taken \o SubSeq(queue, 1, n)
          /\ queue' = SubSeq(queue, n + 1, Len(queue))

Next == Put \/ Take

Spec == Init /\ [][Next]_<<queue, taken>>

TypeOK == queue \in Seq(Bytes) /\ Len(queue) <= Capacity /\ taken \in Seq(Bytes)
====
