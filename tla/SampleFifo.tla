----------------------------- MODULE SampleFifo -----------------------------
(***************************************************************************)
(* What u_RingBuffer promises its two users (src/src/u_ringbuffer.h:7 and  *)
(* u_ringbuffer.cpp:12): a queue of samples between one producer and one   *)
(* consumer that takes a whole block or drops it, and hands samples out in *)
(* order, from the front, each once.                                       *)
(*                                                                         *)
(* A sample is the number it gets when the queue takes it: the first       *)
(* sample taken is 1, the next 2, and so on.                               *)
(***************************************************************************)
EXTENDS Naturals, Sequences

CONSTANT Capacity       \* bufferSize, in samples

VARIABLES queue,        \* the samples taken and not handed out yet
          accepted      \* how many samples the queue has ever taken

fifoVars == <<queue, accepted>>

FifoInit ==
    /\ queue = <<>>
    /\ accepted = 0

(* The producer's block of n samples fits and is taken as a whole.         *)
Put(n) ==
    /\ Len(queue) + n <= Capacity
    /\ queue' = queue \o [i \in 1..n |-> accepted + i]
    /\ accepted' = accepted + n

(* The consumer is handed (or throws away) the n oldest samples.           *)
Get(n) ==
    /\ queue' = SubSeq(queue, n + 1, Len(queue))
    /\ UNCHANGED accepted

FifoNext ==
    \/ \E n \in 1..Capacity : Put(n)
    \/ \E n \in 1..Len(queue) : Get(n)

FifoSpec == FifoInit /\ [][FifoNext]_fifoVars

=============================================================================
