----------------------------- MODULE RingBuffer -----------------------------
(***************************************************************************)
(* u_RingBuffer (src/src/u_ringbuffer.cpp) with the two threads that use   *)
(* it, at the granularity of its atomics.                                  *)
(*                                                                         *)
(* One thread writes blocks and one reads them.  The microphone's ring is  *)
(* written by PipeWire's real-time thread (writeAudioData) and read by the *)
(* Qt main thread (readRawData, discardSamples); the loudspeaker's ring is *)
(* written by the main thread (writeRawData) and read by the real-time     *)
(* thread (readAudioData).  writeAheadWindow and prefillComplete are       *)
(* shared; writePos belongs to the writer and readPos to the reader, so a  *)
(* step that touches a position is merged with the thread's neighbouring   *)
(* access to shared memory.  A memcpy is one step: NoOverlap, proved in    *)
(* AudioProofs, is what makes that sound.                                  *)
(*                                                                         *)
(* A sample is the number it gets when the ring takes it; 0 is silence.    *)
(***************************************************************************)
EXTENDS Integers, Sequences

CONSTANTS BufferSize,    \* bufferSize: samples the ring holds
          Prefill,       \* prefillNumSamples: 5 ms of samples
          WriteSizes,    \* block sizes the producer writes
          ReadSizes,     \* block sizes the consumer asks for
          MaxSamples     \* bound: samples the ring takes in one behaviour

ASSUME SizeAssumption ==
    /\ BufferSize \in Nat \ {0}
    /\ Prefill \in 1..BufferSize
    /\ WriteSizes \subseteq Nat \ {0}
    /\ ReadSizes \subseteq 1..BufferSize
    /\ MaxSamples \in Nat

VARIABLES buffer,            \* the cells
          readPos, writePos,
          window,            \* writeAheadWindow
          prefillComplete,
          accepted,          \* history: samples published by the writer
          delivered,         \* history: samples the reader has released
          wpc, wcount,       \* the writer's next step and its block
          rpc, rkind, rcount,\* the reader's next step, its call and its block;
                             \* "audio" on one ring, "raw", "discard" on the other
          samples            \* what the reader's call hands to its caller

writerVars == <<writePos, accepted, wpc, wcount>>
readerVars == <<readPos, delivered, rpc, rkind, rcount, samples>>
vars == <<buffer, window, prefillComplete, writerVars, readerVars>>

Cells == 0..(BufferSize - 1)
Silence == [k \in Cells |-> 0]

(* The cell at offset i from the start of the array, counting past its end *)
(* back to its start.                                                      *)
Slot(i) == IF i >= BufferSize THEN i - BufferSize ELSE i

(* How far cell c lies behind position p in writing order.                 *)
Offset(c, p) == IF c >= p THEN c - p ELSE c + BufferSize - p

(* Mutant: what a block wraps around is forgotten.                         *)
AdvanceToStart(p, n) == IF p + n <= BufferSize THEN p + n ELSE 0

(* A position after a block of n: the `easy' branch adds, the wraparound   *)
(* branch keeps what lies beyond the end.                                  *)
Advance(p, n) == IF p + n <= BufferSize THEN p + n ELSE p + n - BufferSize

(* Mutant: a position at the end of the array stays there.                 *)
AdvanceStay(p, n) == Advance(p, n)

(* The same, the easy branch putting a position that reached the end back  *)
(* to 0.                                                                   *)
AdvanceWrap(p, n) == IF p + n = BufferSize THEN 0 ELSE Advance(p, n)

Init ==
    /\ buffer = Silence
    /\ readPos = 0 /\ writePos = 0
    /\ window = 0
    /\ prefillComplete = FALSE
    /\ accepted = 0 /\ delivered = 0
    /\ wpc = "idle" /\ wcount = 0
    /\ rpc = "idle" /\ rcount = 0
    /\ rkind \in {"audio", "raw"}
    /\ samples = Silence

-----------------------------------------------------------------------------
(* The writer: writeAudioData and writeRawData.                            *)

WStart(n) ==
    /\ wpc = "idle"
    /\ accepted + n <= MaxSamples
    /\ wcount' = n
    /\ wpc' = "check"
    /\ UNCHANGED <<buffer, window, prefillComplete, writePos, accepted, readerVars>>

(* Overflow: the whole block is dropped.                                   *)
WDrop ==
    /\ wpc = "check"
    /\ window + wcount > BufferSize
    /\ wpc' = "idle"
    /\ UNCHANGED <<buffer, window, prefillComplete, writePos, accepted, wcount, readerVars>>

(* Mutant: the overflow test is one sample too generous.                   *)
WAcceptOneMore ==
    /\ wpc = "check"
    /\ window + wcount <= BufferSize + 1
    /\ wpc' = "copy"
    /\ UNCHANGED <<buffer, window, prefillComplete, writePos, accepted, wcount, readerVars>>

WAccept ==
    /\ wpc = "check"
    /\ window + wcount <= BufferSize
    /\ wpc' = "copy"
    /\ UNCHANGED <<buffer, window, prefillComplete, writePos, accepted, wcount, readerVars>>

(* Mutant: a block that runs over the end is cut there.                    *)
WCopyNoWrap ==
    /\ wpc = "copy"
    /\ buffer' = [c \in Cells |->
                    IF c >= writePos /\ Offset(c, writePos) < wcount
                    THEN accepted + Offset(c, writePos) + 1
                    ELSE buffer[c]]
    /\ writePos' = AdvanceWrap(writePos, wcount)
    /\ wpc' = "publish"
    /\ UNCHANGED <<window, prefillComplete, accepted, wcount, readerVars>>

(* memcpy, in two parts when the block runs over the end; writePos.        *)
WCopy ==
    /\ wpc = "copy"
    /\ buffer' = [c \in Cells |->
                    IF Offset(c, writePos) < wcount
                    THEN accepted + Offset(c, writePos) + 1
                    ELSE buffer[c]]
    /\ writePos' = AdvanceWrap(writePos, wcount)
    /\ wpc' = "publish"
    /\ UNCHANGED <<window, prefillComplete, accepted, wcount, readerVars>>

(* writeAheadWindow += count                                               *)
WPublish ==
    /\ wpc = "publish"
    /\ window' = window + wcount
    /\ accepted' = accepted + wcount
    /\ wpc' = "test"
    /\ UNCHANGED <<buffer, prefillComplete, writePos, wcount, readerVars>>

(* if (!prefillComplete && writeAheadWindow >= prefillNumSamples): the two *)
(* operands are read one after the other.                                  *)
WTest ==
    /\ wpc = "test"
    /\ wpc' = IF prefillComplete THEN "idle" ELSE "fill"
    /\ UNCHANGED <<buffer, window, prefillComplete, writePos, accepted, wcount, readerVars>>

(* Mutant: any sample completes the pre-fill.                              *)
WFillAny ==
    /\ wpc = "fill"
    /\ wpc' = IF window > 0 THEN "set" ELSE "idle"
    /\ UNCHANGED <<buffer, window, prefillComplete, writePos, accepted, wcount, readerVars>>

WFill ==
    /\ wpc = "fill"
    /\ wpc' = IF window >= Prefill THEN "set" ELSE "idle"
    /\ UNCHANGED <<buffer, window, prefillComplete, writePos, accepted, wcount, readerVars>>

WSet ==
    /\ wpc = "set"
    /\ prefillComplete' = TRUE
    /\ wpc' = "idle"
    /\ UNCHANGED <<buffer, window, writePos, accepted, wcount, readerVars>>

Writer ==
    \/ \E n \in WriteSizes : WStart(n)
    \/ WDrop \/ WAccept \/ WCopy \/ WPublish \/ WTest \/ WFill \/ WSet

-----------------------------------------------------------------------------
(* The reader: readAudioData, readRawData and discardSamples, each behind  *)
(* the test its only caller makes with an earlier getWriteAheadLength.     *)

RCall(kind, n) ==
    /\ rpc = "idle"
    /\ rkind' = kind
    /\ rcount' = n
    /\ samples' = Silence
    /\ rpc' = "check"
    /\ UNCHANGED <<buffer, window, prefillComplete, readPos, delivered, writerVars>>

(* onProcessOutput asks for what PipeWire requested or for what there is,  *)
(* whichever is less, and does not call when there is nothing.             *)
RAudio(requested) ==
    /\ rkind = "audio"
    /\ window > 0
    /\ RCall("audio", IF requested <= window THEN requested ELSE window)

(* onProcessOutput with nothing in the ring fills the block with zeros.    *)
RSilence ==
    /\ rkind = "audio"
    /\ rpc = "idle"
    /\ window <= 0
    /\ samples' = Silence
    /\ UNCHANGED <<buffer, window, prefillComplete, readPos, delivered, rpc, rkind,
                   rcount, writerVars>>

(* Mutant: a chunk is asked for when there is any sample.                  *)
RRawAny(chunk) ==
    /\ rkind # "audio"
    /\ window > 0
    /\ RCall("raw", chunk)

(* onInputBufferWrite, conversion running: while (length >= chunk).        *)
RRaw(chunk) ==
    /\ rkind # "audio"
    /\ window >= chunk
    /\ RCall("raw", chunk)

(* onInputBufferWrite, conversion not running: while (length > chunk).     *)
RDiscard(chunk) ==
    /\ rkind # "audio"
    /\ window > chunk
    /\ RCall("discard", chunk)

(* Only readAudioData waits for the pre-fill.                              *)
Ready ==
    /\ rcount <= window
    /\ rkind = "audio" => prefillComplete

(* Underflow: silence, and the read position stays; discardSamples instead *)
(* empties the ring, the writer's position included.                       *)
RUnderflow ==
    /\ rpc = "check"
    /\ ~Ready
    /\ rpc' = "idle"
    /\ IF rkind = "discard"
       THEN /\ readPos' = 0 /\ writePos' = 0 /\ window' = 0
            /\ prefillComplete' = FALSE
            /\ delivered' = accepted
       ELSE UNCHANGED <<readPos, writePos, window, prefillComplete, delivered>>
    /\ UNCHANGED <<buffer, accepted, wpc, wcount, rkind, rcount, samples>>

RAccept ==
    /\ rpc = "check"
    /\ Ready
    /\ rpc' = "copy"
    /\ UNCHANGED <<buffer, window, prefillComplete, readPos, delivered, rkind, rcount,
                   samples, writerVars>>

(* memcpy, in two parts over the end (discardSamples copies nothing);      *)
(* readPos, which readRawData may leave at the end of the array.           *)
RCopy ==
    /\ rpc = "copy"
    /\ samples' = [k \in Cells |->
                     IF rkind # "discard" /\ k < rcount THEN buffer[Slot(readPos + k)]
                                                        ELSE samples[k]]
    /\ readPos' = IF rkind = "raw" THEN Advance(readPos, rcount)
                                   ELSE AdvanceWrap(readPos, rcount)
    /\ rpc' = "take"
    /\ UNCHANGED <<buffer, window, prefillComplete, delivered, rkind, rcount, writerVars>>

(* writeAheadWindow -= count; readRawData does not look at the pre-fill.   *)
RTake ==
    /\ rpc = "take"
    /\ window' = window - rcount
    /\ delivered' = delivered + rcount
    /\ rpc' = IF rkind = "raw" THEN "idle" ELSE "test"
    /\ UNCHANGED <<buffer, prefillComplete, readPos, rkind, rcount, samples, writerVars>>

(* if (writeAheadWindow <= 0) prefillComplete = false                      *)
RTest ==
    /\ rpc = "test"
    /\ rpc' = IF window <= 0 THEN "clear" ELSE "idle"
    /\ UNCHANGED <<buffer, window, prefillComplete, readPos, delivered, rkind, rcount,
                   samples, writerVars>>

RClear ==
    /\ rpc = "clear"
    /\ prefillComplete' = FALSE
    /\ rpc' = "idle"
    /\ UNCHANGED <<buffer, window, readPos, delivered, rkind, rcount, samples, writerVars>>

Reader ==
    \/ \E n \in ReadSizes : RAudio(n) \/ RRaw(n) \/ RDiscard(n)
    \/ RSilence \/ RUnderflow \/ RAccept \/ RCopy \/ RTake \/ RTest \/ RClear

Next == Writer \/ Reader

Spec == Init /\ [][Next]_vars

-----------------------------------------------------------------------------
TypeOK ==
    /\ buffer \in [Cells -> Nat]
    /\ readPos \in 0..BufferSize
    /\ writePos \in Cells
    /\ window \in 0..BufferSize
    /\ prefillComplete \in BOOLEAN
    /\ accepted \in Nat
    /\ delivered \in Nat
    /\ wpc \in {"idle", "check", "copy", "publish", "test", "fill", "set"}
    /\ wcount \in Nat
    /\ rpc \in {"idle", "check", "copy", "take", "test", "clear"}
    /\ rkind \in {"audio", "raw", "discard"}
    /\ rcount \in 0..BufferSize
    /\ samples \in [Cells -> Nat]

(* While both threads are inside a memcpy they touch different cells, with *)
(* no lock and with either copy running over the end of the array.         *)
NoOverlap ==
    (wpc = "copy" /\ rpc = "copy") =>
        \A j \in 0..(wcount - 1), k \in 0..(rcount - 1) :
            Slot(writePos + j) # Slot(readPos + k)

(* The block a read hands out is the oldest samples of the ring, in order  *)
(* and without a gap: each sample the ring took is played or sent once.    *)
InOrder ==
    (rpc = "take" /\ rkind # "discard") =>
        \A k \in 0..(rcount - 1) : samples[k] = delivered + k + 1

(* The length the caller read before its call is still there when the call *)
(* looks: the `underflow' branches, of which discardSamples' would move    *)
(* the writer's position under a running write, are never taken for lack   *)
(* of samples.                                                             *)
NoUnderrun ==
    rpc \in {"check", "copy", "take"} => rcount <= window

(* Playback starts, and starts again after the ring ran dry, only with the *)
(* pre-fill in the ring, although the writer tests the window and sets the *)
(* flag in separate steps.                                                 *)
StartsPrefilled ==
    [][(rkind = "audio" /\ prefillComplete' /\ ~prefillComplete) => window >= Prefill]_vars

(* "If buffer runs out (or is exhausted intentionally), run a new pre-fill *)
(* for this output" (u_ringbuffer.cpp:158): the flag is cleared only while *)
(* the ring is empty.                                                      *)
ClearedWhenExhausted ==
    [][(rkind = "audio" /\ prefillComplete /\ ~prefillComplete') => window <= 0]_vars

-----------------------------------------------------------------------------
(* The ring implements the queue of SampleFifo: a block enters when        *)
(* writeAheadWindow grows and leaves when it shrinks.                      *)
ReadBase == IF rpc = "take" THEN Offset(readPos, rcount) ELSE readPos

Unread == [i \in 1..window |-> buffer[Slot(ReadBase + i - 1)]]

Fifo == INSTANCE SampleFifo WITH Capacity <- BufferSize, queue <- Unread

(* Every behaviour of the two threads is one of the abstract queue: blocks *)
(* enter whole or not at all, and nothing read, lost or overwritten in     *)
(* between shows in what is waiting.                                       *)
ImplementsFifo == Fifo!FifoSpec

=============================================================================
