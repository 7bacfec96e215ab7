---------------------------- MODULE AudioProofs -----------------------------
(***************************************************************************)
(* What the audio thread of u_AudioProvider shares with the others: proofs *)
(* about RingBuffer for every buffer size, pre-fill, set of block sizes    *)
(* and length of behaviour, and about InputGate for every set of buffer    *)
(* sizes and of tails.                                                     *)
(***************************************************************************)
EXTENDS RingBuffer, InputGate, SequenceTheorems, TLAPS

-----------------------------------------------------------------------------
(* The inductive invariant.  Filled counts the samples that have reached   *)
(* the cells, published or not; Freed those the reader has copied out.     *)

Filled == accepted + (IF wpc = "publish" THEN wcount ELSE 0)
Freed == delivered + (IF rpc = "take" THEN rcount ELSE 0)

(* Position w lies d cells after position r, going round the array.        *)
Apart(r, d, w) ==
    \/ r + d = w
    \/ r + d = w + BufferSize
    \/ r + d = w + BufferSize + BufferSize

(* What the two threads add to and subtract from the window adds up.       *)
WindowInv == window = accepted - delivered

(* The room the writer saw can only have grown since.                      *)
RoomInv == wpc \in {"copy", "publish"} => window + wcount <= BufferSize

(* The positions are as far apart as the samples between them.             *)
PositionInv == Apart(readPos, Filled - Freed, writePos)

(* From the read position on, the cells hold the samples not read yet.     *)
ContentInv ==
    \A k \in 0..(BufferSize - 1) :
        k < Filled - Freed => buffer[Slot(readPos + k)] = Freed + k + 1

(* On the ring that readAudioData reads, the flag falls only at the end of *)
(* a read and rises only while nothing is being read.                      *)
FlagInv ==
    rkind = "audio" =>
        /\ rpc \in {"copy", "take", "test", "clear"} => prefillComplete
        /\ wpc \in {"fill", "set"} => ~prefillComplete
        /\ wpc = "set" => window >= Prefill

CountInv == WindowInv /\ RoomInv /\ NoUnderrun /\ FlagInv
CellInv == PositionInv /\ ContentInv /\ InOrder

IInv == TypeOK /\ CountInv /\ CellInv

-----------------------------------------------------------------------------
(* Facts about the constants and the operators.                            *)

LEMMA BufferSizeType == BufferSize \in Nat \ {0}
  BY SizeAssumption

LEMMA CellsType == 0 \in Cells /\ \A c : c \in Cells <=> c \in 0..(BufferSize - 1)
  BY BufferSizeType DEF Cells

LEMMA SilenceType == Silence \in [Cells -> Nat]
  BY DEF Silence

(* A position that wraps stays on a cell; one that does not wrap stays     *)
(* within the array.                                                       *)
LEMMA AdvanceType ==
  ASSUME NEW p \in 0..BufferSize, NEW n \in 0..BufferSize
  PROVE  /\ Advance(p, n) \in 0..BufferSize
         /\ AdvanceWrap(p, n) \in 0..BufferSize
         /\ p \in Cells => AdvanceWrap(p, n) \in Cells
  BY BufferSizeType DEF Advance, AdvanceWrap, Cells

(* Advancing moves a position by n cells round the array.                  *)
LEMMA AdvanceDistance ==
  ASSUME NEW p \in 0..BufferSize, NEW n \in 0..BufferSize
  PROVE  /\ Advance(p, n) \in {p + n, p + n - BufferSize}
         /\ AdvanceWrap(p, n) \in {p + n, p + n - BufferSize}
  BY BufferSizeType DEF Advance, AdvanceWrap

(* Every offset of a block within two rounds falls on a cell.              *)
LEMMA SlotType ==
  ASSUME NEW i \in 0..(BufferSize + BufferSize - 1)
  PROVE  Slot(i) \in Cells
  BY BufferSizeType DEF Slot, Cells

LEMMA OffsetType ==
  ASSUME NEW c \in 0..(BufferSize - 1), NEW p \in 0..(BufferSize - 1)
  PROVE  Offset(c, p) \in Nat
  BY BufferSizeType DEF Offset

(* A position d cells ahead is d + n ahead after moving n, as long as it   *)
(* does not lap the other.                                                 *)
LEMMA ApartWrite ==
  ASSUME NEW r \in 0..BufferSize, NEW w \in 0..(BufferSize - 1),
         NEW d \in Nat, NEW n \in Nat, d + n <= BufferSize, Apart(r, d, w),
         NEW ww \in 0..(BufferSize - 1), ww \in {w + n, w + n - BufferSize}
  PROVE  Apart(r, d + n, ww)
  BY BufferSizeType DEF Apart

(* The position behind catches up n of the d cells.                        *)
LEMMA ApartRead ==
  ASSUME NEW r \in 0..BufferSize, NEW w \in 0..(BufferSize - 1),
         NEW d \in 0..BufferSize, NEW n \in 0..d, Apart(r, d, w),
         NEW rr \in 0..BufferSize, rr \in {r + n, r + n - BufferSize}
  PROVE  Apart(rr, d - n, w)
  BY BufferSizeType DEF Apart

(* Of the cells from r on, the first d lie outside the block of n cells at *)
(* w, and the next n are that block in order, if d + n fits in the array.  *)
LEMMA BlockCells ==
  ASSUME NEW r \in 0..BufferSize, NEW w \in 0..(BufferSize - 1),
         NEW d \in Nat, NEW n \in Nat, d + n <= BufferSize, Apart(r, d, w),
         NEW k \in 0..(BufferSize - 1)
  PROVE  /\ k < d => Offset(Slot(r + k), w) >= n
         /\ k >= d /\ k < d + n => Offset(Slot(r + k), w) = k - d
  BY BufferSizeType DEF Apart, Offset, Slot

(* Cell k from an advanced position is cell n + k from the old one.        *)
LEMMA SlotAdvance ==
  ASSUME NEW r \in 0..BufferSize, NEW n \in Nat, NEW k \in Nat, n + k < BufferSize,
         NEW rr \in 0..BufferSize, rr \in {r + n, r + n - BufferSize}
  PROVE  Slot(rr + k) = Slot(r + (n + k))
  BY BufferSizeType DEF Slot

(* The numbers the position arguments need, from the invariant.            *)
LEMMA CountFacts ==
  ASSUME TypeOK, CountInv
  PROVE  /\ Filled \in Nat /\ Freed \in Nat /\ accepted \in Nat /\ delivered \in Nat
         /\ Filled - Freed \in 0..BufferSize
         /\ readPos \in 0..BufferSize /\ writePos \in 0..(BufferSize - 1)
         /\ wcount \in Nat /\ rcount \in 0..BufferSize
  BY BufferSizeType
     DEF TypeOK, CountInv, WindowInv, RoomInv, NoUnderrun, Filled, Freed, Cells

-----------------------------------------------------------------------------
(* The invariant holds initially and every step preserves it.              *)

LEMMA InitIInv == Init => IInv
<1> SUFFICES ASSUME Init PROVE IInv
  OBVIOUS
<1>1. TypeOK
  <2>1. buffer \in [Cells -> Nat] /\ samples \in [Cells -> Nat]
    BY SilenceType DEF Init
  <2>2. writePos \in Cells
    BY CellsType DEF Init
  <2>3. 0 \in 0..BufferSize
    BY BufferSizeType
  <2> QED
    BY <2>1, <2>2, <2>3 DEF Init, TypeOK
<1>2. CountInv
  BY DEF Init, CountInv, WindowInv, RoomInv, NoUnderrun, FlagInv
<1>3. CellInv
  BY DEF Init, CellInv, PositionInv, Apart, ContentInv, InOrder, Filled, Freed
<1> QED
  BY <1>1, <1>2, <1>3 DEF IInv

(* A step that leaves the cells, the positions and the counts of copied    *)
(* samples alone keeps what is in the cells.                               *)
LEMMA SameCells ==
  ASSUME CellInv, UNCHANGED <<buffer, readPos, writePos, delivered>>,
         Filled' = Filled, Freed' = Freed,
         rpc' = "take" => UNCHANGED <<rpc, rkind, rcount, samples>>
  PROVE  CellInv'
  BY DEF CellInv, PositionInv, Apart, ContentInv, InOrder, Slot

(* A new block to write: nothing moves.                                    *)
LEMMA StartIInv ==
  ASSUME IInv, NEW n \in WriteSizes, WStart(n)
  PROVE  IInv'
<1> USE DEF IInv, WStart, readerVars
<1>1. TypeOK' /\ CountInv'
  BY SizeAssumption DEF TypeOK, CountInv, WindowInv, RoomInv, NoUnderrun, FlagInv
<1>2. CellInv'
  BY SameCells DEF Filled, Freed
<1> QED
  BY <1>1, <1>2

(* The overflow test gives RoomInv its room.                               *)
LEMMA RoomIInv ==
  ASSUME IInv, WDrop \/ WAccept
  PROVE  IInv'
<1> USE DEF IInv, WDrop, WAccept, readerVars
<1>1. TypeOK' /\ CountInv'
  BY DEF TypeOK, CountInv, WindowInv, RoomInv, NoUnderrun, FlagInv
<1>2. CellInv'
  BY SameCells DEF Filled, Freed
<1> QED
  BY <1>1, <1>2

(* The writer's memcpy: a cell it overwrites holds no unread sample        *)
(* (RoomInv and PositionInv), and the cells it fills follow on those that  *)
(* do.                                                                     *)
LEMMA WCopyIInv ==
  ASSUME IInv, WCopy
  PROVE  IInv'
<1>1. TypeOK /\ CountInv /\ CellInv
  BY DEF IInv
<1>2. /\ wcount \in 0..BufferSize
      /\ Filled - Freed + wcount <= BufferSize
      /\ Filled - Freed \in Nat
      /\ Filled = accepted
  BY <1>1, BufferSizeType
     DEF WCopy, TypeOK, CountInv, WindowInv, RoomInv, NoUnderrun, Filled, Freed
<1>3. Filled' = Filled + wcount /\ Freed' = Freed /\ readPos' = readPos
  BY <1>1, CountFacts DEF WCopy, readerVars, Filled, Freed
<1>4. /\ writePos' \in Cells
      /\ writePos' \in {writePos + wcount, writePos + wcount - BufferSize}
  <2>1. writePos \in Cells /\ writePos \in 0..BufferSize
    BY <1>1, CellsType, BufferSizeType DEF TypeOK
  <2> QED
    BY <2>1, <1>2, AdvanceType, AdvanceDistance DEF WCopy
<1>5. TypeOK'
  <2>1. \A c \in Cells : Offset(c, writePos) \in Nat
    BY <1>1, OffsetType, CellsType DEF TypeOK
  <2>2. buffer' \in [Cells -> Nat]
    BY <2>1, <1>1 DEF WCopy, TypeOK
  <2> QED
    BY <2>2, <1>1, <1>4 DEF WCopy, readerVars, TypeOK
<1>6. CountInv'
  BY <1>1 DEF WCopy, readerVars, CountInv, WindowInv, RoomInv, NoUnderrun, FlagInv
<1>7. PositionInv'
  <2>1. Apart(readPos, (Filled - Freed) + wcount, writePos')
    BY <1>1, <1>2, <1>4, CountFacts, CellsType, ApartWrite DEF CellInv, PositionInv
  <2>2. Filled' - Freed' = (Filled - Freed) + wcount
    BY <1>1, <1>3, CountFacts
  <2> QED
    BY <2>1, <2>2, <1>3 DEF PositionInv, Apart
<1>8. ContentInv'
  <2> SUFFICES ASSUME NEW k \in 0..(BufferSize - 1), k < (Filled - Freed) + wcount
               PROVE  buffer'[Slot(readPos + k)] = Freed + k + 1
    BY <1>1, <1>3, CountFacts DEF ContentInv, Slot
  <2> DEFINE c == Slot(readPos + k)
  <2>1. c \in Cells
    BY <1>1, CountFacts, SlotType, BufferSizeType
  <2>2. Offset(c, writePos) \in Nat
    BY <2>1, <1>1, CountFacts, CellsType, OffsetType
  <2>3. /\ k < Filled - Freed => Offset(c, writePos) >= wcount
        /\ k >= Filled - Freed => Offset(c, writePos) = k - (Filled - Freed)
    BY <1>1, <1>2, CountFacts, BlockCells DEF CellInv, PositionInv
  <2> HIDE DEF c
  <2>4. buffer'[c] = IF Offset(c, writePos) < wcount
                     THEN accepted + Offset(c, writePos) + 1 ELSE buffer[c]
    BY <2>1 DEF WCopy
  <2>5. CASE k < Filled - Freed
    <3>1. buffer'[c] = buffer[c]
      BY <2>2, <2>3, <2>4, <2>5, <1>2
    <3> QED
      BY <3>1, <2>5, <1>1 DEF c, CellInv, ContentInv
  <2>6. CASE ~(k < Filled - Freed)
    <3>1. Offset(c, writePos) = k - (Filled - Freed)
      BY <2>3, <2>6, <1>2
    <3>2. buffer'[c] = Filled + (k - (Filled - Freed)) + 1
      BY <3>1, <2>4, <2>6, <1>2
    <3>3. Filled + (k - (Filled - Freed)) = Freed + k
      BY <1>1, CountFacts
    <3> QED
      BY <3>2, <3>3 DEF c
  <2> QED
    BY <2>5, <2>6
<1>9. InOrder'
  BY <1>1 DEF WCopy, readerVars, CellInv, InOrder
<1> QED
  BY <1>5, <1>6, <1>7, <1>8, <1>9 DEF IInv, CellInv

(* Publishing turns the samples in the cells into window.                  *)
LEMMA PublishIInv ==
  ASSUME IInv, WPublish
  PROVE  IInv'
<1> USE DEF IInv, WPublish, readerVars
<1>1. TypeOK' /\ CountInv'
  BY DEF TypeOK, CountInv, WindowInv, RoomInv, NoUnderrun, FlagInv
<1>2. CellInv'
  BY SameCells DEF Filled, Freed
<1> QED
  BY <1>1, <1>2

(* The writer's look at the pre-fill: while it sees no flag nothing is     *)
(* being read, so the window it tests does not shrink before it sets it.   *)
LEMMA FillIInv ==
  ASSUME IInv, WTest \/ WFill \/ WSet
  PROVE  IInv'
<1> USE DEF IInv, WTest, WFill, WSet, readerVars
<1>1. TypeOK'
  BY DEF TypeOK
<1>2. CountInv'
  BY DEF CountInv, WindowInv, RoomInv, NoUnderrun, FlagInv
<1>3. CellInv'
  BY SameCells DEF Filled, Freed
<1> QED
  BY <1>1, <1>2, <1>3

(* A reading call: its caller has just seen at least its block.            *)
LEMMA CallIInv ==
  ASSUME IInv, NEW n \in ReadSizes, RAudio(n) \/ RRaw(n) \/ RDiscard(n)
  PROVE  IInv'
<1> USE DEF IInv, RAudio, RRaw, RDiscard, RCall, writerVars
<1>1. /\ samples' \in [Cells -> Nat]
      /\ rkind' \in {"audio", "raw", "discard"}
      /\ rcount' \in 0..BufferSize /\ rcount' <= window
  BY SizeAssumption, SilenceType DEF TypeOK
<1>2. TypeOK'
  BY <1>1 DEF TypeOK
<1>3. CountInv'
  BY <1>1 DEF CountInv, WindowInv, RoomInv, NoUnderrun, FlagInv
<1>4. CellInv'
  BY SameCells DEF Filled, Freed
<1> QED
  BY <1>2, <1>3, <1>4

(* The reader's steps that move no sample.                                 *)
LEMMA QuietIInv ==
  ASSUME IInv, RSilence \/ RAccept \/ RTest \/ RClear
  PROVE  IInv'
<1> USE DEF IInv, RSilence, RAccept, RTest, RClear, writerVars
<1>1. TypeOK'
  BY SilenceType DEF TypeOK
<1>2. CountInv'
  BY DEF Ready, TypeOK, CountInv, WindowInv, RoomInv, NoUnderrun, FlagInv
<1>3. CellInv'
  BY SameCells DEF Filled, Freed
<1> QED
  BY <1>1, <1>2, <1>3

(* Only a missing pre-fill makes a call underflow, so discardSamples never *)
(* resets the ring.                                                        *)
LEMMA UnderflowIInv ==
  ASSUME IInv, RUnderflow
  PROVE  IInv'
<1> USE DEF IInv, RUnderflow
<1>1. rkind # "discard"
  BY DEF Ready, CountInv, NoUnderrun
<1>2. TypeOK' /\ CountInv'
  BY <1>1 DEF TypeOK, CountInv, WindowInv, RoomInv, NoUnderrun, FlagInv
<1>3. CellInv'
  BY <1>1, SameCells DEF Filled, Freed
<1> QED
  BY <1>2, <1>3

(* The reader's memcpy hands out the front of ContentInv.                  *)
LEMMA RCopyIInv ==
  ASSUME IInv, RCopy
  PROVE  IInv'
<1>1. TypeOK /\ CountInv /\ CellInv
  BY DEF IInv
<1>2. rcount \in 0..(Filled - Freed) /\ Freed = delivered
  BY <1>1, BufferSizeType
     DEF RCopy, TypeOK, CountInv, WindowInv, RoomInv, NoUnderrun, Filled, Freed
<1>3. Filled' = Filled /\ Freed' = Freed + rcount /\ writePos' = writePos
  BY <1>1, CountFacts DEF RCopy, writerVars, Filled, Freed
<1>4. /\ readPos' \in 0..BufferSize
      /\ readPos' \in {readPos + rcount, readPos + rcount - BufferSize}
  BY <1>1, CountFacts, AdvanceType, AdvanceDistance DEF RCopy
<1>5. TypeOK'
  <2>1. \A k \in Cells : Slot(readPos + k) \in Cells
    BY <1>1, CountFacts, SlotType, CellsType, BufferSizeType
  <2>2. samples' \in [Cells -> Nat]
    BY <2>1, <1>1 DEF RCopy, TypeOK
  <2> QED
    BY <2>2, <1>1, <1>4 DEF RCopy, writerVars, TypeOK
<1>6. CountInv'
  BY <1>1 DEF RCopy, writerVars, CountInv, WindowInv, RoomInv, NoUnderrun, FlagInv
<1>7. PositionInv'
  <2>1. Apart(readPos', (Filled - Freed) - rcount, writePos)
    BY <1>1, <1>2, <1>4, CountFacts, ApartRead DEF CellInv, PositionInv
  <2>2. Filled' - Freed' = (Filled - Freed) - rcount
    BY <1>1, <1>3, CountFacts
  <2> QED
    BY <2>1, <2>2, <1>3 DEF PositionInv, Apart
<1>8. ContentInv'
  <2> SUFFICES ASSUME NEW k \in 0..(BufferSize - 1), k < (Filled - Freed) - rcount
               PROVE  buffer[Slot(readPos' + k)] = Freed + rcount + k + 1
    BY <1>1, <1>3, CountFacts DEF RCopy, ContentInv, Slot
  <2>1. rcount + k \in 0..(BufferSize - 1) /\ rcount + k < Filled - Freed
    BY <1>1, <1>2, CountFacts, BufferSizeType
  <2>2. buffer[Slot(readPos + (rcount + k))] = Freed + (rcount + k) + 1
    BY <2>1, <1>1 DEF CellInv, ContentInv
  <2>3. Slot(readPos' + k) = Slot(readPos + (rcount + k))
    <3>1. rcount \in Nat /\ k \in Nat /\ rcount + k < BufferSize /\ readPos \in 0..BufferSize
      BY <1>1, <2>1, CountFacts, BufferSizeType
    <3> QED
      BY <3>1, <1>4, SlotAdvance
  <2> QED
    BY <2>2, <2>3, <1>1, CountFacts
<1>9. InOrder'
  <2> SUFFICES ASSUME rkind # "discard", NEW k \in 0..(rcount - 1)
               PROVE  samples'[k] = delivered + k + 1
    BY DEF RCopy, InOrder
  <2>1. k \in 0..(BufferSize - 1) /\ k < rcount /\ k < Filled - Freed
    BY <1>1, <1>2, CountFacts, BufferSizeType
  <2>2. samples'[k] = buffer[Slot(readPos + k)]
    BY <2>1, CellsType DEF RCopy
  <2> QED
    BY <2>1, <2>2, <1>1, <1>2 DEF CellInv, ContentInv
<1> QED
  BY <1>5, <1>6, <1>7, <1>8, <1>9 DEF IInv, CellInv

(* Taking the block out of the window frees the cells it was read from.    *)
LEMMA TakeIInv ==
  ASSUME IInv, RTake
  PROVE  IInv'
<1> USE DEF IInv, RTake, writerVars
<1>1. TypeOK' /\ CountInv'
  <2>1. window' \in 0..BufferSize /\ delivered' \in Nat
    BY BufferSizeType DEF TypeOK, CountInv, NoUnderrun
  <2>2. TypeOK'
    BY <2>1 DEF TypeOK
  <2>3. WindowInv' /\ RoomInv'
    <3>1. window \in Nat /\ rcount \in Nat /\ wcount \in Nat /\ window = accepted - delivered
      BY BufferSizeType DEF TypeOK, CountInv, WindowInv
    <3>2. accepted \in Nat /\ delivered \in Nat
      BY DEF TypeOK
    <3> QED
      BY <3>1, <3>2, BufferSizeType DEF CountInv, WindowInv, RoomInv
  <2>4. NoUnderrun' /\ FlagInv'
    BY DEF CountInv, NoUnderrun, FlagInv
  <2> QED
    BY <2>2, <2>3, <2>4 DEF CountInv
<1>2. Filled' = Filled /\ Freed' = Freed
  BY DEF Filled, Freed
<1>3. CellInv'
  BY <1>2 DEF CellInv, PositionInv, Apart, ContentInv, InOrder, Slot
<1> QED
  BY <1>1, <1>3

LEMMA StepIInv == IInv /\ [Next]_vars => IInv'
<1> SUFFICES ASSUME IInv, [Next]_vars PROVE IInv'
  OBVIOUS
<1>1. ASSUME NEW n \in WriteSizes, WStart(n) PROVE IInv'
  BY <1>1, StartIInv
<1>2. CASE WDrop \/ WAccept
  BY <1>2, RoomIInv
<1>3. CASE WCopy
  BY <1>3, WCopyIInv
<1>4. CASE WPublish
  BY <1>4, PublishIInv
<1>5. CASE WTest \/ WFill \/ WSet
  BY <1>5, FillIInv
<1>6. ASSUME NEW n \in ReadSizes, RAudio(n) \/ RRaw(n) \/ RDiscard(n) PROVE IInv'
  BY <1>6, CallIInv
<1>7. CASE RSilence \/ RAccept \/ RTest \/ RClear
  BY <1>7, QuietIInv
<1>8. CASE RUnderflow
  BY <1>8, UnderflowIInv
<1>9. CASE RCopy
  BY <1>9, RCopyIInv
<1>10. CASE RTake
  BY <1>10, TakeIInv
<1>11. CASE UNCHANGED vars
  <2> USE <1>11 DEF vars, writerVars, readerVars, IInv
  <2>1. TypeOK' /\ CountInv'
    BY DEF TypeOK, CountInv, WindowInv, RoomInv, NoUnderrun, FlagInv
  <2>2. CellInv'
    BY SameCells DEF Filled, Freed
  <2> QED
    BY <2>1, <2>2
<1> QED
  BY <1>1, <1>2, <1>3, <1>4, <1>5, <1>6, <1>7, <1>8, <1>9, <1>10, <1>11
     DEF Next, Writer, Reader

-----------------------------------------------------------------------------
(* The theorems.                                                           *)

(* The inductive invariant holds in every reachable state.                 *)
THEOREM Invariance == Spec => []IInv
  BY InitIInv, StepIInv, PTL DEF Spec

(* Positions, window and counts keep their ranges: readPos and writePos    *)
(* never index past the array.                                             *)
THEOREM TypeCorrect == Spec => []TypeOK
<1>1. IInv => TypeOK
  BY DEF IInv
<1> QED
  BY <1>1, Invariance, PTL

(* The memcpys of writeAudioData/writeRawData and of readAudioData/        *)
(* readRawData never touch the same cell at the same time.                 *)
THEOREM CopiesDisjoint == Spec => []NoOverlap
<1>1. IInv => NoOverlap
  <2> SUFFICES ASSUME IInv, wpc = "copy", rpc = "copy",
                      NEW j \in 0..(wcount - 1), NEW k \in 0..(rcount - 1)
               PROVE  Slot(writePos + j) # Slot(readPos + k)
    BY DEF NoOverlap
  <2>1. TypeOK /\ CountInv /\ Apart(readPos, Filled - Freed, writePos)
    BY DEF IInv, CellInv, PositionInv
  <2>2. rcount <= Filled - Freed /\ (Filled - Freed) + wcount <= BufferSize
    BY <2>1 DEF TypeOK, CountInv, WindowInv, RoomInv, NoUnderrun, Filled, Freed
  <2>3. k \in 0..(BufferSize - 1) /\ k < Filled - Freed
    BY <2>1, <2>2, CountFacts, BufferSizeType
  <2>4. Offset(Slot(readPos + k), writePos) >= wcount
    BY <2>1, <2>2, <2>3, CountFacts, BlockCells
  <2>5. Offset(Slot(writePos + j), writePos) = j
    BY <2>1, <2>2, CountFacts, BufferSizeType DEF Offset, Slot
  <2> QED
    BY <2>1, <2>4, <2>5, CountFacts
<1> QED
  BY <1>1, Invariance, PTL

(* Every block read is the oldest samples of the ring, in order.           *)
THEOREM ReadsInOrder == Spec => []InOrder
<1>1. IInv => InOrder
  BY DEF IInv, CellInv
<1> QED
  BY <1>1, Invariance, PTL

(* No reading call finds fewer samples than its caller saw.                *)
THEOREM CallersSeeEnough == Spec => []NoUnderrun
<1>1. IInv => NoUnderrun
  BY DEF IInv, CountInv
<1> QED
  BY <1>1, Invariance, PTL

(* The loudspeaker's ring, read only by readAudioData, starts playing only *)
(* with the pre-fill in the ring.                                          *)
THEOREM PlaybackPrefilled == Spec => StartsPrefilled
<1>1. IInv /\ [Next]_vars =>
        [(rkind = "audio" /\ prefillComplete' /\ ~prefillComplete) => window >= Prefill]_vars
  <2> SUFFICES ASSUME IInv, [Next]_vars, rkind = "audio", prefillComplete', ~prefillComplete
               PROVE  window >= Prefill
    OBVIOUS
  <2>1. CASE WSet
    BY <2>1 DEF WSet, IInv, CountInv, FlagInv
  <2>2. prefillComplete' # prefillComplete
    OBVIOUS
  <2>3. CASE ~WSet
    <3>1. ~RUnderflow
      BY DEF RUnderflow
    <3>2. ~UNCHANGED vars
      BY <2>2 DEF vars
    <3> QED
      BY <2>2, <2>3, <3>1, <3>2
         DEF Next, Writer, Reader, WStart, WDrop, WAccept, WCopy, WPublish, WTest, WFill,
             RAudio, RRaw, RDiscard, RCall, RSilence, RAccept, RCopy, RTake, RTest, RClear
  <2> QED
    BY <2>1, <2>3
<1> QED
  BY <1>1, Invariance, PTL DEF Spec, StartsPrefilled

-----------------------------------------------------------------------------
(* The ring implements the queue of SampleFifo.                            *)

(* A block that has been copied out stays in its cells until it is taken   *)
(* out of the window: what is waiting is still all there.                  *)
UnreadInv ==
    rpc = "take" =>
        \A k \in 0..(BufferSize - 1) :
            k < Filled - delivered => buffer[Slot(ReadBase + k)] = delivered + k + 1

(* Where the block being taken began: as far behind as it is long.         *)
LEMMA BaseFacts ==
  ASSUME IInv
  PROVE  /\ ReadBase \in 0..BufferSize
         /\ Apart(ReadBase, Filled - delivered, writePos)
         /\ Filled - delivered \in 0..BufferSize
         /\ window \in 0..(Filled - delivered)
         /\ wpc = "copy" => (Filled - delivered) + wcount <= BufferSize
<1>1. TypeOK /\ CountInv /\ PositionInv
  BY DEF IInv, CellInv
<1>2. CASE rpc = "take"
  <2>1. /\ readPos \in 0..BufferSize /\ rcount \in 0..BufferSize /\ window \in 0..BufferSize
        /\ wcount \in Nat /\ accepted \in Nat /\ delivered \in Nat /\ writePos \in 0..(BufferSize - 1)
    BY <1>1, CountFacts DEF TypeOK
  <2>2. Filled - delivered = (Filled - Freed) + rcount
    BY <1>1, <1>2, <2>1, CountFacts DEF Freed
  <2>3. ReadBase \in 0..BufferSize /\ ReadBase \in {readPos - rcount, readPos - rcount + BufferSize}
    BY <1>2, <2>1, BufferSizeType DEF ReadBase, Offset
  <2>4. /\ Filled - delivered \in 0..BufferSize /\ window \in 0..(Filled - delivered)
        /\ wpc = "copy" => (Filled - delivered) + wcount <= BufferSize
    BY <1>1, <2>1, BufferSizeType DEF CountInv, WindowInv, RoomInv, Filled
  <2>5. Apart(ReadBase, Filled - delivered, writePos)
    BY <1>1, <2>1, <2>2, <2>3, <2>4, CountFacts, BufferSizeType DEF PositionInv, Apart
  <2> QED
    BY <2>3, <2>4, <2>5
<1>3. CASE rpc # "take"
  <2>1. ReadBase = readPos /\ Freed = delivered
    BY <1>1, <1>3, CountFacts DEF ReadBase, Freed
  <2>2. window \in 0..(Filled - delivered)
    BY <1>1, BufferSizeType DEF TypeOK, CountInv, WindowInv, Filled
  <2>3. wpc = "copy" => (Filled - delivered) + wcount <= BufferSize
    BY <1>1, BufferSizeType DEF TypeOK, CountInv, WindowInv, RoomInv, Filled
  <2> QED
    BY <1>1, <2>1, <2>2, <2>3, CountFacts DEF PositionInv
<1> QED
  BY <1>2, <1>3

(* The block is copied: what is waiting is what ContentInv says it is.     *)
LEMMA CopiedUnread ==
  ASSUME IInv, RCopy
  PROVE  UnreadInv'
<1>1. TypeOK /\ CountInv /\ ContentInv
  BY DEF IInv, CellInv
<1>2. /\ readPos' \in 0..BufferSize
      /\ readPos' \in {readPos + rcount, readPos + rcount - BufferSize}
  BY <1>1, CountFacts, AdvanceType, AdvanceDistance DEF RCopy
<1>3. /\ ReadBase' \in {readPos, readPos + BufferSize, readPos - BufferSize}
      /\ ReadBase' \in 0..BufferSize
  BY <1>1, <1>2, CountFacts, BufferSizeType DEF RCopy, ReadBase, Offset
<1>4. Filled' = Filled /\ delivered' = delivered /\ Freed = delivered /\ buffer' = buffer
  BY <1>1, CountFacts DEF RCopy, writerVars, Filled, Freed
<1>5. ASSUME NEW k \in 0..(BufferSize - 1)
      PROVE  Slot(ReadBase' + k) = Slot(readPos + k)
  <2>1. ASSUME NEW p \in 0..BufferSize, NEW b \in 0..BufferSize,
               b \in {p, p + BufferSize, p - BufferSize}
        PROVE  Slot(b + k) = Slot(p + k)
    BY <2>1, BufferSizeType DEF Slot
  <2> QED
    BY <2>1, <1>1, <1>3, CountFacts
<1> SUFFICES ASSUME NEW k \in 0..(BufferSize - 1), k < Filled - delivered
             PROVE  buffer[Slot(ReadBase' + k)] = delivered + k + 1
  BY <1>4 DEF UnreadInv, Slot
<1> QED
  BY <1>1, <1>4, <1>5 DEF ContentInv

(* The writer's block goes beyond what is waiting.                         *)
LEMMA WCopyUnread ==
  ASSUME IInv, UnreadInv, WCopy
  PROVE  UnreadInv'
<1>1. TypeOK /\ CountInv
  BY DEF IInv
<1>2. /\ wcount \in Nat /\ Filled \in Nat /\ delivered \in Nat /\ Filled = accepted
      /\ writePos \in 0..(BufferSize - 1)
  BY <1>1, CountFacts DEF WCopy, Filled
<1>3. /\ Filled' = Filled + wcount /\ delivered' = delivered
      /\ ReadBase' = ReadBase /\ rpc' = rpc
  BY <1>1, CountFacts DEF WCopy, readerVars, Filled, ReadBase, Offset
<1> DEFINE d == Filled - delivered
<1>4. d \in 0..BufferSize /\ d + wcount <= BufferSize /\ Apart(ReadBase, d, writePos)
      /\ ReadBase \in 0..BufferSize /\ d \in Nat
  BY BaseFacts, BufferSizeType DEF WCopy
<1>5. (Filled + wcount) - delivered = d + wcount
  BY <1>2
<1> SUFFICES ASSUME rpc = "take", NEW k \in 0..(BufferSize - 1), k < d + wcount
             PROVE  buffer'[Slot(ReadBase + k)] = delivered + k + 1
  BY <1>3, <1>5 DEF UnreadInv, Slot
<1> DEFINE c == Slot(ReadBase + k)
<1>6. c \in Cells
  BY <1>4, SlotType, BufferSizeType
<1>7. Offset(c, writePos) \in Nat
  BY <1>2, <1>6, CellsType, OffsetType
<1>8. /\ k < d => Offset(c, writePos) >= wcount
      /\ k >= d => Offset(c, writePos) = k - d
  <2> HIDE DEF d, c
  <2>1. /\ k < d => Offset(Slot(ReadBase + k), writePos) >= wcount
        /\ k >= d /\ k < d + wcount => Offset(Slot(ReadBase + k), writePos) = k - d
    <3>1. /\ ReadBase \in 0..BufferSize /\ writePos \in 0..(BufferSize - 1)
          /\ d \in Nat /\ wcount \in Nat /\ d + wcount <= BufferSize
          /\ Apart(ReadBase, d, writePos)
      BY <1>2, <1>4
    <3> QED
      BY <3>1, BlockCells
  <2> QED
    BY <2>1 DEF c
<1>9. k < d => buffer[c] = delivered + k + 1
  BY DEF UnreadInv
<1>10. d = accepted - delivered
  BY <1>2
<1> HIDE DEF c, d
<1>11. buffer'[c] = IF Offset(c, writePos) < wcount
                    THEN accepted + Offset(c, writePos) + 1 ELSE buffer[c]
  BY <1>6 DEF WCopy
<1>12. CASE k < d
  BY <1>2, <1>7, <1>8, <1>9, <1>11, <1>12 DEF c
<1>13. CASE ~(k < d)
  <2>1. Offset(c, writePos) = k - d /\ k - d < wcount
    BY <1>2, <1>4, <1>8, <1>13
  <2>2. buffer'[c] = accepted + (k - d) + 1
    BY <2>1, <1>11
  <2> QED
    BY <2>2, <1>2, <1>4, <1>10 DEF c
<1> QED
  BY <1>12, <1>13

LEMMA UnreadStep ==
  ASSUME IInv, UnreadInv, [Next]_vars
  PROVE  UnreadInv'
<1>1. CASE WCopy
  BY <1>1, WCopyUnread
<1>2. CASE RCopy
  BY <1>2, CopiedUnread
<1>3. CASE rpc' # "take"
  BY <1>3 DEF UnreadInv
<1>4. ASSUME UNCHANGED <<buffer, delivered, readerVars>>, Filled' = Filled
      PROVE  UnreadInv'
  BY <1>4 DEF UnreadInv, ReadBase, Offset, Slot, readerVars
<1>5. CASE UNCHANGED vars
  BY <1>4, <1>5 DEF vars, readerVars, writerVars, Filled
<1>6. ASSUME NEW n \in WriteSizes, WStart(n) PROVE UnreadInv'
  BY <1>4, <1>6 DEF WStart, readerVars, Filled
<1>7. CASE WDrop \/ WAccept \/ WTest \/ WFill \/ WSet
  BY <1>4, <1>7 DEF WDrop, WAccept, WTest, WFill, WSet, readerVars, Filled
<1>8. CASE WPublish
  BY <1>4, <1>8 DEF WPublish, readerVars, Filled
<1>9. CASE Reader /\ ~RCopy
  BY <1>3, <1>9 DEF Reader, RAudio, RRaw, RDiscard, RCall, RSilence, RUnderflow, RAccept, RTake,
     RTest, RClear
<1> QED
  BY <1>1, <1>2, <1>5, <1>6, <1>7, <1>8, <1>9 DEF Next, Writer

(* What is waiting: the samples after those delivered, in order.           *)
Line(d, n) == [i \in 1..n |-> d + i]

LEMMA LineSeq ==
  ASSUME NEW d \in Nat, NEW n \in Nat
  PROVE  Line(d, n) \in Seq(Nat) /\ Len(Line(d, n)) = n
  BY DEF Line

(* A block joins the end of a line; the front of a line leaves it.         *)
LEMMA LineGrows ==
  ASSUME NEW d \in Nat, NEW n \in Nat, NEW m \in Nat
  PROVE  Line(d, n + m) = Line(d, n) \o Line(d + n, m)
<1> DEFINE s == Line(d, n)
           t == Line(d + n, m)
<1>1. s \in Seq(Nat) /\ Len(s) = n /\ t \in Seq(Nat) /\ Len(t) = m
  BY LineSeq, d + n \in Nat
<1> HIDE DEF s, t
<1>2. /\ s \o t \in Seq(Nat) /\ Len(s \o t) = n + m
      /\ \A i \in 1..(n + m) : (s \o t)[i] = IF i <= n THEN s[i] ELSE t[i - n]
  BY <1>1, ConcatProperties
<1>3. \A i \in 1..(n + m) : (s \o t)[i] = Line(d, n + m)[i]
  BY <1>2 DEF Line, s, t
<1>4. Line(d, n + m) \in Seq(Nat) /\ Len(Line(d, n + m)) = n + m
  BY LineSeq
<1>5. Line(d, n + m) = s \o t
  BY <1>2, <1>3, <1>4, SeqEqual
<1> QED
  BY <1>5 DEF Line, s, t

LEMMA LineShrinks ==
  ASSUME NEW d \in Nat, NEW n \in Nat, NEW m \in 0..n
  PROVE  Line(d + m, n - m) = SubSeq(Line(d, n), m + 1, Len(Line(d, n)))
<1> DEFINE s == Line(d, n)
           t == SubSeq(s, m + 1, n)
<1>1. s \in Seq(Nat) /\ Len(s) = n
  BY LineSeq
<1>2. \A i \in (m + 1)..n : s[i] \in Nat
  BY DEF Line
<1>3. /\ t \in Seq(Nat) /\ Len(t) = n - m
      /\ \A i \in 1..(n - m) : t[i] = s[m + i]
  BY <1>2, SubSeqProperties
<1>4. Line(d + m, n - m) \in Seq(Nat) /\ Len(Line(d + m, n - m)) = n - m
  <2>1. d + m \in Nat /\ n - m \in Nat
    OBVIOUS
  <2> QED
    BY <2>1, LineSeq
<1>5. \A i \in 1..(n - m) : t[i] = Line(d + m, n - m)[i]
  BY <1>3 DEF Line
<1> QED
  BY <1>1, <1>3, <1>4, <1>5, SeqEqual

(* In every state the queue the ring stands for is that line.              *)
LEMMA UnreadIsLine == IInv /\ UnreadInv => Unread = Line(delivered, window)
<1> SUFFICES ASSUME IInv, UnreadInv PROVE Unread = Line(delivered, window)
  OBVIOUS
<1>1. TypeOK /\ CountInv /\ ContentInv
  BY DEF IInv, CellInv
<1>2. ASSUME NEW i \in 1..window PROVE buffer[Slot(ReadBase + i - 1)] = delivered + i
  <2>1. /\ i - 1 \in 0..(BufferSize - 1) /\ i - 1 < Filled - delivered
        /\ ReadBase + (i - 1) = ReadBase + i - 1 /\ delivered + (i - 1) + 1 = delivered + i
    BY <1>1, BaseFacts, CountFacts, BufferSizeType
  <2>2. CASE rpc = "take"
    BY <2>1, <2>2 DEF UnreadInv
  <2>3. CASE rpc # "take"
    <3>1. ReadBase = readPos /\ Freed = delivered
      BY <1>1, <2>3, CountFacts DEF ReadBase, Freed
    <3> QED
      BY <1>1, <2>1, <3>1 DEF ContentInv
  <2> QED
    BY <2>2, <2>3
<1> QED
  BY <1>2 DEF Unread, Line

LEMMA FifoStep ==
  ASSUME IInv, UnreadInv, IInv', UnreadInv', [Next]_vars
  PROVE  [Fifo!FifoNext]_(Fifo!fifoVars)
<1>1. /\ accepted \in Nat /\ delivered \in Nat /\ window \in 0..BufferSize /\ wcount \in Nat
      /\ rcount \in Nat /\ window = accepted - delivered /\ window \in Nat
  BY BufferSizeType DEF IInv, TypeOK, CountInv, WindowInv
<1>2. Unread = Line(delivered, window) /\ Len(Unread) = window
  BY <1>1, UnreadIsLine, LineSeq, BufferSizeType
<1>3. Unread' = Line(delivered', window')
  <2>1. (IInv /\ UnreadInv => Unread = Line(delivered, window))'
    BY UnreadIsLine, PTL
  <2> QED
    BY <2>1 DEF Line
<1>4. CASE WPublish
  <2>1. /\ window' = window + wcount /\ accepted' = accepted + wcount /\ delivered' = delivered
        /\ window + wcount <= BufferSize
    BY <1>4 DEF WPublish, readerVars, IInv, CountInv, RoomInv
  <2>2. Unread' = Unread \o [i \in 1..wcount |-> accepted + i]
    <3>1. accepted = delivered + window
      BY <1>1
    <3>2. Line(delivered, window + wcount) = Line(delivered, window) \o Line(accepted, wcount)
      <4>1. Line(delivered, window + wcount)
                = Line(delivered, window) \o Line(delivered + window, wcount)
        BY <1>1, LineGrows
      <4> QED
        BY <3>1, <4>1
    <3>3. Line(accepted, wcount) = [i \in 1..wcount |-> accepted + i]
      BY DEF Line
    <3> QED
      BY <1>2, <1>3, <2>1, <3>2, <3>3
  <2>3. CASE wcount = 0
    <3>1. window' = window /\ accepted' = accepted
      BY <1>1, <2>1, <2>3, BufferSizeType
    <3> QED
      BY <1>2, <1>3, <2>1, <3>1 DEF Fifo!fifoVars
  <2>4. CASE wcount # 0
    <3>1. wcount \in 1..BufferSize /\ Len(Unread) + wcount <= BufferSize
      BY <1>1, <1>2, <2>1, <2>4, BufferSizeType
    <3>2. Fifo!Put(wcount)
      BY <2>1, <2>2, <3>1 DEF Fifo!Put
    <3> QED
      BY <3>1, <3>2 DEF Fifo!FifoNext
  <2> QED
    BY <2>3, <2>4
<1>5. CASE RTake
  <2>1. /\ window' = window - rcount /\ delivered' = delivered + rcount /\ accepted' = accepted
        /\ rcount <= window
    BY <1>5 DEF RTake, writerVars, IInv, CountInv, NoUnderrun
  <2>2. Unread' = SubSeq(Unread, rcount + 1, Len(Unread))
    <3>1. rcount \in 0..window /\ window \in Nat
      BY <1>1, <2>1, BufferSizeType
    <3> QED
      BY <1>1, <1>2, <1>3, <2>1, <3>1, LineShrinks
  <2>3. CASE rcount = 0
    <3>1. window' = window /\ delivered' = delivered
      BY <1>1, <2>1, <2>3, BufferSizeType
    <3> QED
      BY <1>2, <1>3, <2>1, <3>1 DEF Fifo!fifoVars
  <2>4. CASE rcount # 0
    <3>1. rcount \in 1..Len(Unread)
      BY <1>1, <1>2, <2>1, <2>4, BufferSizeType
    <3>2. Fifo!Get(rcount)
      BY <2>1, <2>2 DEF Fifo!Get
    <3> QED
      BY <3>1, <3>2 DEF Fifo!FifoNext
  <2> QED
    BY <2>3, <2>4
<1>6. ASSUME UNCHANGED <<window, accepted, delivered>>
      PROVE  UNCHANGED Fifo!fifoVars
  BY <1>2, <1>3, <1>6 DEF Fifo!fifoVars
<1>7. CASE RUnderflow
  <2>1. rkind # "discard"
    BY <1>7 DEF RUnderflow, Ready, IInv, CountInv, NoUnderrun
  <2> QED
    BY <1>6, <1>7, <2>1 DEF RUnderflow
<1>8. CASE UNCHANGED vars
  BY <1>6, <1>8 DEF vars, readerVars, writerVars
<1>9. CASE Writer /\ ~WPublish
  BY <1>6, <1>9 DEF Writer, WStart, WDrop, WAccept, WCopy, WTest, WFill, WSet, readerVars
<1>10. CASE Reader /\ ~RTake /\ ~RUnderflow
  BY <1>6, <1>10 DEF Reader, RAudio, RRaw, RDiscard, RCall, RSilence, RAccept, RCopy, RTest,
     RClear, writerVars
<1> QED
  BY <1>4, <1>5, <1>7, <1>8, <1>9, <1>10 DEF Next

(* Every behaviour of the two threads, step by step, is a behaviour of the *)
(* queue: a block is put in when the writer publishes it and got when the  *)
(* reader takes it out of the window; no other step shows.                 *)
THEOREM RingIsFifo == Spec => ImplementsFifo
<1>1. Init => UnreadInv /\ Fifo!FifoInit
  <2> SUFFICES ASSUME Init PROVE UnreadInv /\ Fifo!FifoInit
    OBVIOUS
  <2>1. UnreadInv
    BY DEF Init, UnreadInv
  <2>2. Unread = <<>>
    BY DEF Init, Unread
  <2> QED
    BY <2>1, <2>2 DEF Init, Fifo!FifoInit
<1>2. IInv /\ UnreadInv /\ [Next]_vars => UnreadInv'
  BY UnreadStep
<1>3. IInv /\ UnreadInv /\ IInv' /\ UnreadInv' /\ [Next]_vars => [Fifo!FifoNext]_(Fifo!fifoVars)
  BY FifoStep
<1> QED
  BY <1>1, <1>2, <1>3, Invariance, PTL DEF Spec, ImplementsFifo, Fifo!FifoSpec

-----------------------------------------------------------------------------
(* The input gate.                                                         *)

(* One buffer more is let through only while the counter has not passed    *)
(* the tail, and it counts at least as much as it lets through.            *)
GateInv == GateTypeOK /\ GateCloses

(* The invariant is inductive, one case per operation.                     *)
LEMMA GateStep == GateInv /\ [GateNext]_gateVars => GateInv'
<1> SUFFICES ASSUME GateInv, [GateNext]_gateVars PROVE GateInv'
    OBVIOUS
<1> USE GateAssumption DEF GateAssumption, GateInv, GateTypeOK, GateCloses
<1>1. CASE SetInputGate
    BY <1>1 DEF SetInputGate
<1>2. ASSUME NEW tail \in Tails, SetInputGateTail(tail) PROVE GateInv'
    BY <1>2 DEF SetInputGateTail
<1>3. CASE Loud
    <2>1. gate' = gate /\ isGating' = FALSE /\ quiet' = 0 /\ open' = 0
          /\ gateClosingTail' = gateClosingTail
        BY <1>3 DEF Loud
    <2>2. tailCounter' \in {0, tailCounter}
        BY <1>3 DEF Loud
    <2>3. gate' \in BOOLEAN /\ isGating' \in BOOLEAN
        BY <2>1
    <2> QED
        BY <2>1, <2>2, <2>3
<1>4. ASSUME NEW n \in Sizes, InTail(n) PROVE GateInv'
    <2>1. n \in Nat /\ n <= Most /\ gateClosingTail \in Nat /\ gateClosingTail <= Longest
        OBVIOUS
    <2>2. tailCounter' = tailCounter + n /\ open' = open + n /\ quiet' = quiet + n
        BY <1>4 DEF InTail
    <2>3. tailCounter <= gateClosingTail
        BY <1>4 DEF InTail
    <2> QED
        BY <1>4, <2>1, <2>2, <2>3 DEF InTail
<1>5. ASSUME NEW n \in Sizes, Cut(n) PROVE GateInv'
    <2>1. n \in Nat
        OBVIOUS
    <2> QED
        BY <1>5, <2>1 DEF Cut
<1>6. CASE UNCHANGED gateVars
    BY <1>6 DEF gateVars
<1> QED
    BY <1>1, <1>2, <1>3, <1>4, <1>5, <1>6 DEF GateNext

LEMMA GateInvariance == GateSpec => []GateInv
<1>1. GateInit => GateInv
    <2> SUFFICES ASSUME GateInit PROVE GateInv
        OBVIOUS
    <2>1. gate \in BOOLEAN /\ isGating \in BOOLEAN
        BY DEF GateInit
    <2>2. tailCounter = 0 /\ quiet = 0 /\ open = 0 /\ gateClosingTail \in Tails
        BY DEF GateInit
    <2> QED
        BY <2>1, <2>2, GateAssumption DEF GateAssumption, GateInv, GateTypeOK, GateCloses
<1> QED
    BY <1>1, GateStep, PTL DEF GateSpec

(* Every variable keeps its type: the tail is always one the slider gives. *)
THEOREM GateTypes == GateSpec => []GateTypeOK
<1>1. GateInv => GateTypeOK
    BY DEF GateInv
<1> QED
    BY <1>1, GateInvariance, PTL

(* However long the program runs and however the user moves the gate, of   *)
(* one silence at most the longest tail and the buffer it ends in is sent, *)
(* and tailCounter never passes that bound.                                *)
THEOREM GateBounded == GateSpec => []GateCloses
<1>1. GateInv => GateCloses
    BY DEF GateInv
<1> QED
    BY <1>1, GateInvariance, PTL

=============================================================================
