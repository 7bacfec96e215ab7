----------------------------- MODULE InputGate ------------------------------
(***************************************************************************)
(* The input gate of onProcessInput (u_audioprovider.cpp): below the       *)
(* threshold the microphone is cut, but only after a tail, so that the     *)
(* gate does not chop speech.  A callback brings one buffer of samples;    *)
(* whether its level is above the threshold is all that matters here.      *)
(***************************************************************************)
EXTENDS Naturals

CONSTANTS Most, Sizes,      \* how many samples a callback brings: at most Most
          Longest, Tails    \* what SetInputGateTail may give gateClosingTail

ASSUME GateAssumption ==
    /\ Most \in Nat /\ Sizes \subseteq 1..Most
    /\ Longest \in Nat /\ Tails \subseteq 0..Longest

VARIABLES gate,              \* gateRMS # 0: the gate is in use
          gateClosingTail,
          tailCounter,
          isGating,
          quiet,             \* history: samples below the threshold since the
                             \* last one above it, or since the gate was changed
          open               \* history: those of them that went through

gateVars == <<gate, gateClosingTail, tailCounter, isGating, quiet, open>>

GateInit ==
    /\ gate = FALSE
    /\ gateClosingTail \in Tails
    /\ tailCounter = 0
    /\ isGating = FALSE
    /\ quiet = 0 /\ open = 0

(* SetInputGate and SetInputGateTail, from the main thread.                *)
SetInputGate ==
    /\ gate' = ~gate
    /\ quiet' = 0 /\ open' = 0
    /\ UNCHANGED <<gateClosingTail, tailCounter, isGating>>

SetInputGateTail(tail) ==
    /\ gateClosingTail' = tail
    /\ UNCHANGED <<gate, tailCounter, isGating, quiet, open>>

(* A buffer above the threshold is written to the ring.                    *)
Loud ==
    /\ gate
    /\ isGating' = FALSE
    /\ tailCounter' = IF isGating THEN 0 ELSE tailCounter
    /\ quiet' = 0 /\ open' = 0
    /\ UNCHANGED <<gate, gateClosingTail>>

(* Mutant: the tail counts buffers.                                        *)
TailOfBuffers(n) ==
    /\ gate
    /\ tailCounter <= gateClosingTail
    /\ tailCounter' = tailCounter + 1
    /\ quiet' = quiet + n
    /\ open' = open + n
    /\ UNCHANGED <<gate, gateClosingTail, isGating>>

(* A buffer below it is written while the tail lasts.                      *)
InTail(n) ==
    /\ gate
    /\ tailCounter <= gateClosingTail
    /\ tailCounter' = tailCounter + n
    /\ quiet' = quiet + n
    /\ open' = open + n
    /\ UNCHANGED <<gate, gateClosingTail, isGating>>

(* Afterwards it is cut.  A long silence is like one that is not so long.  *)
Cut(n) ==
    /\ gate
    /\ tailCounter > gateClosingTail
    /\ isGating' = TRUE
    /\ quiet' = IF quiet > Longest THEN quiet ELSE quiet + n
    /\ UNCHANGED <<gate, gateClosingTail, tailCounter, open>>

GateNext ==
    \/ SetInputGate
    \/ \E tail \in Tails : SetInputGateTail(tail)
    \/ Loud
    \/ \E n \in Sizes : InTail(n) \/ Cut(n)

GateSpec == GateInit /\ [][GateNext]_gateVars

-----------------------------------------------------------------------------
GateTypeOK ==
    /\ gate \in BOOLEAN /\ isGating \in BOOLEAN
    /\ gateClosingTail \in Tails
    /\ tailCounter \in Nat /\ quiet \in Nat /\ open \in Nat

(* The gate does close: of a silence no more than the longest tail, and    *)
(* the buffer in which it ends, is sent to the server, and the counter     *)
(* (an int) is bounded by as much however long the program runs.           *)
GateCloses == open <= tailCounter /\ tailCounter <= Longest + Most

(* "check whether it has been there long enough to actually cut input"     *)
(* (u_audioprovider.cpp:976), "once the input level falls below the gate   *)
(* thershold, we will leave input open anyway" (:316): input is cut only   *)
(* when this silence has lasted the tail.                                  *)
TailIsKept ==
    [][ ~isGating /\ isGating' => quiet >= gateClosingTail ]_gateVars

=============================================================================
