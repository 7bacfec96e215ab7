-------------------------- MODULE StreamingProofs ---------------------------
(***************************************************************************)
(* Conversions, for every size of the ring, of a callback and of a chunk,  *)
(* and in all circumstances: the types, OneButton and BufferExists, then   *)
(* what holds while the link does: Agreement, StopStops and                *)
(* ConversionHasStreams.                                                   *)
(***************************************************************************)
EXTENDS Streaming, TLAPS

LEMMA Sizes == Capacity \in Nat /\ Quantum \in Nat /\ Chunk \in Nat
    BY StreamingAssumption DEF StreamingAssumption

(* What becomes of the two queues.                                         *)
LEMMA Moved ==
    ASSUME NEW q \in Seq(Signals)
    PROVE  /\ q # <<>> => Tail(q) \in Seq(Signals)
           /\ \A s \in Signals : Append(q, s) \in Seq(Signals)
    OBVIOUS

LEMMA Sent ==
    ASSUME NEW q \in Seq({"SERVER_START", "SERVER_STOP"})
    PROVE  /\ q # <<>> => Tail(q) \in Seq({"SERVER_START", "SERVER_STOP"})
           /\ Append(q, "SERVER_START") \in Seq({"SERVER_START", "SERVER_STOP"})
           /\ Append(q, "SERVER_STOP") \in Seq({"SERVER_START", "SERVER_STOP"})
           /\ <<>> \in Seq({"SERVER_START", "SERVER_STOP"})
    OBVIOUS

LEMMA Names ==
    /\ "written" \in Signals /\ "success" \in Signals /\ "end" \in Signals
    /\ "unplugged" \in Signals /\ "SERVER_STARTED" \in Signals
    /\ "SERVER_STOPPED" \in Signals /\ "SERVER_EXITING" \in Signals
    /\ "SET_PARAMS" \in Signals /\ "AUDIO_OUT" \in Signals /\ "close" \in Signals
    BY DEF Signals

LEMMA PlacesStep == Places /\ [Next]_vars => Places'
<1> SUFFICES ASSUME Places, [Next]_vars PROVE Places'
    OBVIOUS
<1> USE DEF streams, nums, flags, buttons, link, Quiet, Places, StopAudio, KeepAudio, StartAudio, Created,
        Destroyed, Absent, StopIfRunning
<1>1. CASE InputStreaming \/ OutputStreaming \/ StreamError \/ Unplug \/ Capture
    BY <1>1 DEF InputStreaming, OutputStreaming, StreamError, Unplug, Capture
<1>2. CASE ClickStart
    BY <1>2 DEF ClickStart
<1>3. CASE ClickStop
    BY <1>3 DEF ClickStop
<1>4. CASE SwapInput
    BY <1>4 DEF SwapInput
<1>5. CASE OnWritten \/ OnSuccess \/ OnEnd
    BY <1>5 DEF OnWritten, OnSuccess, OnEnd
<1>6. CASE OnUnplugged
    BY <1>6 DEF OnUnplugged
<1>7. CASE OnServerStarted \/ OnServerStopped \/ OnParams
    BY <1>7 DEF OnServerStarted, OnServerStopped, OnParams
<1>8. CASE OnServerExiting \/ OnClose
    BY <1>8 DEF OnServerExiting, OnClose, Disconnect
<1>9. CASE OnAudioOut
    BY <1>9 DEF OnAudioOut
<1>10. CASE EmitSamples \/ DiscardSamples \/ Drained
    BY <1>10 DEF EmitSamples, DiscardSamples, Drained
<1>11. CASE ServerReceives
    BY <1>11 DEF ServerReceives
<1>12. CASE ServerReady \/ ServerConverts \/ ServerFails \/ ServerExits
    BY <1>12 DEF ServerReady, ServerConverts, ServerFails, ServerExits
<1>13. CASE Drop \/ Reopen \/ GiveUp
    BY <1>13 DEF Drop, Reopen, GiveUp
<1>14. CASE UNCHANGED vars
    BY <1>14 DEF vars
<1> QED
    BY <1>1, <1>2, <1>3, <1>4, <1>5, <1>6, <1>7, <1>8, <1>9, <1>10, <1>11, <1>12, <1>13, <1>14
       DEF Next, User, PipeWire, Main, Handler, Loop, Server, Network

LEMMA FlagsStep == Flags /\ [Next]_vars => Flags'
<1> SUFFICES ASSUME Flags, [Next]_vars PROVE Flags'
    OBVIOUS
<1> USE DEF streams, nums, flags, buttons, link, Quiet, Flags, Buttons, ClearFlags, StopAudio, KeepAudio, StartAudio,
        StopIfRunning
<1>1. CASE InputStreaming \/ OutputStreaming \/ StreamError \/ Unplug \/ Capture
    BY <1>1, Zenon DEF InputStreaming, OutputStreaming, StreamError, Unplug, Capture
<1>2. CASE ClickStart
    BY <1>2, Zenon DEF ClickStart
<1>3. CASE ClickStop
    BY <1>3, Zenon DEF ClickStop
<1>4. CASE SwapInput
    BY <1>4, Zenon DEF SwapInput
<1>5. CASE OnWritten \/ OnSuccess \/ OnEnd
    BY <1>5, Zenon DEF OnWritten, OnSuccess, OnEnd
<1>6. CASE OnUnplugged
    BY <1>6, Zenon DEF OnUnplugged
<1>7. CASE OnServerStarted \/ OnServerStopped \/ OnParams
    BY <1>7, Zenon DEF OnServerStarted, OnServerStopped, OnParams
<1>8. CASE OnServerExiting \/ OnClose
    BY <1>8, Zenon DEF OnServerExiting, OnClose, Disconnect
<1>9. CASE OnAudioOut
    BY <1>9, Zenon DEF OnAudioOut
<1>10. CASE EmitSamples \/ DiscardSamples \/ Drained
    BY <1>10, Zenon DEF EmitSamples, DiscardSamples, Drained
<1>11. CASE ServerReceives
    BY <1>11, Zenon DEF ServerReceives
<1>12. CASE ServerReady \/ ServerConverts \/ ServerFails \/ ServerExits
    BY <1>12, Zenon DEF ServerReady, ServerConverts, ServerFails, ServerExits
<1>13. CASE Drop \/ Reopen \/ GiveUp
    BY <1>13, Zenon DEF Drop, Reopen, GiveUp
<1>14. CASE UNCHANGED vars
    BY <1>14, Zenon DEF vars
<1> QED
    BY <1>1, <1>2, <1>3, <1>4, <1>5, <1>6, <1>7, <1>8, <1>9, <1>10, <1>11, <1>12, <1>13, <1>14
       DEF Next, User, PipeWire, Main, Handler, Loop, Server, Network

LEMMA LengthsStep == Lengths /\ [Next]_vars => Lengths'
<1> SUFFICES ASSUME Lengths, [Next]_vars PROVE Lengths'
    OBVIOUS
<1> USE Sizes
    DEF streams, nums, flags, buttons, link, Quiet, Lengths, ClearNums, StopAudio, KeepAudio,
        StartAudio, StopIfRunning
<1>1. CASE InputStreaming \/ OutputStreaming \/ StreamError \/ Unplug \/ Capture
    <2>1. numIn' = numIn /\ numOut' = numOut
        BY <1>1 DEF InputStreaming, OutputStreaming, StreamError, Unplug, Capture
    <2>2. \/ window' = window
          \/ window' = IF window + Quantum <= Capacity THEN window + Quantum ELSE window
        BY <1>1, Zenon DEF InputStreaming, OutputStreaming, StreamError, Unplug, Capture
    <2> QED
        BY <2>1, <2>2
<1>2. CASE ClickStart
    BY <1>2 DEF ClickStart
<1>3. CASE ClickStop
    <2>1. window' \in {window, 0} /\ numIn' \in {numIn, 0} /\ numOut' \in {numOut, 0}
        BY <1>3, Zenon DEF ClickStop
    <2> QED
        BY <2>1
<1>4. CASE SwapInput
    BY <1>4 DEF SwapInput
<1>5. CASE OnWritten \/ OnSuccess \/ OnEnd
    BY <1>5 DEF OnWritten, OnSuccess, OnEnd
<1>6. CASE OnUnplugged
    BY <1>6 DEF OnUnplugged
<1>7. CASE OnServerStarted \/ OnServerStopped \/ OnParams
    <2>1. window' \in {window, 0} /\ numIn' \in {numIn, 0} /\ numOut' \in {numOut, 0}
        BY <1>7, Zenon DEF OnServerStarted, OnServerStopped, OnParams
    <2> QED
        BY <2>1
<1>8. CASE OnServerExiting \/ OnClose
    <2>1. window' \in {window, 0} /\ numIn' \in {numIn, 0} /\ numOut' \in {numOut, 0}
        BY <1>8, Zenon DEF OnServerExiting, OnClose, Disconnect
    <2> QED
        BY <2>1
<1>9. CASE OnAudioOut
    BY <1>9 DEF OnAudioOut
<1>10. CASE EmitSamples \/ DiscardSamples \/ Drained
    BY <1>10 DEF EmitSamples, DiscardSamples, Drained
<1>11. CASE ServerReceives
    BY <1>11 DEF ServerReceives
<1>12. CASE ServerReady \/ ServerConverts \/ ServerFails \/ ServerExits
    BY <1>12 DEF ServerReady, ServerConverts, ServerFails, ServerExits
<1>13. CASE Drop \/ Reopen \/ GiveUp
    BY <1>13 DEF Drop, Reopen, GiveUp
<1>14. CASE UNCHANGED vars
    BY <1>14 DEF vars
<1> QED
    BY <1>1, <1>2, <1>3, <1>4, <1>5, <1>6, <1>7, <1>8, <1>9, <1>10, <1>11, <1>12, <1>13, <1>14
       DEF Next, User, PipeWire, Main, Handler, Loop, Server, Network

LEMMA QueuesStep == Queues /\ [Next]_vars => Queues'
<1> SUFFICES ASSUME Queues, [Next]_vars PROVE Queues'
    OBVIOUS
<1> USE Moved, Sent, Names
    DEF streams, nums, flags, buttons, link, Quiet, Queues, Handle, Send, Tell, StopAudio, KeepAudio, StartAudio,
        StopIfRunning
<1>1. CASE InputStreaming \/ OutputStreaming \/ StreamError \/ Unplug \/ Capture
    BY <1>1, Zenon DEF InputStreaming, OutputStreaming, StreamError, Unplug, Capture
<1>2. CASE ClickStart
    BY <1>2, Zenon DEF ClickStart
<1>3. CASE ClickStop
    BY <1>3, Zenon DEF ClickStop
<1>4. CASE SwapInput
    BY <1>4, Zenon DEF SwapInput
<1>5. CASE OnWritten \/ OnSuccess \/ OnEnd
    BY <1>5, Zenon DEF OnWritten, OnSuccess, OnEnd
<1>6. CASE OnUnplugged
    BY <1>6, Zenon DEF OnUnplugged
<1>7. CASE OnServerStarted \/ OnServerStopped \/ OnParams
    BY <1>7, Zenon DEF OnServerStarted, OnServerStopped, OnParams
<1>8. CASE OnServerExiting \/ OnClose
    BY <1>8, Zenon DEF OnServerExiting, OnClose, Disconnect
<1>9. CASE OnAudioOut
    BY <1>9, Zenon DEF OnAudioOut
<1>10. CASE EmitSamples \/ DiscardSamples \/ Drained
    BY <1>10, Zenon DEF EmitSamples, DiscardSamples, Drained
<1>11. CASE ServerReceives
    BY <1>11, Zenon DEF ServerReceives
<1>12. CASE ServerReady \/ ServerConverts \/ ServerFails \/ ServerExits
    BY <1>12, Zenon DEF ServerReady, ServerConverts, ServerFails, ServerExits
<1>13. CASE Drop \/ Reopen \/ GiveUp
    BY <1>13, Zenon DEF Drop, Reopen, GiveUp
<1>14. CASE UNCHANGED vars
    BY <1>14, Zenon DEF vars
<1> QED
    BY <1>1, <1>2, <1>3, <1>4, <1>5, <1>6, <1>7, <1>8, <1>9, <1>10, <1>11, <1>12, <1>13, <1>14
       DEF Next, User, PipeWire, Main, Handler, Loop, Server, Network

-----------------------------------------------------------------------------
(* The main thread is in a drain loop only while the input stream exists:  *)
(* no handler runs meanwhile, and PipeWire ends no stream.                 *)
LEMMA BufferStep == Places /\ BufferExists /\ [Next]_vars => BufferExists'
<1> SUFFICES ASSUME BufferExists, [Next]_vars PROVE BufferExists'
    OBVIOUS
<1> USE DEF streams, nums, flags, buttons, link, Quiet, BufferExists, Absent
<1>1. CASE mpc' = "idle"
    BY <1>1
<1>2. CASE mpc' = mpc /\ inS' = inS
    BY <1>2
<1>3. CASE InputStreaming
    BY <1>3 DEF InputStreaming
<1>4. CASE OnWritten
    BY <1>4 DEF OnWritten, inStreamConnected
<1>5. CASE ClickStart \/ ClickStop \/ SwapInput
    BY <1>1, <1>5 DEF ClickStart, ClickStop, SwapInput
<1>6. CASE OnSuccess \/ OnEnd \/ OnUnplugged \/ OnServerStarted \/ OnServerStopped
           \/ OnServerExiting \/ OnParams \/ OnAudioOut \/ OnClose
    BY <1>1, <1>6 DEF Handle, OnSuccess, OnEnd, OnUnplugged, OnServerStarted, OnServerStopped,
       OnServerExiting, OnParams, OnAudioOut, OnClose
<1>7. CASE OutputStreaming \/ StreamError \/ Unplug \/ Capture
    BY <1>1, <1>2, <1>7 DEF OutputStreaming, StreamError, Unplug, Capture
<1>8. CASE EmitSamples \/ DiscardSamples \/ Drained
    BY <1>1, <1>2, <1>8 DEF EmitSamples, DiscardSamples, Drained
<1>9. CASE ServerReceives \/ ServerReady \/ ServerConverts \/ ServerFails \/ ServerExits
    BY <1>2, <1>9 DEF ServerReceives, ServerReady, ServerConverts, ServerFails, ServerExits
<1>10. CASE Drop \/ Reopen \/ GiveUp
    BY <1>2, <1>10 DEF Drop, Reopen, GiveUp
<1>11. CASE UNCHANGED vars
    BY <1>2, <1>11 DEF vars
<1> QED
    BY <1>3, <1>4, <1>5, <1>6, <1>7, <1>8, <1>9, <1>10, <1>11
       DEF Next, User, PipeWire, Main, Handler, Loop, Server, Network

(* Whoever enables a button disables the other in the same handler.        *)
LEMMA ButtonStep == OneButton /\ [Next]_vars => OneButton'
<1> SUFFICES ASSUME OneButton, [Next]_vars PROVE OneButton'
    OBVIOUS
<1> USE DEF streams, nums, flags, buttons, link, OneButton, Buttons
<1>1. CASE ClickStart \/ ClickStop \/ SwapInput
    BY <1>1, Zenon DEF ClickStart, ClickStop, SwapInput
<1>2. CASE OnWritten \/ OnSuccess \/ OnEnd \/ OnUnplugged \/ OnAudioOut
    BY <1>2, Zenon DEF OnWritten, OnSuccess, OnEnd, OnUnplugged, OnAudioOut
<1>3. CASE OnServerStarted \/ OnServerStopped \/ OnParams
    BY <1>3, Zenon DEF OnServerStarted, OnServerStopped, OnParams
<1>4. CASE OnServerExiting \/ OnClose
    BY <1>4, Zenon DEF OnServerExiting, OnClose, Disconnect
<1>5. CASE PipeWire
    BY <1>5, Zenon DEF PipeWire, InputStreaming, OutputStreaming, StreamError, Unplug, Capture
<1>6. CASE Loop
    BY <1>6, Zenon DEF Loop, EmitSamples, DiscardSamples, Drained
<1>7. CASE Server
    BY <1>7, Zenon DEF Server, ServerReceives, ServerReady, ServerConverts, ServerFails, ServerExits
<1>8. CASE Network
    BY <1>8, Zenon DEF Network, Drop, Reopen, GiveUp
<1>9. CASE UNCHANGED vars
    BY <1>9, Zenon DEF vars
<1> QED
    BY <1>1, <1>2, <1>3, <1>4, <1>5, <1>6, <1>7, <1>8, <1>9 DEF Next, User, Main, Handler

-----------------------------------------------------------------------------
IInv == TypeOK /\ BufferExists /\ OneButton

LEMMA InitIInv == Init => IInv
<1> SUFFICES ASSUME Init PROVE IInv
    OBVIOUS
<1>1. Places /\ BufferExists
    BY DEF Init, Places, BufferExists
<1>2. Flags /\ OneButton
    BY DEF Init, Flags, OneButton
<1>3. Lengths
    BY Sizes DEF Init, Lengths
<1>4. Queues
    BY DEF Init, Queues
<1> QED
    BY <1>1, <1>2, <1>3, <1>4 DEF IInv, TypeOK

LEMMA NextIInv == IInv /\ [Next]_vars => IInv'
    BY PlacesStep, FlagsStep, LengthsStep, QueuesStep, BufferStep, ButtonStep DEF IInv, TypeOK

LEMMA Invariant == Spec => []IInv
    BY InitIInv, NextIInv, PTL DEF Spec

(* Every variable keeps its type: the ring never holds more than it can,   *)
(* and a chunk's length is the slider's or none.                           *)
THEOREM TypesKept == Spec => []TypeOK
<1>1. IInv => TypeOK
    BY DEF IInv
<1> QED
    BY <1>1, Invariant, PTL

(* The main thread asks for the ring of a stream that is there.            *)
THEOREM RingIsThere == Spec => []BufferExists
<1>1. IInv => BufferExists
    BY DEF IInv
<1> QED
    BY <1>1, Invariant, PTL

(* Start and Stop are never offered together.                              *)
THEOREM NeverBoth == Spec => []OneButton
<1>1. IInv => OneButton
    BY DEF IInv
<1> QED
    BY <1>1, Invariant, PTL

-----------------------------------------------------------------------------
(* The queues: what holds of the last two answers of the server in one.    *)
Ends(q, s, other) ==
    \E k \in 1..Len(q) : q[k] = s /\ \A j \in 1..Len(q) : j > k => q[j] # other

Once(q, s) == \E i \in 1..Len(q) : q[i] = s /\ \A j \in 1..Len(q) : q[j] = s => j = i

LEMMA Indices ==
    ASSUME NEW S, NEW q \in Seq(S)
    PROVE  /\ \A m \in S : /\ Append(q, m) \in Seq(S) /\ Append(q, m) # <<>>
                           /\ Len(Append(q, m)) = Len(q) + 1
                           /\ \A i \in 1..Len(q) : Append(q, m)[i] = q[i]
                           /\ Append(q, m)[Len(q) + 1] = m
           /\ q # <<>> => /\ Tail(q) \in Seq(S) /\ Len(q) \in Nat /\ Len(q) >= 1
                          /\ Len(Tail(q)) = Len(q) - 1
                          /\ \A i \in 1..Len(Tail(q)) : Tail(q)[i] = q[i + 1]
                          /\ Head(q) = q[1]
    OBVIOUS

LEMMA HasAppended ==
    ASSUME NEW S, NEW q \in Seq(S), NEW m \in S, NEW s
    PROVE  Contains(Append(q, m), s) <=> (Contains(q, s) \/ m = s)
<1>1. /\ Len(q) \in Nat /\ Len(Append(q, m)) = Len(q) + 1
      /\ \A i \in 1..Len(q) : Append(q, m)[i] = q[i]
      /\ Append(q, m)[Len(q) + 1] = m
    BY Indices
<1> QED
    BY <1>1 DEF Contains

LEMMA HasTaken ==
    ASSUME NEW S, NEW q \in Seq(S), q # <<>>, NEW s
    PROVE  /\ Contains(q, Head(q))
           /\ Contains(q, s) <=> (Contains(Tail(q), s) \/ Head(q) = s)
<1>1. /\ Len(q) \in Nat /\ Len(q) >= 1 /\ Len(Tail(q)) = Len(q) - 1
      /\ \A i \in 1..Len(Tail(q)) : Tail(q)[i] = q[i + 1]
      /\ Head(q) = q[1]
    BY Indices
<1>2. Contains(q, Head(q))
    BY <1>1 DEF Contains
<1>3. ASSUME Contains(q, s), Head(q) # s PROVE Contains(Tail(q), s)
    <2>1. PICK i \in 1..Len(q) : q[i] = s
        BY <1>3 DEF Contains
    <2>2. i - 1 \in 1..Len(Tail(q)) /\ Tail(q)[i - 1] = q[i]
        BY <1>1, <1>3, <2>1
    <2> QED
        BY <2>1, <2>2 DEF Contains
<1>4. ASSUME Contains(Tail(q), s) PROVE Contains(q, s)
    <2>1. PICK i \in 1..Len(Tail(q)) : Tail(q)[i] = s
        BY <1>4 DEF Contains
    <2>2. i + 1 \in 1..Len(q) /\ q[i + 1] = s
        BY <1>1, <2>1
    <2> QED
        BY <2>2 DEF Contains
<1> QED
    BY <1>2, <1>3, <1>4

LEMMA EndsAppended ==
    ASSUME NEW S, NEW q \in Seq(S), NEW m \in S, NEW s, NEW other
    PROVE  /\ m = s /\ s # other => Ends(Append(q, m), s, other)
           /\ m # other /\ Ends(q, s, other) => Ends(Append(q, m), s, other)
<1>1. /\ Len(q) \in Nat /\ Len(Append(q, m)) = Len(q) + 1
      /\ \A i \in 1..Len(q) : Append(q, m)[i] = q[i]
      /\ Append(q, m)[Len(q) + 1] = m
    BY Indices
<1>2. ASSUME m = s, s # other PROVE Ends(Append(q, m), s, other)
    <2>1. Len(q) + 1 \in 1..Len(Append(q, m))
        BY <1>1
    <2>2. \A j \in 1..Len(Append(q, m)) : ~(j > Len(q) + 1)
        BY <1>1
    <2> QED
        BY <1>1, <1>2, <2>1, <2>2 DEF Ends
<1>3. ASSUME m # other, Ends(q, s, other) PROVE Ends(Append(q, m), s, other)
    <2>1. PICK k \in 1..Len(q) : q[k] = s /\ \A j \in 1..Len(q) : j > k => q[j] # other
        BY <1>3 DEF Ends
    <2>2. k \in 1..Len(Append(q, m)) /\ Append(q, m)[k] = s
        BY <1>1, <2>1
    <2>3. \A j \in 1..Len(Append(q, m)) : j > k => Append(q, m)[j] # other
        BY <1>1, <1>3, <2>1
    <2> QED
        BY <2>2, <2>3 DEF Ends
<1> QED
    BY <1>2, <1>3

LEMMA EndsTaken ==
    ASSUME NEW S, NEW q \in Seq(S), q # <<>>, NEW s, NEW other, Ends(q, s, other)
    PROVE  /\ Head(q) # s => Ends(Tail(q), s, other)
           /\ Ends(Tail(q), s, other) \/ ~Contains(Tail(q), other)
<1>1. /\ Len(q) \in Nat /\ Len(q) >= 1 /\ Len(Tail(q)) = Len(q) - 1
      /\ \A i \in 1..Len(Tail(q)) : Tail(q)[i] = q[i + 1]
      /\ Head(q) = q[1]
    BY Indices
<1>2. PICK k \in 1..Len(q) : q[k] = s /\ \A j \in 1..Len(q) : j > k => q[j] # other
    BY DEF Ends
<1>3. CASE k = 1
    <2>1. ASSUME Contains(Tail(q), other) PROVE FALSE
        <3>1. PICK i \in 1..Len(Tail(q)) : Tail(q)[i] = other
            BY <2>1 DEF Contains
        <3>2. i + 1 \in 1..Len(q) /\ i + 1 > k /\ q[i + 1] = other
            BY <1>1, <1>3, <3>1
        <3> QED
            BY <1>2, <3>2
    <2> QED
        BY <1>1, <1>2, <1>3, <2>1
<1>4. CASE k # 1
    <2>1. k - 1 \in 1..Len(Tail(q)) /\ Tail(q)[k - 1] = s
        BY <1>1, <1>2, <1>4
    <2>2. \A j \in 1..Len(Tail(q)) : j > k - 1 => Tail(q)[j] # other
        BY <1>1, <1>2, <1>4
    <2> QED
        BY <2>1, <2>2 DEF Ends
<1> QED
    BY <1>3, <1>4

LEMMA EndsHas ==
    ASSUME NEW q, NEW s, NEW other
    PROVE  Ends(q, s, other) => Contains(q, s)
    BY DEF Ends, Contains

LEMMA OnceHas ==
    ASSUME NEW S, NEW q \in Seq(S), NEW m \in S, NEW s
    PROVE  /\ Once(q, s) => Contains(q, s)
           /\ m # s /\ Once(q, s) => Once(Append(q, m), s)
           /\ m = s /\ ~Contains(q, s) => Once(Append(q, m), s)
<1>1. /\ Len(q) \in Nat /\ Len(Append(q, m)) = Len(q) + 1
      /\ \A i \in 1..Len(q) : Append(q, m)[i] = q[i]
      /\ Append(q, m)[Len(q) + 1] = m
    BY Indices
<1>2. Once(q, s) => Contains(q, s)
    BY DEF Once, Contains
<1>3. ASSUME m # s, Once(q, s) PROVE Once(Append(q, m), s)
    <2>1. PICK i \in 1..Len(q) : q[i] = s /\ \A j \in 1..Len(q) : q[j] = s => j = i
        BY <1>3 DEF Once
    <2>2. i \in 1..Len(Append(q, m)) /\ Append(q, m)[i] = s
        BY <1>1, <2>1
    <2>3. \A j \in 1..Len(Append(q, m)) : Append(q, m)[j] = s => j = i
        BY <1>1, <1>3, <2>1
    <2> QED
        BY <2>2, <2>3 DEF Once
<1>4. ASSUME m = s, ~Contains(q, s) PROVE Once(Append(q, m), s)
    <2>1. Len(q) + 1 \in 1..Len(Append(q, m)) /\ Append(q, m)[Len(q) + 1] = s
        BY <1>1, <1>4
    <2>2. \A j \in 1..Len(Append(q, m)) : Append(q, m)[j] = s => j = Len(q) + 1
        BY <1>1, <1>4 DEF Contains
    <2> QED
        BY <2>1, <2>2 DEF Once
<1> QED
    BY <1>2, <1>3, <1>4

LEMMA OnceTaken ==
    ASSUME NEW S, NEW q \in Seq(S), q # <<>>, NEW s, Once(q, s)
    PROVE  /\ Head(q) # s => Once(Tail(q), s)
           /\ Head(q) = s => ~Contains(Tail(q), s)
<1>1. /\ Len(q) \in Nat /\ Len(q) >= 1 /\ Len(Tail(q)) = Len(q) - 1
      /\ \A i \in 1..Len(Tail(q)) : Tail(q)[i] = q[i + 1]
      /\ Head(q) = q[1]
    BY Indices
<1>2. PICK i \in 1..Len(q) : q[i] = s /\ \A j \in 1..Len(q) : q[j] = s => j = i
    BY DEF Once
<1>3. ASSUME Head(q) # s PROVE Once(Tail(q), s)
    <2>1. i - 1 \in 1..Len(Tail(q)) /\ Tail(q)[i - 1] = s
        BY <1>1, <1>2, <1>3
    <2>2. ASSUME NEW j \in 1..Len(Tail(q)), Tail(q)[j] = s PROVE j = i - 1
        <3>1. j + 1 \in 1..Len(q) /\ q[j + 1] = s
            BY <1>1, <2>2
        <3> QED
            BY <1>2, <3>1
    <2> QED
        BY <2>1, <2>2 DEF Once
<1>4. ASSUME Head(q) = s, Contains(Tail(q), s) PROVE FALSE
    <2>1. PICK j \in 1..Len(Tail(q)) : Tail(q)[j] = s
        BY <1>4 DEF Contains
    <2>2. j + 1 \in 1..Len(q) /\ q[j + 1] = s /\ 1 \in 1..Len(q) /\ q[1] = s
        BY <1>1, <1>4, <2>1
    <2>3. j + 1 = i /\ 1 = i
        BY <1>2, <2>2
    <2> QED
        BY <2>1, <2>3
<1> QED
    BY <1>3, <1>4


-----------------------------------------------------------------------------
(* While the link holds: what a step does to the queues, the server and    *)
(* what the client believes of it.                                         *)
Answers == {"SERVER_STARTED", "SERVER_STOPPED"}
Foreign == {"close", "SERVER_EXITING", "SET_PARAMS"}
Asides == {"written", "success", "end", "unplugged", "AUDIO_OUT"}

(* The queue q becomes r: a signal of H is taken off it or none, and one   *)
(* of M is put on it or none.                                              *)
Grown(q, r, M) == r = q \/ \E m \in M : r = Append(q, m)
Turned(q, r, M, H) ==
    \/ Grown(q, r, M)
    \/ q # <<>> /\ Head(q) \in H /\ Grown(Tail(q), r, M)

GoesOn ==
    /\ Turned(uiq, uiq', Asides, Asides)
    /\ server' = server /\ serverStarted' = serverStarted
    /\ toServer' = toServer \/ toServer' = Append(toServer, "SERVER_START")
    /\ \/ buttonStart' = buttonStart /\ buttonStop' = buttonStop
       \/ buttonStart' = FALSE /\ buttonStop' = TRUE

Stops ==
    /\ Turned(uiq, uiq', Asides, Asides)
    /\ server' = server /\ serverStarted' = FALSE
    /\ toServer' = Append(toServer, "SERVER_STOP")

HearsStarted ==
    /\ uiq # <<>> /\ Head(uiq) = "SERVER_STARTED" /\ uiq' = Tail(uiq)
    /\ server' = server /\ toServer' = toServer
    /\ serverStarted' = TRUE /\ buttonStart' = FALSE /\ buttonStop' = TRUE

HearsStopped ==
    /\ uiq # <<>> /\ Head(uiq) = "SERVER_STOPPED" /\ Grown(Tail(uiq), uiq', Asides)
    /\ server' = server /\ toServer' = toServer
    /\ serverStarted' = FALSE /\ buttonStart' = TRUE

Client == serverStarted' = serverStarted /\ buttonStart' = buttonStart /\ buttonStop' = buttonStop

ToldToStart ==
    /\ toServer # <<>> /\ Head(toServer) = "SERVER_START" /\ toServer' = Tail(toServer)
    /\ server' = (IF server = "stopped" THEN "starting" ELSE server)
    /\ uiq' = uiq
    /\ Client

ToldToStop ==
    /\ toServer # <<>> /\ Head(toServer) = "SERVER_STOP" /\ toServer' = Tail(toServer)
    /\ server' = "stopped" /\ uiq' = Append(uiq, "SERVER_STOPPED")
    /\ Client

Answered ==
    /\ toServer' = toServer
    /\ \/ /\ server = "starting" /\ server' = "running"
          /\ uiq' = Append(uiq, "SERVER_STARTED")
       \/ /\ "fail" \in cases /\ server # "stopped" /\ server' = "stopped"
          /\ uiq' = Append(uiq, "SERVER_STOPPED")
    /\ Client

Turn ==
    \/ GoesOn \/ Stops \/ HearsStarted \/ HearsStopped
    \/ ToldToStart \/ ToldToStop \/ Answered

LinkHolds ==
    /\ opened /\ server # "gone"
    /\ \A s \in Foreign : ~Contains(uiq, s)
LinkInv == Linked => LinkHolds

LEMMA Kinds ==
    /\ Asides \subseteq Signals /\ Answers \subseteq Signals
    /\ \A s \in Answers \union Foreign : s \notin Asides
    /\ \A s \in Foreign : s \notin Answers
    BY DEF Asides, Answers, Foreign, Signals

LEMMA TurnedHas ==
    ASSUME NEW q \in Seq(Signals), NEW r, NEW M, M \subseteq Signals, NEW H, NEW s, Turned(q, r, M, H)
    PROVE  /\ r \in Seq(Signals)
           /\ s \notin M /\ Contains(r, s) => Contains(q, s)
           /\ s \notin H /\ Contains(q, s) => Contains(r, s)
<1>1. ASSUME NEW p \in Seq(Signals), Grown(p, r, M)
      PROVE  /\ r \in Seq(Signals)
             /\ s \notin M /\ Contains(r, s) => Contains(p, s)
             /\ Contains(p, s) => Contains(r, s)
    <2>1. CASE r = p
        BY <2>1
    <2>2. ASSUME NEW m \in M, r = Append(p, m)
          PROVE  /\ r \in Seq(Signals)
                 /\ s \notin M /\ Contains(r, s) => Contains(p, s)
                 /\ Contains(p, s) => Contains(r, s)
        <3>1. m \in Signals
            OBVIOUS
        <3>2. Contains(r, s) <=> (Contains(p, s) \/ m = s)
            BY <2>2, <3>1, HasAppended
        <3>3. r \in Seq(Signals)
            BY <2>2, <3>1, Moved
        <3> QED
            BY <2>2, <3>2, <3>3
    <2> QED
        BY <1>1, <2>1, <2>2 DEF Grown
<1>2. CASE Grown(q, r, M)
    BY <1>1, <1>2
<1>3. CASE q # <<>> /\ Head(q) \in H /\ Grown(Tail(q), r, M)
    <2>1. Tail(q) \in Seq(Signals)
        BY <1>3, Moved
    <2>2. Contains(q, s) <=> (Contains(Tail(q), s) \/ Head(q) = s)
        BY <1>3, HasTaken
    <2> QED
        BY <1>1, <1>3, <2>1, <2>2
<1> QED
    BY <1>2, <1>3 DEF Turned

LEMMA Grows == \A q, M : Grown(q, q, M) /\ \A m \in M : Grown(q, Append(q, m), M)
    BY DEF Grown

(* What StopAudio and StartAudio do to the queue.                          *)
LEMMA AudioGrows ==
    /\ \A q : StopAudio(q) => Grown(q, uiq', Asides)
    /\ StartAudio => Grown(uiq, uiq', Asides)
    /\ \A q : KeepAudio(q) => Grown(q, uiq', Asides)
<1>1. "end" \in Asides
    BY DEF Asides
<1> QED
    BY <1>1, Grows, Zenon DEF StopAudio, StartAudio, KeepAudio

LEMMA TurnStep ==
    ASSUME Linked, LinkHolds, Queues, [Next]_vars
    PROVE  Turn /\ opened' = opened /\ cases' = cases
<1>0. /\ opened
      /\ \A s \in Asides : s \in Signals
      /\ "drop" \notin cases /\ "exit" \notin cases
      /\ server # "gone"
    BY Kinds DEF LinkHolds, Linked
<1>q. Grown(uiq, uiq, Asides) /\ Grown(Tail(uiq), Tail(uiq), Asides)
    BY Grows
<1>a. \A m \in Asides : Grown(uiq, Append(uiq, m), Asides)
    BY Grows
<1>n. /\ "written" \in Asides /\ "success" \in Asides /\ "end" \in Asides
      /\ "unplugged" \in Asides /\ "AUDIO_OUT" \in Asides
    BY DEF Asides
<1>f. uiq # <<>> => Head(uiq) \notin Foreign
    <2>1. uiq # <<>> => Contains(uiq, Head(uiq))
        BY HasTaken DEF Queues
    <2> QED
        BY <2>1 DEF LinkHolds
<1> USE DEF streams, nums, flags, buttons, link, Quiet
<1>1. CASE InputStreaming \/ OutputStreaming \/ StreamError \/ Unplug \/ Capture
    <2>1. Grown(uiq, uiq', Asides)
        BY <1>1, <1>q, <1>a, <1>n, Zenon DEF InputStreaming, OutputStreaming, StreamError, Unplug, Capture
    <2>2. /\ UNCHANGED <<server, serverStarted, toServer, buttonStart, buttonStop>>
          /\ opened' = opened /\ cases' = cases
        BY <1>1, Zenon DEF InputStreaming, OutputStreaming, StreamError, Unplug, Capture
    <2> QED
        BY <2>1, <2>2, Zenon DEF Turn, GoesOn, Turned
<1>2. CASE ClickStart
    <2>1. Grown(uiq, uiq', Asides)
        BY <1>2, AudioGrows, Zenon DEF ClickStart
    <2>2. /\ UNCHANGED <<server, serverStarted, toServer>> /\ buttonStart' = FALSE /\ buttonStop' = TRUE
          /\ opened' = opened /\ cases' = cases
        BY <1>2, Zenon DEF ClickStart, Buttons
    <2> QED
        BY <2>1, <2>2, Zenon DEF Turn, GoesOn, Turned
<1>3. CASE ClickStop
    <2>1. Grown(uiq, uiq', Asides)
        BY <1>3, AudioGrows, Zenon DEF ClickStop
    <2>2. /\ server' = server /\ serverStarted' = FALSE
          /\ toServer' = Append(toServer, "SERVER_STOP")
          /\ opened' = opened /\ cases' = cases
        BY <1>0, <1>3, Zenon DEF ClickStop, ClearFlags, Send
    <2> QED
        BY <2>1, <2>2, Zenon DEF Turn, Stops, Turned
<1>4. CASE SwapInput
    <2>1. Grown(uiq, uiq', Asides)
        BY <1>4, <1>q, <1>a, <1>n, Zenon DEF SwapInput
    <2>2. /\ UNCHANGED <<server, serverStarted, toServer, buttonStart, buttonStop>>
          /\ opened' = opened /\ cases' = cases
        BY <1>4, Zenon DEF SwapInput
    <2> QED
        BY <2>1, <2>2, Zenon DEF Turn, GoesOn, Turned
<1>5. CASE OnWritten \/ OnEnd
    <2>1. uiq # <<>> /\ Head(uiq) \in Asides /\ Grown(Tail(uiq), uiq', Asides)
        BY <1>5, <1>q, <1>n, Zenon DEF OnWritten, OnEnd, Handle
    <2>2. /\ UNCHANGED <<server, serverStarted, toServer, buttonStart, buttonStop>>
          /\ opened' = opened /\ cases' = cases
        BY <1>5, Zenon DEF OnWritten, OnEnd
    <2> QED
        BY <2>1, <2>2, Zenon DEF Turn, GoesOn, Turned
<1>6. CASE OnSuccess
    <2>1. uiq # <<>> /\ Head(uiq) \in Asides /\ Grown(Tail(uiq), uiq', Asides)
        BY <1>6, <1>q, <1>n, Zenon DEF OnSuccess, Handle
    <2>2. /\ UNCHANGED <<server, serverStarted, buttonStart, buttonStop>>
          /\ toServer' = toServer \/ toServer' = Append(toServer, "SERVER_START")
          /\ opened' = opened /\ cases' = cases
        BY <1>0, <1>6, Zenon DEF OnSuccess, Send
    <2> QED
        BY <2>1, <2>2, Zenon DEF Turn, GoesOn, Turned
<1>7. CASE OnUnplugged
    <2>1. uiq # <<>> /\ Head(uiq) \in Asides /\ Grown(Tail(uiq), uiq', Asides)
        BY <1>7, <1>n, AudioGrows, Zenon DEF OnUnplugged, Handle
    <2>2. /\ server' = server /\ serverStarted' = FALSE
          /\ toServer' = Append(toServer, "SERVER_STOP")
          /\ opened' = opened /\ cases' = cases
        BY <1>0, <1>7, Zenon DEF OnUnplugged, ClearFlags, Send
    <2> QED
        BY <2>1, <2>2, Zenon DEF Turn, Stops, Turned
<1>8. CASE OnServerStarted
    BY <1>8, Zenon DEF Turn, HearsStarted, OnServerStarted, Handle, Buttons
<1>9. CASE OnServerStopped
    <2>1. Grown(Tail(uiq), uiq', Asides)
        BY <1>9, AudioGrows, Zenon DEF OnServerStopped
    <2> QED
        BY <1>9, <2>1, Zenon DEF Turn, HearsStopped, OnServerStopped, Handle, Buttons, ClearFlags
<1>10. CASE OnServerExiting \/ OnParams \/ OnClose
    BY <1>f, <1>10 DEF OnServerExiting, OnParams, OnClose, Handle, Foreign
<1>11. CASE OnAudioOut
    <2>1. uiq # <<>> /\ Head(uiq) \in Asides /\ Grown(Tail(uiq), uiq', Asides)
        BY <1>11, <1>n, AudioGrows, Zenon DEF OnAudioOut, Handle
    <2>2. \/ serverStarted' = FALSE /\ toServer' = Append(toServer, "SERVER_STOP")
          \/ serverStarted' = serverStarted /\ toServer' = toServer
        BY <1>0, <1>11, Zenon DEF OnAudioOut, ClearFlags, Send
    <2>3. /\ UNCHANGED <<server, buttonStart, buttonStop>>
          /\ opened' = opened /\ cases' = cases
        BY <1>11, Zenon DEF OnAudioOut
    <2> QED
        BY <2>1, <2>2, <2>3, Zenon DEF Turn, GoesOn, Stops, Turned
<1>12. CASE EmitSamples \/ DiscardSamples \/ Drained
    <2>1. /\ UNCHANGED <<server, serverStarted, toServer, buttonStart, buttonStop, uiq>>
          /\ opened' = opened /\ cases' = cases
        BY <1>12, Zenon DEF EmitSamples, DiscardSamples, Drained
    <2> QED
        BY <1>q, <2>1, Zenon DEF Turn, GoesOn, Turned
<1>13. CASE ServerReceives
    <2>1. \/ ToldToStart
          \/ ToldToStop
        BY <1>0, <1>13, Zenon DEF ServerReceives, Tell, ToldToStart, ToldToStop, Client
    <2> QED
        BY <1>13, <2>1, Zenon DEF Turn, ServerReceives
<1>14. CASE ServerReady \/ ServerFails
    <2>1. Answered
        BY <1>0, <1>14 DEF ServerReady, ServerFails, Tell, Answered, Client
    <2> QED
        BY <1>14, <2>1, Zenon DEF Turn, ServerReady, ServerFails
<1>15. CASE ServerConverts
    <2>1. /\ Grown(uiq, uiq', Asides)
          /\ UNCHANGED <<server, serverStarted, toServer, buttonStart, buttonStop>>
          /\ opened' = opened /\ cases' = cases
        BY <1>0, <1>15, <1>a, <1>n, Zenon DEF ServerConverts, Tell
    <2> QED
        BY <2>1, Zenon DEF Turn, GoesOn, Turned
<1>16. CASE ServerExits \/ Drop \/ Reopen \/ GiveUp
    BY <1>0, <1>16 DEF ServerExits, Drop, Reopen, GiveUp
<1>17. CASE UNCHANGED vars
    <2>1. /\ UNCHANGED <<server, serverStarted, toServer, buttonStart, buttonStop, uiq>>
          /\ opened' = opened /\ cases' = cases
        BY <1>17, Zenon DEF vars
    <2> QED
        BY <1>q, <2>1, Zenon DEF Turn, GoesOn, Turned
<1> QED
    BY <1>1, <1>2, <1>3, <1>4, <1>5, <1>6, <1>7, <1>8, <1>9, <1>10, <1>11, <1>12, <1>13, <1>14,
       <1>15, <1>16, <1>17, Zenon
       DEF Next, User, PipeWire, Main, Handler, Loop, Server, Network

LEMMA LinkStep ==
    ASSUME Queues, LinkInv, [Next]_vars, Queues'
    PROVE  LinkInv' /\ cases' = cases
<1>0. cases' = cases
    BY DEF Next, User, PipeWire, Main, Handler, Loop, Server, Network, Quiet, streams, nums, flags, buttons,
       link, vars, InputStreaming, OutputStreaming, StreamError, Unplug, Capture, ClickStart, ClickStop,
       SwapInput, OnWritten, OnSuccess, OnEnd, OnUnplugged, OnServerStarted, OnServerStopped,
       OnServerExiting, OnParams, OnAudioOut, OnClose, EmitSamples, DiscardSamples, Drained,
       ServerReceives, ServerReady, ServerConverts, ServerFails, ServerExits, Drop, Reopen, GiveUp
<1>1. ASSUME Linked PROVE LinkHolds'
    <2>1. LinkHolds
        BY <1>1 DEF LinkInv
    <2>2. Turn /\ opened' = opened
        BY <1>1, <2>1, TurnStep
    <2>3. server' # "gone"
        BY <2>1, <2>2, Zenon DEF Turn, GoesOn, Stops, HearsStarted, HearsStopped, ToldToStart, ToldToStop,
           Answered, LinkHolds
    <2>4. Turned(uiq, uiq', Asides \union Answers, Asides \union Answers)
        BY <2>2 DEF Turn, GoesOn, Stops, HearsStarted, HearsStopped, ToldToStart, ToldToStop,
           Answered, Turned, Grown, Answers
    <2>5. \A s \in Foreign : ~Contains(uiq', s)
        BY <2>1, <2>4, Kinds, TurnedHas DEF LinkHolds, Queues
    <2> QED
        BY <2>1, <2>2, <2>3, <2>5 DEF LinkHolds
<1> QED
    BY <1>0, <1>1 DEF LinkInv, Linked


-----------------------------------------------------------------------------
(* What the client will believe once it has heard all it was told, as long *)
(* as it has not told the server to stop: what is true at the server.      *)
Bound(q, s, other, now) == Ends(q, s, other) \/ (now /\ ~Contains(q, other))
Believes(q, running, started) ==
    IF running
    THEN Bound(q, "SERVER_STARTED", "SERVER_STOPPED", started)
    ELSE Bound(q, "SERVER_STOPPED", "SERVER_STARTED", ~started)

StopSent == Contains(toServer, "SERVER_STOP")
Believed == ~StopSent => Believes(uiq, server = "running", serverStarted)

(* A button is offered, or an answer that offers one is due.               *)
Offered ==
    /\ buttonStart \/ buttonStop \/ StopSent \/ Contains(uiq, "SERVER_STOPPED")
    /\ serverStarted => buttonStop

LEMMA BoundGrown ==
    ASSUME NEW q \in Seq(Signals), NEW r, Grown(q, r, Asides),
           NEW s \in Answers, NEW other \in Answers, NEW now, Bound(q, s, other, now)
    PROVE  Bound(r, s, other, now)
<1>1. CASE r = q
    BY <1>1
<1>2. ASSUME NEW m \in Asides, r = Append(q, m) PROVE Bound(r, s, other, now)
    <2>1. m \in Signals /\ m # other
        BY Kinds
    <2>2. Contains(Append(q, m), other) <=> (Contains(q, other) \/ m = other)
        BY <2>1, HasAppended
    <2>3. Ends(q, s, other) => Ends(Append(q, m), s, other)
        BY <2>1, EndsAppended
    <2> QED
        BY <1>2, <2>1, <2>2, <2>3 DEF Bound
<1> QED
    BY <1>1, <1>2 DEF Grown

(* What is bound to be believed stays so when an answer is heard; once the *)
(* answer itself is heard, it is believed.                                 *)
LEMMA BoundTaken ==
    ASSUME NEW q \in Seq(Signals), q # <<>>, NEW s, NEW other, s # other, NEW now, Bound(q, s, other, now)
    PROVE  /\ Head(q) \notin {s, other} => Bound(Tail(q), s, other, now)
           /\ Head(q) = s => Bound(Tail(q), s, other, TRUE)
           /\ Head(q) = other => Bound(Tail(q), s, other, FALSE)
<1>1. Ends(q, s, other) => /\ Head(q) # s => Ends(Tail(q), s, other)
                           /\ Ends(Tail(q), s, other) \/ ~Contains(Tail(q), other)
    BY EndsTaken
<1>2. Contains(q, other) <=> (Contains(Tail(q), other) \/ Head(q) = other)
    BY HasTaken
<1> QED
    BY <1>1, <1>2 DEF Bound

LEMMA BelievesTurned ==
    ASSUME NEW q \in Seq(Signals), NEW r, Turned(q, r, Asides, Asides), NEW running, NEW started,
           Believes(q, running, started)
    PROVE  Believes(r, running, started)
<1>1. "SERVER_STARTED" \in Answers /\ "SERVER_STOPPED" \in Answers
    BY DEF Answers
<1>2. ASSUME NEW s \in Answers, NEW other \in Answers, s # other, NEW now, Bound(q, s, other, now)
      PROVE  Bound(r, s, other, now)
    <2>1. CASE Grown(q, r, Asides)
        BY <1>2, <2>1, BoundGrown
    <2>2. CASE q # <<>> /\ Head(q) \in Asides /\ Grown(Tail(q), r, Asides)
        <3>1. Head(q) \notin {s, other}
            BY <2>2, Kinds
        <3>2. Bound(Tail(q), s, other, now) /\ Tail(q) \in Seq(Signals)
            BY <1>2, <2>2, <3>1, BoundTaken, Moved
        <3> QED
            BY <1>2, <2>2, <3>2, BoundGrown
    <2> QED
        BY <2>1, <2>2 DEF Turned
<1> QED
    BY <1>1, <1>2 DEF Believes

LEMMA BelievedStep ==
    ASSUME Queues, Queues', Turn, Believed
    PROVE  Believed'
<1> USE DEF Queues
<1>1. "SERVER_START" \in {"SERVER_START", "SERVER_STOP"} /\ "SERVER_STOP" \in {"SERVER_START", "SERVER_STOP"}
    OBVIOUS
<1>2. CASE GoesOn
    <2>1. StopSent' <=> StopSent
        <3>1. Contains(Append(toServer, "SERVER_START"), "SERVER_STOP") <=> StopSent
            BY <1>1, HasAppended DEF StopSent
        <3> QED
            BY <1>2, <3>1 DEF GoesOn, StopSent
    <2>2. /\ Turned(uiq, uiq', Asides, Asides)
          /\ server' = server /\ serverStarted' = serverStarted
        BY <1>2 DEF GoesOn
    <2>3. Believes(uiq, server = "running", serverStarted) => Believes(uiq', server = "running", serverStarted)
        BY <2>2, BelievesTurned
    <2> QED
        BY <2>1, <2>2, <2>3 DEF Believed
<1>3. CASE Stops
    <2>1. StopSent'
        BY <1>1, <1>3, HasAppended DEF Stops, StopSent
    <2> QED
        BY <2>1 DEF Believed
<1>4. CASE HearsStarted
    <2>1. StopSent' <=> StopSent
        BY <1>4 DEF HearsStarted, StopSent
    <2>2. Believes(uiq, server = "running", serverStarted) => Believes(Tail(uiq), server = "running", TRUE)
        BY <1>4, BoundTaken DEF HearsStarted, Believes
    <2> QED
        BY <1>4, <2>1, <2>2 DEF Believed, HearsStarted
<1>5. CASE HearsStopped
    <2>1. StopSent' <=> StopSent
        BY <1>5 DEF HearsStopped, StopSent
    <2>2. Believes(uiq, server = "running", serverStarted) => Believes(Tail(uiq), server = "running", FALSE)
        BY <1>5, BoundTaken DEF HearsStopped, Believes
    <2>3. Tail(uiq) \in Seq(Signals)
        BY <1>5, Moved DEF HearsStopped
    <2>4. Turned(Tail(uiq), uiq', Asides, Asides)
        BY <1>5 DEF HearsStopped, Turned
    <2>5. Believes(Tail(uiq), server = "running", FALSE) => Believes(uiq', server = "running", FALSE)
        BY <2>3, <2>4, BelievesTurned
    <2> QED
        BY <1>5, <2>1, <2>2, <2>5 DEF Believed, HearsStopped
<1>6. CASE ToldToStart
    <2>1. StopSent' <=> StopSent
        BY <1>6, HasTaken DEF ToldToStart, StopSent
    <2>2. (server' = "running") <=> (server = "running")
        BY <1>6 DEF ToldToStart
    <2> QED
        BY <1>6, <2>1, <2>2 DEF Believed, Believes, ToldToStart, Client
<1>7. CASE ToldToStop
    <2>1. Ends(uiq', "SERVER_STOPPED", "SERVER_STARTED")
        BY <1>7, EndsAppended, Names DEF ToldToStop
    <2> QED
        BY <1>7, <2>1 DEF Believed, Believes, Bound, ToldToStop
<1>8. CASE Answered
    <2>1. CASE server' = "running" /\ uiq' = Append(uiq, "SERVER_STARTED")
        <3>1. Ends(uiq', "SERVER_STARTED", "SERVER_STOPPED")
            BY <2>1, EndsAppended, Names
        <3> QED
            BY <2>1, <3>1 DEF Believed, Believes, Bound
    <2>2. CASE server' = "stopped" /\ uiq' = Append(uiq, "SERVER_STOPPED")
        <3>1. Ends(uiq', "SERVER_STOPPED", "SERVER_STARTED")
            BY <2>2, EndsAppended, Names
        <3> QED
            BY <2>2, <3>1 DEF Believed, Believes, Bound
    <2> QED
        BY <1>8, <2>1, <2>2 DEF Answered
<1> QED
    BY <1>2, <1>3, <1>4, <1>5, <1>6, <1>7, <1>8 DEF Turn

LEMMA OfferedStep ==
    ASSUME Queues, Queues', Turn, Offered, Flags
    PROVE  Offered'
<1> USE DEF Queues
<1>1. "SERVER_START" \in {"SERVER_START", "SERVER_STOP"} /\ "SERVER_STOP" \in {"SERVER_START", "SERVER_STOP"}
    OBVIOUS
<1>2. CASE GoesOn
    <2>1. StopSent => StopSent'
        <3>1. Contains(Append(toServer, "SERVER_START"), "SERVER_STOP") <=> StopSent
            BY <1>1, HasAppended DEF StopSent
        <3> QED
            BY <1>2, <3>1 DEF GoesOn, StopSent
    <2>2. "SERVER_STOPPED" \notin Asides
        BY Kinds DEF Answers
    <2>3. Contains(uiq, "SERVER_STOPPED") => Contains(uiq', "SERVER_STOPPED")
        BY <1>2, <2>2, Kinds, TurnedHas DEF GoesOn
    <2>4. CASE buttonStart' = buttonStart /\ buttonStop' = buttonStop /\ serverStarted' = serverStarted
        BY <2>1, <2>3, <2>4, Zenon DEF Offered
    <2>5. CASE buttonStop' = TRUE
        BY <2>5, Zenon DEF Offered
    <2> QED
        BY <1>2, <2>4, <2>5, Zenon DEF GoesOn
<1>3. CASE Stops
    <2>1. StopSent'
        BY <1>1, <1>3, HasAppended DEF Stops, StopSent
    <2> QED
        BY <1>3, <2>1, Zenon DEF Offered, Stops
<1>4. CASE HearsStarted
    BY <1>4, Zenon DEF Offered, HearsStarted
<1>5. CASE HearsStopped
    BY <1>5, Zenon DEF Offered, HearsStopped
<1>6. CASE ToldToStart
    <2>1. StopSent' <=> StopSent
        BY <1>6, HasTaken DEF ToldToStart, StopSent
    <2> QED
        BY <1>6, <2>1, Zenon DEF Offered, ToldToStart, Client
<1>7. CASE ToldToStop
    <2>1. Contains(uiq', "SERVER_STOPPED")
        BY <1>7, HasAppended, Names DEF ToldToStop
    <2> QED
        BY <1>7, <2>1, Zenon DEF Offered, ToldToStop, Client
<1>8. CASE Answered
    <2>1. StopSent' <=> StopSent
        BY <1>8 DEF Answered, StopSent
    <2>2. Contains(uiq, "SERVER_STOPPED") => Contains(uiq', "SERVER_STOPPED")
        <3>1. \A m \in Signals : Contains(uiq, "SERVER_STOPPED") => Contains(Append(uiq, m), "SERVER_STOPPED")
            BY HasAppended
        <3> QED
            BY <1>8, <3>1, Names, Zenon DEF Answered
    <2> QED
        BY <1>8, <2>1, <2>2, Zenon DEF Offered, Answered, Client
<1> QED
    BY <1>2, <1>3, <1>4, <1>5, <1>6, <1>7, <1>8 DEF Turn

(* The invariant behind Agreement: as long as the link holds, the last     *)
(* answer on its way decides what the client will believe.                 *)
BeliefInv == IInv /\ LinkInv /\ (Linked => Believed /\ Offered)

LEMMA InitBelief == Init => BeliefInv
<1> SUFFICES ASSUME Init PROVE BeliefInv
    OBVIOUS
<1>1. \A s : ~Contains(uiq, s)
    BY DEF Init, Contains
<1>2. LinkInv
    BY <1>1 DEF Init, LinkInv, LinkHolds
<1>3. Believed
    BY <1>1 DEF Init, Believed, Believes, Bound
<1>4. Offered
    BY DEF Init, Offered
<1> QED
    BY <1>2, <1>3, <1>4, InitIInv DEF BeliefInv

LEMMA NextBelief == BeliefInv /\ [Next]_vars => BeliefInv'
<1> SUFFICES ASSUME BeliefInv, [Next]_vars PROVE BeliefInv'
    OBVIOUS
<1>1. IInv /\ IInv' /\ Queues /\ Queues' /\ Flags
    BY NextIInv DEF BeliefInv, IInv, TypeOK
<1>2. LinkInv' /\ cases' = cases
    BY <1>1, LinkStep DEF BeliefInv
<1>3. ASSUME Linked PROVE Believed' /\ Offered'
    <2>1. Turn /\ Believed /\ Offered
        BY <1>1, <1>3, TurnStep DEF BeliefInv, LinkInv
    <2> QED
        BY <1>1, <2>1, BelievedStep, OfferedStep
<1> QED
    BY <1>1, <1>2, <1>3 DEF BeliefInv, Linked

LEMMA Belief == Spec => []BeliefInv
    BY InitBelief, NextBelief, PTL DEF Spec

(* When nothing is on its way, the client believes of the conversion what  *)
(* is true at the server, and offers the button that fits.                 *)
THEOREM EndsAgree == Spec => []Agreement
<1>1. BeliefInv => Agreement
    <2> SUFFICES ASSUME BeliefInv, Settled, Linked, server \in {"stopped", "running"}
                 PROVE  /\ serverStarted = (server = "running")
                        /\ buttonStart \/ buttonStop
                        /\ serverStarted => buttonStop
        BY DEF Agreement
    <2>1. \A s : ~Contains(uiq, s) /\ ~Contains(toServer, s) /\ \A o : ~Ends(uiq, s, o)
        BY DEF Settled, Contains, Ends
    <2>2. Believes(uiq, server = "running", serverStarted) /\ Offered
        BY <2>1 DEF BeliefInv, Believed, StopSent
    <2>3. serverStarted \in BOOLEAN
        BY DEF BeliefInv, IInv, TypeOK, Flags
    <2>4. serverStarted = (server = "running")
        BY <2>1, <2>2, <2>3 DEF Believes, Bound
    <2> QED
        BY <2>1, <2>2, <2>4 DEF Offered, StopSent
<1> QED
    BY <1>1, Belief, PTL


-----------------------------------------------------------------------------
(* After the user's last word was Stop, nothing that was on its way brings *)
(* the streams back or asks the server to start.                           *)
Silent == Asides \ {"success"}

StopHolds ==
    /\ inS \in Absent /\ outS \in Absent
    /\ ~Contains(uiq, "success")
    /\ toServer = <<>> => server = "stopped"
    /\ toServer # <<>> => Last(toServer) = "SERVER_STOP"

StopInv == Linked /\ "overtake" \notin cases /\ word = "stop" => StopHolds

Rests ==
    /\ Turned(uiq, uiq', Silent, Silent)
    /\ server' = server /\ toServer' = toServer /\ buttonStart' = buttonStart

Repeats ==
    /\ Turned(uiq, uiq', Silent, Silent)
    /\ server' = server /\ toServer' = Append(toServer, "SERVER_STOP")
    /\ Contains(uiq, "unplugged") \/ "stop twice" \in cases

Hears ==
    /\ uiq # <<>> /\ Head(uiq) \in Answers /\ uiq' = Tail(uiq)
    /\ server' = server /\ toServer' = toServer
    /\ buttonStart' = (Head(uiq) = "SERVER_STOPPED")

WindsDown == Rests \/ Repeats \/ Hears \/ ToldToStart \/ ToldToStop \/ Answered

LEMMA LastMoved ==
    ASSUME NEW S, NEW q \in Seq(S)
    PROVE  /\ \A m \in S : Last(Append(q, m)) = m /\ Append(q, m) # <<>>
           /\ q # <<>> => /\ Tail(q) # <<>> => Last(Tail(q)) = Last(q)
                          /\ Tail(q) = <<>> => Head(q) = Last(q)
<1>1. \A m \in S : Last(Append(q, m)) = m /\ Append(q, m) # <<>>
    BY Indices DEF Last
<1>2. ASSUME q # <<>> PROVE /\ Tail(q) # <<>> => Last(Tail(q)) = Last(q)
                            /\ Tail(q) = <<>> => Head(q) = Last(q)
    <2>1. /\ Tail(q) \in Seq(S) /\ Len(q) \in Nat /\ Len(q) >= 1
          /\ Len(Tail(q)) = Len(q) - 1
          /\ \A i \in 1..Len(Tail(q)) : Tail(q)[i] = q[i + 1]
          /\ Head(q) = q[1]
        BY <1>2, Indices
    <2>2. CASE Tail(q) = <<>>
        <3>0. Len(<<>>) = 0
            OBVIOUS
        <3>1. Len(q) = 1
            <4> DEFINE tail == Tail(q)
            <4>1. tail = <<>> /\ Len(tail) = Len(q) - 1 /\ Len(q) \in Nat
                BY <2>1, <2>2
            <4> HIDE DEF tail
            <4> QED
                BY <3>0, <4>1
        <3> QED
            BY <2>1, <2>2, <3>1 DEF Last
    <2>3. CASE Tail(q) # <<>>
        <3>1. Len(Tail(q)) \in 1..Len(Tail(q)) /\ Len(Tail(q)) + 1 = Len(q)
            BY <2>1, <2>3
        <3>2. Tail(q)[Len(Tail(q))] = q[Len(q)]
            BY <2>1, <3>1
        <3> QED
            BY <2>3, <3>2 DEF Last
    <2> QED
        BY <2>2, <2>3
<1> QED
    BY <1>1, <1>2

(* Without streams there is nothing to stop or to connect.                 *)
LEMMA NothingToStop ==
    ASSUME inS \in Absent, outS \in Absent
    PROVE  /\ ~inStreamConnected /\ ~outStreamConnected
           /\ inS \notin {"wait", "up"} /\ outS \notin {"wait", "up"}
           /\ \A q : StopAudio(q) => inS' = inS /\ outS' = outS /\ uiq' = q
    BY DEF Absent, inStreamConnected, outStreamConnected, StopAudio, Destroyed

LEMMA WindStep ==
    ASSUME Linked, LinkHolds, Queues, StopHolds, word = "stop", [Next]_vars, word' = "stop"
    PROVE  /\ WindsDown
           /\ inS' = inS /\ outS' = outS
<1>0. /\ opened
      /\ "drop" \notin cases /\ "exit" \notin cases
      /\ server # "gone"
    BY DEF LinkHolds, Linked
<1>g. \A q, M : Grown(q, q, M) /\ \A m \in M : Grown(q, Append(q, m), M)
    BY Grows
<1>n. /\ "written" \in Silent /\ "end" \in Silent
      /\ "unplugged" \in Silent /\ "AUDIO_OUT" \in Silent
    BY DEF Asides, Silent
<1>f. uiq # <<>> => /\ Contains(uiq, Head(uiq))
                    /\ Head(uiq) \notin Foreign /\ Head(uiq) # "success"
    <2>1. uiq # <<>> => Contains(uiq, Head(uiq))
        BY HasTaken DEF Queues
    <2> QED
        BY <2>1 DEF LinkHolds, StopHolds
<1>s. /\ ~inStreamConnected /\ ~outStreamConnected
      /\ inS \notin {"wait", "up"} /\ outS \notin {"wait", "up"}
      /\ \A q : StopAudio(q) => inS' = inS /\ outS' = outS /\ uiq' = q
    BY NothingToStop DEF StopHolds
<1> USE DEF streams, nums, flags, buttons, link, Quiet
<1>1. CASE InputStreaming \/ OutputStreaming \/ StreamError \/ Capture
    BY <1>1, <1>s DEF InputStreaming, OutputStreaming, StreamError, Capture
<1>2. CASE Unplug
    <2>1. Grown(uiq, uiq', Silent)
        BY <1>2, <1>g, <1>n, Zenon DEF Unplug
    <2> QED
        BY <1>2, <2>1, Zenon DEF WindsDown, Rests, Turned, Unplug
<1>3. CASE ClickStart
    BY <1>3 DEF ClickStart
<1>4. CASE ClickStop
    <2>1. /\ uiq' = uiq /\ inS' = inS /\ outS' = outS
          /\ "stop twice" \in cases
        BY <1>4, <1>s, Zenon DEF ClickStop
    <2>2. server' = server /\ toServer' = Append(toServer, "SERVER_STOP")
        BY <1>0, <1>4, Zenon DEF ClickStop, Send
    <2>3. Grown(uiq, uiq', Silent)
        BY <1>g, <2>1, Zenon DEF Grown
    <2> QED
        BY <2>1, <2>2, <2>3, Zenon DEF WindsDown, Repeats, Turned
<1>5. CASE SwapInput
    <2>1. /\ uiq' = uiq /\ inS' = inS /\ outS' = outS
          /\ server' = server /\ toServer' = toServer /\ buttonStart' = buttonStart
        BY <1>5, Zenon DEF SwapInput, StopHolds
    <2> QED
        BY <2>1, Zenon DEF WindsDown, Rests, Turned, Grown
<1>6. CASE OnWritten \/ OnEnd
    <2>1. uiq # <<>> /\ Head(uiq) \in Silent /\ Grown(Tail(uiq), uiq', Silent)
        BY <1>6, <1>g, <1>n, Zenon DEF OnWritten, OnEnd, Handle
    <2>2. UNCHANGED <<server, toServer, buttonStart, inS, outS>>
        BY <1>6, Zenon DEF OnWritten, OnEnd
    <2> QED
        BY <2>1, <2>2, Zenon DEF WindsDown, Rests, Turned
<1>7. CASE OnSuccess \/ OnServerExiting \/ OnParams \/ OnClose
    BY <1>f, <1>7 DEF OnSuccess, OnServerExiting, OnParams, OnClose, Handle, Foreign
<1>8. CASE OnUnplugged
    <2>1. uiq' = Tail(uiq) /\ inS' = inS /\ outS' = outS
        BY <1>0, <1>8, <1>s, Zenon DEF OnUnplugged
    <2>2. uiq # <<>> /\ Head(uiq) = "unplugged" /\ Contains(uiq, "unplugged")
        BY <1>8, <1>f DEF OnUnplugged, Handle
    <2>3. server' = server /\ toServer' = Append(toServer, "SERVER_STOP")
        BY <1>0, <1>8, Zenon DEF OnUnplugged, Send
    <2>4. Turned(uiq, uiq', Silent, Silent)
        BY <1>n, <2>1, <2>2, Zenon DEF Turned, Grown
    <2> QED
        BY <2>1, <2>2, <2>3, <2>4, Zenon DEF WindsDown, Repeats
<1>9. CASE OnServerStarted
    BY <1>9 DEF WindsDown, Hears, OnServerStarted, Handle, Buttons, Answers
<1>10. CASE OnServerStopped
    <2>1. uiq' = Tail(uiq) /\ inS' = inS /\ outS' = outS
        BY <1>10, <1>s, Zenon DEF OnServerStopped
    <2> QED
        BY <1>10, <2>1 DEF WindsDown, Hears, OnServerStopped, Handle, Buttons, Answers
<1>11. CASE OnAudioOut
    <2>1. /\ uiq' = Tail(uiq)
          /\ UNCHANGED <<server, toServer, buttonStart, inS, outS>>
        BY <1>11, <1>s, Zenon DEF OnAudioOut, KeepAudio
    <2>2. uiq # <<>> /\ Head(uiq) = "AUDIO_OUT"
        BY <1>11 DEF OnAudioOut, Handle
    <2> QED
        BY <1>n, <2>1, <2>2, Zenon DEF WindsDown, Rests, Turned, Grown
<1>12. CASE EmitSamples \/ DiscardSamples \/ Drained
    <2>1. UNCHANGED <<server, toServer, buttonStart, inS, outS, uiq>>
        BY <1>12, Zenon DEF EmitSamples, DiscardSamples, Drained
    <2> QED
        BY <2>1, Zenon DEF WindsDown, Rests, Turned, Grown
<1>13. CASE ServerReceives
    <2>1. ToldToStart \/ ToldToStop
        BY <1>0, <1>13, Zenon DEF ServerReceives, Tell, ToldToStart, ToldToStop, Client
    <2> QED
        BY <1>13, <2>1, Zenon DEF WindsDown, ServerReceives
<1>14. CASE ServerReady \/ ServerFails
    <2>1. Answered
        BY <1>0, <1>14 DEF ServerReady, ServerFails, Tell, Answered, Client
    <2> QED
        BY <1>14, <2>1, Zenon DEF WindsDown, ServerReady, ServerFails
<1>15. CASE ServerConverts
    <2>1. /\ Grown(uiq, uiq', Silent)
          /\ UNCHANGED <<server, toServer, buttonStart, inS, outS>>
        BY <1>0, <1>15, <1>g, <1>n, Zenon DEF ServerConverts, Tell
    <2> QED
        BY <2>1, Zenon DEF WindsDown, Rests, Turned
<1>16. CASE ServerExits \/ Drop \/ Reopen \/ GiveUp
    BY <1>0, <1>16 DEF ServerExits, Drop, Reopen, GiveUp
<1>17. CASE UNCHANGED vars
    <2>1. UNCHANGED <<server, toServer, buttonStart, inS, outS, uiq>>
        BY <1>17, Zenon DEF vars
    <2> QED
        BY <2>1, Zenon DEF WindsDown, Rests, Turned, Grown
<1> QED
    BY <1>1, <1>2, <1>3, <1>4, <1>5, <1>6, <1>7, <1>8, <1>9, <1>10, <1>11, <1>12, <1>13, <1>14,
       <1>15, <1>16, <1>17, Zenon
       DEF Next, User, PipeWire, Main, Handler, Loop, Server, Network

LEMMA StopStep ==
    ASSUME Queues, Queues', Linked, LinkHolds, "overtake" \notin cases, StopInv, Places,
           [Next]_vars, word' = "stop"
    PROVE  StopHolds'
<1> USE DEF Queues
<1>1. ASSUME word = "stop" PROVE StopHolds'
    <2>0. StopHolds
        BY <1>1 DEF StopInv
    <2>1. WindsDown /\ inS' = inS /\ outS' = outS
        BY <1>1, <2>0, WindStep
    <2>2. ~Contains(uiq', "success")
        <3>1. Turned(uiq, uiq', Signals \ {"success"}, Signals)
            BY <2>1 DEF WindsDown, Rests, Repeats, Hears, ToldToStart, ToldToStop, Answered, Turned, Grown,
               Silent, Asides, Answers, Signals
        <3> QED
            BY <2>0, <3>1, TurnedHas DEF StopHolds
    <2>3. /\ toServer' = <<>> => server' = "stopped"
          /\ toServer' # <<>> => Last(toServer') = "SERVER_STOP"
        <3>1. "SERVER_STOP" \in {"SERVER_START", "SERVER_STOP"}
            OBVIOUS
        <3>2. CASE Rests \/ Hears
            BY <2>0, <3>2 DEF Rests, Hears, StopHolds
        <3>3. CASE Repeats
            BY <3>1, <3>3, LastMoved DEF Repeats
        <3>4. CASE ToldToStart
            BY <2>0, <3>4, LastMoved DEF ToldToStart, StopHolds
        <3>5. CASE ToldToStop
            BY <2>0, <3>5, LastMoved DEF ToldToStop, StopHolds
        <3>6. CASE Answered
            BY <2>0, <3>6 DEF Answered, StopHolds
        <3> QED
            BY <2>1, <3>2, <3>3, <3>4, <3>5, <3>6 DEF WindsDown
    <2> QED
        BY <2>0, <2>1, <2>2, <2>3 DEF StopHolds, Absent
<1>2. ASSUME word # "stop" PROVE StopHolds'
    <2>1. ClickStop
        BY <1>2
        DEF Next, User, PipeWire, Main, Handler, Loop, Server, Network, Quiet, vars,
            InputStreaming, OutputStreaming, StreamError, Unplug, Capture, ClickStart,
            SwapInput, OnWritten, OnSuccess, OnEnd, OnUnplugged, OnServerStarted, OnServerStopped,
            OnServerExiting, OnParams, OnAudioOut, OnClose, EmitSamples, DiscardSamples, Drained,
            ServerReceives, ServerReady, ServerConverts, ServerFails, ServerExits, Drop, Reopen, GiveUp
    <2>2. inS' \in Absent /\ outS' \in Absent
        BY <2>1 DEF ClickStop, StopAudio, Destroyed, Absent
    <2>3. ~Contains(uiq', "success")
        <3>1. ~Contains(uiq, "success")
            BY <2>1, Zenon DEF ClickStop
        <3>2. uiq' = uiq \/ uiq' = Append(uiq, "end")
            BY <2>1, Zenon DEF ClickStop, StopAudio
        <3>3. Contains(Append(uiq, "end"), "success") <=> Contains(uiq, "success")
            BY HasAppended, Names
        <3> QED
            BY <3>1, <3>2, <3>3
    <2>4. toServer' = Append(toServer, "SERVER_STOP")
        BY <2>1, Zenon DEF ClickStop, Send, LinkHolds
    <2>5. Last(toServer') = "SERVER_STOP" /\ toServer' # <<>>
        <3>1. "SERVER_STOP" \in {"SERVER_START", "SERVER_STOP"}
            OBVIOUS
        <3> QED
            BY <2>4, <3>1, LastMoved
    <2> QED
        BY <2>2, <2>3, <2>5 DEF StopHolds, Absent
<1> QED
    BY <1>1, <1>2


(* The invariant behind StopStops.                                         *)
StoppedInv == BeliefInv /\ StopInv

LEMMA InitStopped == Init => StoppedInv
<1> SUFFICES ASSUME Init PROVE StopHolds
    BY InitBelief DEF StoppedInv, StopInv
<1> QED
    BY DEF Init, StopHolds, Absent, Contains

LEMMA NextStopped == StoppedInv /\ [Next]_vars => StoppedInv'
<1> SUFFICES ASSUME StoppedInv, [Next]_vars PROVE StopInv'
    BY NextBelief DEF StoppedInv
<1>1. Queues /\ Queues' /\ Places /\ LinkInv
    BY NextIInv DEF StoppedInv, BeliefInv, IInv, TypeOK
<1>2. cases' = cases
    BY <1>1, LinkStep
<1>3. ASSUME Linked, "overtake" \notin cases, word' = "stop" PROVE StopHolds'
    BY <1>1, <1>3, StopStep DEF StoppedInv, LinkInv
<1> QED
    BY <1>2, <1>3 DEF StopInv, Linked

LEMMA Stopped == Spec => []StoppedInv
    BY InitStopped, NextStopped, PTL DEF Spec

(* When the user's last word is Stop and nothing is on its way, the server *)
(* does not convert.                                                       *)
THEOREM StopIsFinal == Spec => []StopStops
<1>1. StoppedInv => StopStops
    BY DEF StoppedInv, StopInv, StopHolds, StopStops, Settled
<1> QED
    BY <1>1, Stopped, PTL


-----------------------------------------------------------------------------
(* A conversion is one Start, the server's work, one Stop and one answer   *)
(* to it: while Start is the last word, the streams outlast what the       *)
(* server was asked; then the one SERVER_STOPPED is all that is left.      *)
Narrow == Linked /\ cases \cap {"stop twice", "fail", "unplug", "swap", "overtake"} = {}

Asked == toServer # <<>> \/ server # "stopped"
Alive == {"up", "error"}

Going ==
    /\ ~buttonStart /\ ~StopSent /\ ~Contains(uiq, "SERVER_STOPPED")
    /\ Contains(uiq, "success") \/ Asked => inS \in Alive /\ outS \in Alive
    /\ Contains(uiq, "end") => inS \in Absent
    /\ Asked => numOut = Chunk \/ outS # "up"

Ending ==
    IF buttonStart
    THEN ~Asked /\ ~Contains(uiq, "SERVER_STOPPED")
    ELSE \/ Once(toServer, "SERVER_STOP") /\ ~Contains(uiq, "SERVER_STOPPED")
         \/ ~Asked /\ Once(uiq, "SERVER_STOPPED")

Alone == mic = "chosen" /\ ~Contains(uiq, "unplugged")

NarrowInv ==
    Narrow => /\ Alone
              /\ word = "start" => Going
              /\ word = "stop" => Ending

LEMMA OnceTurned ==
    ASSUME NEW q \in Seq(Signals), NEW r, NEW M, M \subseteq Signals, NEW H, Turned(q, r, M, H),
           NEW s, s \notin M, s \notin H, Once(q, s)
    PROVE  Once(r, s)
<1>1. ASSUME NEW p \in Seq(Signals), Once(p, s), Grown(p, r, M) PROVE Once(r, s)
    <2>1. \A m \in M : m \in Signals /\ m # s
        OBVIOUS
    <2>2. \A m \in M : Once(Append(p, m), s)
        BY <1>1, <2>1, OnceHas
    <2> QED
        BY <1>1, <2>2 DEF Grown
<1>2. q # <<>> /\ Head(q) \in H => Once(Tail(q), s) /\ Tail(q) \in Seq(Signals)
    BY OnceTaken, Moved
<1> QED
    BY <1>1, <1>2 DEF Turned

LEMMA AloneStep ==
    ASSUME Queues, Narrow, LinkHolds, Alone, [Next]_vars
    PROVE  Alone'
<1>0. /\ "drop" \notin cases /\ "exit" \notin cases /\ "unplug" \notin cases /\ "swap" \notin cases
      /\ opened
    BY DEF Narrow, Linked, LinkHolds
<1>f. uiq # <<>> => Head(uiq) # "unplugged" /\ Head(uiq) \notin Foreign
    <2>1. uiq # <<>> => Contains(uiq, Head(uiq))
        BY HasTaken DEF Queues
    <2> QED
        BY <2>1 DEF Alone, LinkHolds
<1>q. Queues'
    BY QueuesStep
<1>1. mic' = mic /\ Turned(uiq, uiq', Signals \ {"unplugged"}, Signals)
    <2>g. \A q, M : Grown(q, q, M) /\ \A m \in M : Grown(q, Append(q, m), M)
        BY Grows
    <2>n. \A s \in Signals : s # "unplugged" => s \in Signals \ {"unplugged"}
        OBVIOUS
    <2>h. uiq # <<>> => Head(uiq) \in Signals
        BY DEF Queues
    <2>a. /\ \A q : StopAudio(q) => Grown(q, uiq', Signals \ {"unplugged"})
          /\ StartAudio => Grown(uiq, uiq', Signals \ {"unplugged"})
          /\ \A q : KeepAudio(q) => Grown(q, uiq', Signals \ {"unplugged"})
        <3>1. "end" \in Signals \ {"unplugged"}
            BY DEF Signals
        <3> QED
            BY <2>g, <3>1, Zenon DEF StopAudio, StartAudio, KeepAudio
    <2>m. /\ "success" \in Signals \ {"unplugged"} /\ "written" \in Signals \ {"unplugged"}
          /\ "SERVER_STARTED" \in Signals \ {"unplugged"} /\ "SERVER_STOPPED" \in Signals \ {"unplugged"}
          /\ "AUDIO_OUT" \in Signals \ {"unplugged"}
        BY DEF Signals
    <2> USE DEF streams, nums, flags, buttons, link, Quiet
    <2>1. CASE InputStreaming \/ OutputStreaming \/ StreamError \/ Capture
        BY <2>1, <2>g, <2>m, Zenon DEF InputStreaming, OutputStreaming, StreamError, Capture, Turned
    <2>2. CASE ClickStart \/ ClickStop
        BY <2>2, <2>a, Zenon DEF ClickStart, ClickStop, Turned
    <2>3. CASE Unplug \/ SwapInput
        BY <1>0, <2>3 DEF Unplug, SwapInput, Alone
    <2>4. CASE OnWritten \/ OnSuccess \/ OnEnd \/ OnServerStarted
        BY <2>4, <2>g, <2>h, Zenon DEF OnWritten, OnSuccess, OnEnd, OnServerStarted, Handle, Turned
    <2>5. CASE OnServerStopped \/ OnAudioOut
        BY <2>5, <2>a, <2>h, Zenon DEF OnServerStopped, OnAudioOut, Handle, Turned
    <2>6. CASE OnUnplugged \/ OnServerExiting \/ OnParams \/ OnClose
        BY <1>f, <2>6 DEF OnUnplugged, OnServerExiting, OnParams, OnClose, Handle, Foreign
    <2>7. CASE Loop
        BY <2>7, <2>g, Zenon DEF Loop, EmitSamples, DiscardSamples, Drained, Turned
    <2>8. CASE Server
        BY <1>0, <2>8, <2>g, <2>m, Zenon DEF Server, ServerReceives, ServerReady, ServerConverts,
           ServerFails, ServerExits, Tell, Turned
    <2>9. CASE Network
        BY <1>0, <2>9 DEF Network, Drop, Reopen, GiveUp
    <2>10. CASE UNCHANGED vars
        BY <2>10, <2>g, Zenon DEF vars, Turned
    <2> QED
        BY <2>1, <2>2, <2>3, <2>4, <2>5, <2>6, <2>7, <2>8, <2>9, <2>10, Zenon
           DEF Next, User, PipeWire, Main, Handler
<1>2. Contains(uiq', "unplugged") => Contains(uiq, "unplugged")
    BY <1>1, TurnedHas DEF Queues
<1> QED
    BY <1>1, <1>2 DEF Alone

LEMMA EndingStep ==
    ASSUME Queues, Queues', Narrow, Alone, StopHolds, Believed, Ending, WindsDown
    PROVE  Ending'
<1> USE DEF Queues
<1>0. /\ "stop twice" \notin cases /\ "fail" \notin cases
      /\ ~Contains(uiq, "unplugged")
    BY DEF Narrow, Alone
<1>1. CASE Rests
    <2>1. "SERVER_STOPPED" \notin Silent /\ Silent \subseteq Signals
        BY DEF Silent, Asides, Signals
    <2>2. /\ Contains(uiq', "SERVER_STOPPED") => Contains(uiq, "SERVER_STOPPED")
          /\ Once(uiq, "SERVER_STOPPED") => Once(uiq', "SERVER_STOPPED")
        BY <1>1, <2>1, TurnedHas, OnceTurned DEF Rests
    <2> QED
        BY <1>1, <2>2 DEF Ending, Rests, Asked
<1>2. CASE Repeats
    BY <1>0, <1>2 DEF Repeats
<1>3. CASE Hears
    <2>1. /\ uiq # <<>> /\ Contains(uiq, Head(uiq))
          /\ Contains(Tail(uiq), "SERVER_STOPPED") => Contains(uiq, "SERVER_STOPPED")
        BY <1>3, HasTaken DEF Hears
    <2>2. CASE Head(uiq) = "SERVER_STOPPED"
        <3>1. ~buttonStart /\ ~Asked /\ Once(uiq, "SERVER_STOPPED")
            BY <2>1, <2>2 DEF Ending
        <3>2. ~Contains(Tail(uiq), "SERVER_STOPPED")
            BY <2>1, <2>2, <3>1, OnceTaken
        <3> QED
            BY <1>3, <2>2, <3>1, <3>2 DEF Ending, Hears, Asked
    <2>3. CASE Head(uiq) = "SERVER_STARTED"
        <3>1. ~buttonStart
            <4> SUFFICES ASSUME buttonStart PROVE FALSE
                OBVIOUS
            <4>1. ~Asked /\ ~Contains(uiq, "SERVER_STOPPED")
                BY DEF Ending
            <4>2. ~StopSent
                BY <4>1 DEF Asked, StopSent, Contains
            <4>3. Bound(uiq, "SERVER_STOPPED", "SERVER_STARTED", ~serverStarted)
                BY <4>1, <4>2 DEF Believed, Believes, Asked
            <4> QED
                BY <2>1, <2>3, <4>1, <4>3, EndsHas DEF Bound
        <3>2. Once(uiq, "SERVER_STOPPED") => Once(Tail(uiq), "SERVER_STOPPED")
            BY <2>1, <2>3, OnceTaken
        <3>3. buttonStart' = FALSE
            BY <1>3, <2>3 DEF Hears
        <3> QED
            BY <1>3, <2>1, <3>1, <3>2, <3>3 DEF Ending, Hears, Asked
    <2> QED
        BY <1>3, <2>2, <2>3 DEF Hears, Answers
<1>4. CASE ToldToStart
    <2>1. Once(toServer, "SERVER_STOP") /\ ~Contains(uiq, "SERVER_STOPPED") /\ ~buttonStart
        BY <1>4 DEF ToldToStart, Ending, Asked
    <2>2. Once(Tail(toServer), "SERVER_STOP")
        BY <1>4, <2>1, OnceTaken DEF ToldToStart
    <2> QED
        BY <1>4, <2>1, <2>2 DEF ToldToStart, Client, Ending
<1>5. CASE ToldToStop
    <2>1. Once(toServer, "SERVER_STOP") /\ ~Contains(uiq, "SERVER_STOPPED") /\ ~buttonStart
        BY <1>5 DEF ToldToStop, Ending, Asked
    <2>2. ~Contains(Tail(toServer), "SERVER_STOP")
        BY <1>5, <2>1, OnceTaken DEF ToldToStop
    <2>3. Tail(toServer) = <<>>
        <3> SUFFICES ASSUME Tail(toServer) # <<>> PROVE FALSE
            OBVIOUS
        <3>1. Tail(toServer) \in Seq({"SERVER_START", "SERVER_STOP"})
            BY <1>5 DEF ToldToStop
        <3>2. Last(Tail(toServer)) = "SERVER_STOP"
            BY <1>5, LastMoved DEF ToldToStop, StopHolds
        <3>3. Len(Tail(toServer)) \in 1..Len(Tail(toServer))
            BY <3>1
        <3> QED
            BY <2>2, <3>2, <3>3 DEF Last, Contains
    <2>4. Once(uiq', "SERVER_STOPPED")
        BY <1>5, <2>1, OnceHas, Names DEF ToldToStop
    <2> QED
        BY <1>5, <2>1, <2>3, <2>4 DEF ToldToStop, Client, Ending, Asked
<1>6. CASE Answered
    <2>1. server = "starting" /\ uiq' = Append(uiq, "SERVER_STARTED") /\ toServer' = toServer
        BY <1>0, <1>6 DEF Answered
    <2>2. Once(toServer, "SERVER_STOP") /\ ~Contains(uiq, "SERVER_STOPPED") /\ ~buttonStart
        BY <2>1 DEF Ending, Asked
    <2>3. ~Contains(uiq', "SERVER_STOPPED")
        BY <2>1, <2>2, HasAppended, Names
    <2> QED
        BY <1>6, <2>1, <2>2, <2>3 DEF Answered, Client, Ending
<1> QED
    BY <1>1, <1>2, <1>3, <1>4, <1>5, <1>6 DEF WindsDown


(* A step that takes nothing from a conversion under way.                  *)
LEMMA GoingKept ==
    ASSUME Going, inS' = inS, outS' = outS, numOut' = numOut, ~buttonStart',
           Asked' => Asked, StopSent' => StopSent,
           \A s : s \in {"success", "end", "SERVER_STOPPED"} /\ Contains(uiq', s) => Contains(uiq, s)
    PROVE  Going'
<1>1. /\ Contains(uiq', "success") => Contains(uiq, "success")
      /\ Contains(uiq', "end") => Contains(uiq, "end")
      /\ Contains(uiq', "SERVER_STOPPED") => Contains(uiq, "SERVER_STOPPED")
    OBVIOUS
<1> QED
    BY <1>1 DEF Going, Absent

(* While Start is the last word, the server is asked to stop by nobody.    *)
LEMMA GoingStep ==
    ASSUME Queues, Queues', Narrow, LinkHolds, Alone, Believed, Going, word = "start",
           [Next]_vars, word' = "start"
    PROVE  Going'
<1> USE DEF Queues
<1>0. /\ "drop" \notin cases /\ "exit" \notin cases /\ "unplug" \notin cases
      /\ "swap" \notin cases /\ "fail" \notin cases
      /\ opened /\ server # "gone" /\ mic = "chosen"
    BY DEF Narrow, Linked, LinkHolds, Alone
<1>a. \A m \in Signals : \A s : Contains(Append(uiq, m), s) <=> (Contains(uiq, s) \/ m = s)
    BY HasAppended
<1>b. ASSUME NEW s \in {"success", "end", "SERVER_STOPPED"}
      PROVE  /\ Contains(Append(uiq, "written"), s) => Contains(uiq, s)
             /\ Contains(Append(uiq, "AUDIO_OUT"), s) => Contains(uiq, s)
             /\ Contains(Append(uiq, "SERVER_STARTED"), s) => Contains(uiq, s)
    <2>1. s # "written" /\ s # "AUDIO_OUT" /\ s # "SERVER_STARTED"
        OBVIOUS
    <2> QED
        BY <1>a, <2>1, Names, Zenon
<1>c. /\ Contains(Append(uiq, "success"), "end") => Contains(uiq, "end")
      /\ Contains(Append(uiq, "success"), "SERVER_STOPPED") => Contains(uiq, "SERVER_STOPPED")
    <2>1. "success" # "end" /\ "success" # "SERVER_STOPPED"
        OBVIOUS
    <2> QED
        BY <1>a, <2>1, Names, Zenon
<1>t. uiq # <<>> => /\ Contains(uiq, Head(uiq))
                    /\ \A s : Contains(Tail(uiq), s) => Contains(uiq, s)
    BY HasTaken
<1>f. uiq # <<>> => /\ Head(uiq) \notin Foreign
                    /\ Head(uiq) # "unplugged" /\ Head(uiq) # "SERVER_STOPPED"
    BY <1>t DEF LinkHolds, Alone, Going
<1>s. /\ \A s : ~Contains(<<>>, s)
      /\ "SERVER_START" \in {"SERVER_START", "SERVER_STOP"}
    BY DEF Contains
<1> USE Names DEF streams, nums, flags, buttons, link, Quiet
<1>1. CASE InputStreaming
    <2>1. /\ inS = "wait" /\ inS' = "up" /\ outS' = outS /\ numOut' = numOut /\ buttonStart' = buttonStart
          /\ toServer' = toServer /\ server' = server
          /\ uiq' = uiq \/ (outS = "up" /\ uiq' = Append(uiq, "success"))
        BY <1>1 DEF InputStreaming, outStreamConnected
    <2>2. ~Asked /\ ~Contains(uiq, "success") /\ ~Contains(uiq, "end")
        BY <2>1 DEF Going, Alive, Absent
    <2>3. /\ Contains(uiq', "success") => outS = "up"
          /\ ~Contains(uiq', "end") /\ ~Contains(uiq', "SERVER_STOPPED")
        BY <1>c, <2>1, <2>2 DEF Going
    <2> QED
        BY <2>1, <2>2, <2>3 DEF Going, Alive, Asked, StopSent
<1>2. CASE OutputStreaming
    <2>1. /\ outS = "wait" /\ outS' = "up" /\ inS' = inS /\ numOut' = numOut /\ buttonStart' = buttonStart
          /\ toServer' = toServer /\ server' = server
          /\ uiq' = uiq \/ (inS = "up" /\ uiq' = Append(uiq, "success"))
        BY <1>0, <1>2 DEF OutputStreaming, inStreamConnected
    <2>2. ~Asked /\ ~Contains(uiq, "success")
        BY <2>1 DEF Going, Alive
    <2>3. /\ Contains(uiq', "success") => inS = "up"
          /\ Contains(uiq', "end") => Contains(uiq, "end")
          /\ ~Contains(uiq', "SERVER_STOPPED")
        BY <1>c, <2>1, <2>2 DEF Going
    <2> QED
        BY <2>1, <2>2, <2>3 DEF Going, Alive, Asked, StopSent
<1>3. CASE StreamError
    <2>1. /\ \/ inS = "up" /\ inS' = "error" /\ outS' = outS
             \/ outS = "up" /\ outS' = "error" /\ inS' = inS
          /\ UNCHANGED <<numOut, buttonStart, toServer, server, uiq>>
        BY <1>3 DEF StreamError
    <2> QED
        BY <2>1 DEF Going, Alive, Absent, Asked, StopSent
<1>4. CASE Capture \/ ServerConverts \/ Loop \/ UNCHANGED vars
    <2>1. /\ UNCHANGED <<inS, outS, numOut, buttonStart, toServer, server>>
          /\ uiq' = uiq \/ uiq' = Append(uiq, "written") \/ uiq' = Append(uiq, "AUDIO_OUT")
        BY <1>4, Zenon DEF Capture, ServerConverts, Tell, Loop, EmitSamples, DiscardSamples, Drained, vars
    <2>2. \A s : s \in {"success", "end", "SERVER_STOPPED"} /\ Contains(uiq', s) => Contains(uiq, s)
        BY <1>b, <2>1
    <2>3. (Asked' => Asked) /\ (StopSent' => StopSent) /\ ~buttonStart'
        BY <2>1 DEF Asked, StopSent, Going
    <2> QED
        BY <2>1, <2>2, <2>3, GoingKept
<1>5. CASE OnWritten \/ OnServerStarted
    <2>1. /\ UNCHANGED <<inS, outS, numOut, toServer, server>>
          /\ buttonStart' = buttonStart \/ buttonStart' = FALSE
          /\ uiq # <<>> /\ uiq' = Tail(uiq)
        BY <1>5, Zenon DEF OnWritten, OnServerStarted, Buttons, Handle
    <2>2. (Asked' => Asked) /\ (StopSent' => StopSent) /\ ~buttonStart'
        BY <2>1 DEF Asked, StopSent, Going
    <2> QED
        BY <1>t, <2>1, <2>2, GoingKept
<1>6. CASE OnSuccess
    <2>1. /\ UNCHANGED <<inS, outS, buttonStart, server>>
          /\ uiq # <<>> /\ Head(uiq) = "success" /\ uiq' = Tail(uiq)
          /\ toServer' = toServer \/ toServer' = Append(toServer, "SERVER_START")
          /\ outS = "up" => numOut' = Chunk
        BY <1>0, <1>6 DEF OnSuccess, Handle, Send, outStreamConnected
    <2>2. inS \in Alive /\ outS \in Alive
        BY <1>t, <2>1 DEF Going
    <2>3. ~StopSent'
        <3>1. Contains(Append(toServer, "SERVER_START"), "SERVER_STOP") <=> StopSent
            BY <1>s, HasAppended DEF StopSent
        <3> QED
            BY <2>1, <3>1 DEF StopSent, Going
    <2> QED
        BY <1>t, <2>1, <2>2, <2>3 DEF Going
<1>7. CASE OnEnd
    <2>1. /\ UNCHANGED <<inS, outS, buttonStart, server, toServer>>
          /\ uiq # <<>> /\ Head(uiq) = "end" /\ uiq' = Tail(uiq)
        BY <1>7, Zenon DEF OnEnd, Handle
    <2>2. ~Asked /\ ~Contains(uiq, "success")
        BY <1>t, <2>1 DEF Going, Alive, Absent
    <2> QED
        BY <1>t, <2>1, <2>2 DEF Going, Asked, StopSent
<1>8. CASE OnAudioOut
    <2>1. ~(serverStarted /\ outStreamConnected /\ numOut # Chunk)
        <3> SUFFICES ASSUME serverStarted, outS = "up", numOut # Chunk PROVE FALSE
            BY DEF outStreamConnected
        <3>1. server # "running"
            BY DEF Going, Asked
        <3>2. Bound(uiq, "SERVER_STOPPED", "SERVER_STARTED", ~serverStarted)
            BY <3>1 DEF Believed, Believes, Going
        <3> QED
            BY <3>2, EndsHas DEF Bound, Going
    <2>2. /\ UNCHANGED <<inS, outS, numOut, toServer, server, buttonStart>>
          /\ uiq # <<>> /\ uiq' = Tail(uiq)
        BY <1>8, <2>1, Zenon DEF OnAudioOut, KeepAudio, Handle
    <2>3. (Asked' => Asked) /\ (StopSent' => StopSent) /\ ~buttonStart'
        BY <2>2 DEF Asked, StopSent, Going
    <2> QED
        BY <1>t, <2>2, <2>3, GoingKept
<1>9. CASE ServerReceives
    <2>1. ToldToStart \/ ToldToStop
        BY <1>0, <1>9, Zenon DEF ServerReceives, Tell, ToldToStart, ToldToStop, Client
    <2>2. toServer # <<>> => /\ Contains(toServer, Head(toServer))
                             /\ \A s : Contains(Tail(toServer), s) => Contains(toServer, s)
        BY HasTaken
    <2>3. /\ Asked /\ (StopSent' => StopSent)
          /\ UNCHANGED <<inS, outS, numOut, uiq, buttonStart>>
        BY <1>9, <2>1, <2>2 DEF ServerReceives, ToldToStart, ToldToStop, Client, Asked, StopSent, Going
    <2> QED
        BY <2>3 DEF Going, Asked
<1>10. CASE ServerReady
    <2>1. /\ Asked /\ UNCHANGED <<inS, outS, numOut, toServer, buttonStart>>
          /\ uiq' = Append(uiq, "SERVER_STARTED")
        BY <1>0, <1>10 DEF ServerReady, Tell, Asked
    <2>2. \A s : s \in {"success", "end", "SERVER_STOPPED"} /\ Contains(uiq', s) => Contains(uiq, s)
        BY <1>b, <2>1
    <2>3. (StopSent' => StopSent) /\ ~buttonStart'
        BY <2>1 DEF StopSent, Going
    <2> QED
        BY <2>1, <2>2, <2>3, GoingKept
<1>11. CASE Unplug \/ SwapInput \/ ServerFails \/ ServerExits \/ Network
    BY <1>0, <1>11 DEF Unplug, SwapInput, ServerFails, ServerExits, Network, Drop, Reopen, GiveUp
<1>12. CASE OnUnplugged \/ OnServerStopped \/ OnServerExiting \/ OnParams \/ OnClose
    BY <1>f, <1>12 DEF OnUnplugged, OnServerStopped, OnServerExiting, OnParams, OnClose, Handle, Foreign
<1>13. CASE ClickStart \/ ClickStop
    BY <1>13 DEF ClickStart, ClickStop, Going
<1> QED
    BY <1>1, <1>2, <1>3, <1>4, <1>5, <1>6, <1>7, <1>8, <1>9, <1>10, <1>11, <1>12, <1>13, Zenon
       DEF Next, User, PipeWire, Main, Handler, Server

(* The two clicks begin and end it.                                        *)
LEMMA WordStep ==
    ASSUME [Next]_vars, Places
    PROVE  /\ word = "stop" /\ word' = "start" => ClickStart
           /\ word = "start" /\ word' = "stop" => ClickStop
    BY DEF Next, User, PipeWire, Main, Handler, Loop, Server, Network, Quiet, vars,
        InputStreaming, OutputStreaming, StreamError, Unplug, Capture, ClickStart, ClickStop,
        SwapInput, OnWritten, OnSuccess, OnEnd, OnUnplugged, OnServerStarted, OnServerStopped,
        OnServerExiting, OnParams, OnAudioOut, OnClose, EmitSamples, DiscardSamples, Drained,
        ServerReceives, ServerReady, ServerConverts, ServerFails, ServerExits, Drop, Reopen, GiveUp

LEMMA StartStep ==
    ASSUME Queues, Queues', Narrow, StopHolds, Ending, ClickStart
    PROVE  Going'
<1>1. /\ buttonStart /\ ~Contains(uiq, "end") /\ buttonStart' = FALSE
      /\ toServer' = toServer /\ server' = server
    BY DEF ClickStart, Narrow, Buttons, link
<1>2. ~Asked /\ ~Contains(uiq, "SERVER_STOPPED")
    BY <1>1 DEF Ending
<1>3. ~Asked' /\ ~StopSent'
    BY <1>1, <1>2 DEF Asked, StopSent, Contains
<1>4. uiq' = uiq \/ (inS' = "none" /\ uiq' = Append(uiq, "end"))
    BY NothingToStop DEF ClickStart, StartAudio, StopHolds
<1>5. \A s : Contains(Append(uiq, "end"), s) <=> (Contains(uiq, s) \/ "end" = s)
    BY HasAppended, Names DEF Queues
<1>6. /\ ~Contains(uiq', "success") /\ ~Contains(uiq', "SERVER_STOPPED")
      /\ Contains(uiq', "end") => inS' = "none"
    BY <1>1, <1>2, <1>4, <1>5 DEF StopHolds
<1> QED
    BY <1>1, <1>3, <1>6 DEF Going, Absent

LEMMA EndStep ==
    ASSUME Queues, Queues', LinkHolds, Going, ClickStop
    PROVE  Ending'
<1>1. /\ buttonStart' = FALSE
      /\ toServer' = Append(toServer, "SERVER_STOP")
      /\ uiq' = uiq \/ uiq' = Append(uiq, "end")
    BY DEF ClickStop, Buttons, Send, StopAudio, LinkHolds
<1>2. "SERVER_STOP" \in {"SERVER_START", "SERVER_STOP"}
    OBVIOUS
<1>3. Once(toServer', "SERVER_STOP")
    BY <1>1, <1>2, OnceHas DEF Going, StopSent, Queues
<1>4. Contains(Append(uiq, "end"), "SERVER_STOPPED") <=> Contains(uiq, "SERVER_STOPPED")
    BY HasAppended, Names DEF Queues
<1>5. ~Contains(uiq', "SERVER_STOPPED")
    BY <1>1, <1>4 DEF Going
<1> QED
    BY <1>1, <1>3, <1>5 DEF Ending

(* The invariant behind ConversionHasStreams.                              *)
ConversionInv == StoppedInv /\ NarrowInv

LEMMA InitConversion == Init => ConversionInv
<1> SUFFICES ASSUME Init PROVE Alone /\ Ending /\ word = "stop"
    BY InitStopped DEF ConversionInv, NarrowInv
<1> QED
    BY DEF Init, Alone, Ending, Asked, Contains

LEMMA NextConversion == ConversionInv /\ [Next]_vars => ConversionInv'
<1> SUFFICES ASSUME ConversionInv, [Next]_vars PROVE NarrowInv'
    BY NextStopped DEF ConversionInv
<1>1. IInv /\ IInv' /\ LinkInv /\ StopInv /\ (Linked => Believed)
    BY NextIInv DEF ConversionInv, StoppedInv, BeliefInv
<1>2. Queues /\ Queues' /\ Places /\ Places'
    BY <1>1 DEF IInv, TypeOK
<1>3. cases' = cases
    BY <1>1, <1>2, LinkStep
<1>4. ASSUME Narrow
      PROVE  /\ Alone'
             /\ word' = "start" => Going'
             /\ word' = "stop" => Ending'
    <2>1. /\ Linked /\ "overtake" \notin cases /\ LinkHolds /\ Believed /\ Alone
          /\ word = "start" => Going
          /\ word = "stop" => Ending /\ StopHolds
        BY <1>1, <1>4 DEF Narrow, LinkInv, StopInv, ConversionInv, NarrowInv
    <2>2. Alone'
        BY <1>2, <1>4, <2>1, AloneStep
    <2>3. ASSUME word' = "start" PROVE Going'
        <3>1. CASE word = "start"
            BY <1>2, <1>4, <2>1, <2>3, <3>1, GoingStep
        <3>2. CASE word = "stop"
            BY <1>2, <1>4, <2>1, <2>3, <3>2, WordStep, StartStep
        <3> QED
            BY <1>2, <3>1, <3>2 DEF Places
    <2>4. ASSUME word' = "stop" PROVE Ending'
        <3>1. CASE word = "start"
            BY <1>2, <2>1, <2>4, <3>1, WordStep, EndStep
        <3>2. CASE word = "stop"
            <4>1. WindsDown
                BY <1>2, <2>1, <2>4, <3>2, WindStep
            <4> QED
                BY <1>2, <1>4, <2>1, <3>2, <4>1, EndingStep
        <3> QED
            BY <1>2, <3>1, <3>2 DEF Places
    <2> QED
        BY <2>2, <2>3, <2>4
<1> QED
    BY <1>3, <1>4 DEF NarrowInv, Narrow, Linked

LEMMA Conversion == Spec => []ConversionInv
    BY InitConversion, NextConversion, PTL DEF Spec

(* When a conversion runs and nothing is on its way, the streams that feed *)
(* it and play it exist, even if one of them failed.                       *)
THEOREM StreamsOutlast == Spec => []ConversionHasStreams
<1>1. ConversionInv => ConversionHasStreams
    <2> SUFFICES ASSUME ConversionInv, Settled, Narrow, server = "running"
                 PROVE  inS \notin Absent /\ outS \notin Absent
        BY DEF ConversionHasStreams, Narrow
    <2>1. word = "start"
        <3>1. word # "stop"
            BY DEF ConversionInv, StoppedInv, StopInv, StopHolds, Settled, Narrow
        <3> QED
            BY <3>1 DEF ConversionInv, StoppedInv, BeliefInv, IInv, TypeOK, Places
    <2> QED
        BY <2>1 DEF ConversionInv, NarrowInv, Going, Asked, Alive, Absent
<1> QED
    BY <1>1, Conversion, PTL

=============================================================================
