------------------------------ MODULE Streaming ------------------------------
(***************************************************************************)
(* Starting, running and stopping a conversion: the Start and Stop buttons *)
(* and the handlers of uwavclient.cpp, the two PipeWire streams of         *)
(* u_audioprovider.cpp, the capture ring between them (counted only; its   *)
(* contents are RingBuffer's), and the server at the other end.            *)
(*                                                                         *)
(* Everything that is not the main thread reaches it through Qt's queue of *)
(* signals (uiq).  The main thread runs one handler at a time; only the    *)
(* drain loops of onInputBufferWrite are cut into iterations, because what *)
(* they wait for may never come.                                           *)
(***************************************************************************)
EXTENDS Naturals, Sequences, SequencesExt

CONSTANTS Capacity,   \* samples the capture ring holds
          Quantum,    \* samples per callback of PipeWire
          Chunk,      \* samples per message, from the chunk slider
          MaxSignals, \* bound: users, servers and networks act on their own
                      \* with fewer signals than this waiting
          CaseSets    \* sets of Circumstances, one of which a behaviour admits

(* input first: the input stream may be up before the output stream        *)
(* overtake:    a click may be handled before a signal of PipeWire's       *)
(* stop twice:  Stop may be clicked again while it is still offered        *)
(* error:       a running stream may fail                                  *)
(* swap:        another microphone may be chosen while streams exist       *)
(* unplug:      the microphone chosen may be removed                       *)
(* refused:     PipeWire may refuse to connect a stream                    *)
(* no stream:   PipeWire may have no stream to give                        *)
(* drop, exit:  the connection may be lost; the server may exit            *)
(* fail:        the server may end a conversion of its own accord          *)
Circumstances == {"input first", "overtake", "stop twice", "error", "swap",
                  "unplug", "refused", "no stream", "drop", "exit", "fail"}

ASSUME StreamingAssumption ==
    /\ {Capacity, Quantum, Chunk, MaxSignals} \subseteq Nat \ {0}
    /\ \A set \in CaseSets : set \subseteq Circumstances

VARIABLES mic,             \* currentInputDevice and the combo box: a device "chosen"
                           \* in both, "none" in either, or "gone" from the box only
          inS, outS,       \* pwInputData, pwOutputData: the state of the stream;
                           \* "left": there is none, but its ring
          window,          \* writeAheadWindow of the capture ring
          numIn, numOut,   \* numInputSamplesPerChunk, numOutputSamplesPerChunk
          serverStarting, serverStarted,
          buttonStart, buttonStop,
          opened,          \* sioClient.opened()
          uiq,             \* signals queued for the main thread
          mpc,             \* "idle", or the drain loop it is in
          late,            \* history: a callback ran during this drain loop
          toServer,        \* messages on their way to the server
          server,          \* what the server does; "gone" once it has exited
          word,            \* history: the button the user clicked last
          cases            \* never changes: the circumstances admitted

streams == <<inS, outS, window>>
nums == <<numIn, numOut>>
flags == <<serverStarting, serverStarted>>
buttons == <<buttonStart, buttonStop>>
link == <<opened, toServer, server>>
vars == <<streams, nums, flags, buttons, link, uiq, mpc, late, word, mic, cases>>

inStreamConnected == inS = "up"
outStreamConnected == outS = "up"
Absent == {"none", "left"}
Room == Len(uiq) + Len(toServer) < MaxSignals

Init ==
    /\ mic = "chosen"
    /\ inS = "none" /\ outS = "none" /\ window = 0
    /\ numIn = 0 /\ numOut = 0
    /\ serverStarting = FALSE /\ serverStarted = FALSE
    /\ buttonStart = TRUE /\ buttonStop = FALSE
    /\ opened = TRUE /\ toServer = <<>> /\ server = "stopped"
    /\ uiq = <<>> /\ mpc = "idle" /\ late = FALSE
    /\ word = "stop"
    /\ cases \in CaseSets

-----------------------------------------------------------------------------
(* PipeWire's threads.                                                     *)

(* A stream is up: whoever completes the pair says so.                     *)
InputStreaming ==
    /\ inS = "wait"
    /\ outStreamConnected \/ "input first" \in cases
    /\ inS' = "up"
    /\ uiq' = IF outStreamConnected THEN Append(uiq, "success") ELSE uiq
    /\ UNCHANGED <<outS, window, nums, flags, buttons, link, mpc, late, word, mic, cases>>

OutputStreaming ==
    /\ outS = "wait"
    /\ outS' = "up"
    /\ uiq' = IF inStreamConnected \/ mic = "none" THEN Append(uiq, "success") ELSE uiq
    /\ UNCHANGED <<inS, window, nums, flags, buttons, link, mpc, late, word, mic, cases>>

(* A running stream fails: nobody is told.                                 *)
StreamError ==
    /\ "error" \in cases
    /\ mpc = "idle"
    /\ \/ inS = "up" /\ inS' = "error" /\ UNCHANGED outS
       \/ outS = "up" /\ outS' = "error" /\ UNCHANGED inS
    /\ UNCHANGED <<window, nums, flags, buttons, link, uiq, mpc, late, word, mic, cases>>

(* The device that is chosen goes: onRegistryRemove.                       *)
Unplug ==
    /\ "unplug" \in cases
    /\ mic = "chosen" /\ Room /\ ~Contains(uiq, "unplugged")
    /\ uiq' = Append(uiq, "unplugged")
    /\ UNCHANGED <<streams, nums, flags, buttons, link, mpc, late, word, mic, cases>>

(* onProcessInput with an open gate.  One drain loop is much shorter than  *)
(* the time between two callbacks.  A second note beside one that waits    *)
(* would find the ring drained.                                            *)
Capture ==
    /\ inStreamConnected
    /\ mpc # "idle" => ~late
    /\ window' = IF window + Quantum <= Capacity THEN window + Quantum ELSE window
    /\ uiq' = IF Contains(uiq, "written") THEN uiq ELSE Append(uiq, "written")
    /\ late' = (mpc # "idle")
    /\ UNCHANGED <<inS, outS, nums, flags, buttons, link, mpc, word, mic, cases>>

-----------------------------------------------------------------------------
(* The operations the main thread's handlers share.                        *)

ClearFlags ==
    /\ serverStarting' = FALSE
    /\ serverStarted' = FALSE

ClearNums == numIn' = 0 /\ numOut' = 0

(* StopAudio; the input stream reports its end through the queue.          *)
Destroyed(stream) == IF stream = "left" THEN "left" ELSE "none"

StopAudio(queue) ==
    /\ inS' = Destroyed(inS) /\ outS' = Destroyed(outS) /\ window' = 0
    /\ uiq' = IF inS \notin Absent THEN Append(queue, "end") ELSE queue

KeepAudio(queue) == uiq' = queue /\ UNCHANGED streams

(* What several handlers do before the window changes: stop what runs.     *)
StopIfRunning(queue) ==
    IF inStreamConnected \/ outStreamConnected
    THEN ClearFlags /\ ClearNums /\ StopAudio(queue)
    ELSE KeepAudio(queue) /\ UNCHANGED <<nums, flags>>

(* createInputStream, createOutputStream.                                  *)
Created ==
    {"wait"} \union (IF "refused" \in cases THEN {"none"} ELSE {})
             \union (IF "no stream" \in cases THEN {"left"} ELSE {})

(* StartAudio; a failed stream stays in the way.  An input stream that is  *)
(* refused reports its end.                                                *)
StartAudio ==
    IF inStreamConnected \/ outStreamConnected
    THEN UNCHANGED <<streams, uiq>>
    ELSE /\ inS' \in IF inS \in Absent /\ mic = "chosen" THEN Created ELSE {inS}
         /\ outS' \in IF outS \in Absent THEN Created ELSE {outS}
         /\ window' = IF inS \in Absent THEN 0 ELSE window
         /\ uiq' = IF mic = "chosen" /\ inS' = "none" THEN Append(uiq, "end") ELSE uiq

Buttons(start, stop) == buttonStart' = start /\ buttonStop' = stop

Send(m) == toServer' = IF opened THEN Append(toServer, m) ELSE toServer

-----------------------------------------------------------------------------
(* The user.                                                               *)

ClickStart ==
    /\ mpc = "idle" /\ buttonStart /\ Room /\ mic # "gone"
    /\ Contains(uiq, "written") \/ Contains(uiq, "end") => "overtake" \in cases
    /\ word' = "start"
    /\ Buttons(FALSE, TRUE)
    /\ StartAudio
    /\ UNCHANGED <<nums, flags, link, mpc, late, mic, cases>>

(* Mutant: a server that has not confirmed the start is not told to stop.  *)
ClickStopIfStarted ==
    /\ mpc = "idle" /\ buttonStop /\ Room
    /\ Contains(uiq, "success") => "overtake" \in cases
    /\ word = "stop" => "stop twice" \in cases
    /\ word' = "stop"
    /\ Buttons(FALSE, FALSE)
    /\ ClearFlags /\ ClearNums
    /\ IF serverStarted THEN Send("SERVER_STOP") ELSE UNCHANGED toServer
    /\ StopAudio(uiq)
    /\ UNCHANGED <<opened, server, mpc, late, mic, cases>>

ClickStop ==
    /\ mpc = "idle" /\ buttonStop /\ Room
    /\ Contains(uiq, "success") => "overtake" \in cases
    /\ word = "stop" => "stop twice" \in cases
    /\ word' = "stop"
    /\ Buttons(FALSE, FALSE)
    /\ ClearFlags /\ ClearNums
    /\ Send("SERVER_STOP")
    /\ StopAudio(uiq)
    /\ UNCHANGED <<opened, server, mpc, late, mic, cases>>

(* Another input device is chosen: SetActiveInput.  A stream that exists   *)
(* is swapped.                                                             *)
SwapInput ==
    /\ "swap" \in cases \/ mic # "chosen"
    /\ mpc = "idle" /\ Room /\ ~Contains(uiq, "unplugged")
    /\ mic' = "chosen"
    /\ IF inS \in Absent
       THEN mic # "chosen" /\ UNCHANGED <<inS, window, uiq>>
       ELSE inS' \in Created /\ window' = 0 /\ uiq' = Append(uiq, "end")
    /\ UNCHANGED <<outS, nums, flags, buttons, link, mpc, late, word, cases>>

-----------------------------------------------------------------------------
(* The main thread's handlers.                                             *)

Handle(signal) ==
    /\ mpc = "idle" /\ uiq # <<>>
    /\ Head(uiq) = signal

Quiet == UNCHANGED <<mpc, late, word, mic, cases>>

(* Mutants: a note that outlives its stream is taken at its word; the      *)
(* wrong flag decides.                                                     *)
OnWrittenUnchecked ==
    /\ Handle("written")
    /\ uiq' = Tail(uiq)
    /\ late' = FALSE
    /\ mpc' = IF serverStarted /\ numIn # 0 THEN "emit" ELSE "discard"
    /\ UNCHANGED <<streams, nums, flags, buttons, link, word, mic, cases>>

OnWrittenStarting ==
    /\ Handle("written")
    /\ uiq' = Tail(uiq)
    /\ late' = FALSE
    /\ mpc' = IF ~inStreamConnected THEN "idle"
              ELSE IF serverStarting /\ numIn # 0 THEN "emit" ELSE "discard"
    /\ UNCHANGED <<streams, nums, flags, buttons, link, word, mic, cases>>

(* onInputBufferWrite.                                                     *)
OnWritten ==
    /\ Handle("written")
    /\ uiq' = Tail(uiq)
    /\ late' = FALSE
    /\ mpc' = IF ~inStreamConnected THEN "idle"
              ELSE IF serverStarted /\ numIn # 0 THEN "emit" ELSE "discard"
    /\ UNCHANGED <<streams, nums, flags, buttons, link, word, mic, cases>>

(* Mutant: nothing is sent, and nothing read, while playback is down.      *)
EmitSamplesIfPlaying ==
    /\ mpc = "emit"
    /\ window >= numIn
    /\ window' = IF opened /\ outStreamConnected THEN window - numIn ELSE window
    /\ UNCHANGED <<inS, outS, nums, flags, buttons, link, uiq, mpc, late, word, mic, cases>>

EmitSamples ==
    /\ mpc = "emit"
    /\ window >= numIn
    /\ window' = IF opened THEN window - numIn ELSE window
    /\ UNCHANGED <<inS, outS, nums, flags, buttons, link, uiq, mpc, late, word, mic, cases>>

DiscardSamples ==
    /\ mpc = "discard"
    /\ window > numIn
    /\ window' = window - numIn
    /\ UNCHANGED <<inS, outS, nums, flags, buttons, link, uiq, mpc, late, word, mic, cases>>

Drained ==
    /\ \/ mpc = "emit" /\ window < numIn
       \/ mpc = "discard" /\ window <= numIn
    /\ mpc' = "idle"
    /\ late' = FALSE
    /\ UNCHANGED <<streams, nums, flags, buttons, link, uiq, word, mic, cases>>

(* Mutant: the length of an input chunk is not set.                        *)
OnSuccessNoLength ==
    /\ Handle("success")
    /\ uiq' = Tail(uiq)
    /\ numOut' = IF outStreamConnected THEN Chunk ELSE numOut
    /\ IF ~serverStarting /\ ~serverStarted /\ opened
       THEN Send("SERVER_START") /\ serverStarting' = TRUE
       ELSE UNCHANGED <<toServer, serverStarting>>
    /\ UNCHANGED <<streams, numIn, serverStarted, buttons, opened, server>>
    /\ Quiet

(* on_AudioStreamSuccess and on_AudioStreamEnd.                            *)
OnSuccess ==
    /\ Handle("success")
    /\ uiq' = Tail(uiq)
    /\ numIn' = IF inStreamConnected THEN Chunk ELSE numIn
    /\ numOut' = IF outStreamConnected THEN Chunk ELSE numOut
    /\ IF ~serverStarting /\ ~serverStarted /\ opened
       THEN Send("SERVER_START") /\ serverStarting' = TRUE
       ELSE UNCHANGED <<toServer, serverStarting>>
    /\ UNCHANGED <<streams, serverStarted, buttons, opened, server>>
    /\ Quiet

OnEnd ==
    /\ Handle("end")
    /\ uiq' = Tail(uiq)
    /\ ClearNums
    /\ UNCHANGED <<streams, flags, buttons, link>>
    /\ Quiet

(* on_InputDeviceRemoved, of the device in use.  The box shows no device;  *)
(* the provider forgets it if there is a connection.                       *)
OnUnplugged ==
    /\ Handle("unplugged")
    /\ IF opened
       THEN /\ ClearFlags /\ ClearNums
            /\ Send("SERVER_STOP")
            /\ StopAudio(Tail(uiq))
       ELSE KeepAudio(Tail(uiq)) /\ UNCHANGED <<nums, flags, toServer>>
    /\ mic' = IF opened THEN "none" ELSE "gone"
    /\ UNCHANGED <<buttons, opened, server, mpc, late, word, cases>>

(* onSioMessage: SERVER_STARTED, SERVER_STOPPED, SERVER_EXITING, SET_PARAMS *)
OnServerStarted ==
    /\ Handle("SERVER_STARTED")
    /\ uiq' = Tail(uiq)
    /\ serverStarting' = FALSE /\ serverStarted' = TRUE
    /\ Buttons(FALSE, TRUE)
    /\ UNCHANGED <<streams, nums, link>>
    /\ Quiet

(* Mutants: Stop stays offered; the flags stay.                            *)
OnServerStoppedKeepsStop ==
    /\ Handle("SERVER_STOPPED")
    /\ ClearFlags /\ ClearNums
    /\ StopAudio(Tail(uiq))
    /\ Buttons(TRUE, buttonStop)
    /\ UNCHANGED link
    /\ Quiet

OnServerStoppedKeepsFlags ==
    /\ Handle("SERVER_STOPPED")
    /\ ClearNums /\ UNCHANGED flags
    /\ StopAudio(Tail(uiq))
    /\ Buttons(TRUE, FALSE)
    /\ UNCHANGED link
    /\ Quiet

OnServerStopped ==
    /\ Handle("SERVER_STOPPED")
    /\ ClearFlags /\ ClearNums
    /\ StopAudio(Tail(uiq))
    /\ Buttons(TRUE, FALSE)
    /\ UNCHANGED link
    /\ Quiet

(* ui_ServerDisconnect: sync_close tells its listener through the queue,   *)
(* and what still runs is stopped.                                         *)
Disconnect ==
    /\ StopIfRunning(IF opened THEN Append(Tail(uiq), "close") ELSE Tail(uiq))
    /\ Buttons(FALSE, FALSE)
    /\ opened' = FALSE /\ toServer' = <<>>
    /\ server' = IF opened /\ server # "gone" THEN "stopped" ELSE server

OnServerExiting ==
    /\ Handle("SERVER_EXITING")
    /\ Disconnect
    /\ Quiet

OnParams ==
    /\ Handle("SET_PARAMS")
    /\ uiq' = Tail(uiq)
    /\ Buttons(TRUE, FALSE)
    /\ UNCHANGED <<streams, nums, flags, link>>
    /\ Quiet

(* onSamplesReceived: a chunk that is not of the expected length stops the *)
(* conversion.                                                             *)
OnAudioOut ==
    /\ Handle("AUDIO_OUT")
    /\ IF serverStarted /\ outStreamConnected /\ numOut # Chunk
       THEN /\ ClearFlags /\ ClearNums
            /\ Send("SERVER_STOP")
            /\ StopAudio(Tail(uiq))
       ELSE KeepAudio(Tail(uiq)) /\ UNCHANGED <<nums, flags, toServer>>
    /\ UNCHANGED <<buttons, opened, server>>
    /\ Quiet

(* onSioConnectClose, followed by ui_ServerDisconnect.                     *)
OnClose ==
    /\ Handle("close")
    /\ Disconnect
    /\ Quiet

Handler ==
    \/ OnWritten \/ OnSuccess \/ OnEnd \/ OnUnplugged
    \/ OnServerStarted \/ OnServerStopped \/ OnServerExiting
    \/ OnParams \/ OnAudioOut \/ OnClose

Loop == EmitSamples \/ DiscardSamples \/ Drained
Main == Handler \/ Loop

-----------------------------------------------------------------------------
(* The server, as docs/PROTOCOL.md and the handlers see it, and the link.  *)
Tell(m) == uiq' = IF opened THEN Append(uiq, m) ELSE uiq

ServerReceives ==
    /\ toServer # <<>>
    /\ toServer' = Tail(toServer)
    /\ \/ /\ server = "gone"
          /\ UNCHANGED <<server, uiq>>
       \/ /\ server # "gone"
          /\ Head(toServer) = "SERVER_START"
          /\ server' = IF server = "stopped" THEN "starting" ELSE server
          /\ UNCHANGED uiq
       \/ /\ server # "gone"
          /\ Head(toServer) = "SERVER_STOP"
          /\ server' = "stopped"
          /\ Tell("SERVER_STOPPED")
    /\ UNCHANGED <<streams, nums, flags, buttons, opened, mpc, late, word, mic, cases>>

ServerReady ==
    /\ server = "starting"
    /\ server' = "running"
    /\ Tell("SERVER_STARTED")
    /\ UNCHANGED <<streams, nums, flags, buttons, opened, toServer, mpc, late, word, mic, cases>>

ServerConverts ==
    /\ server = "running" /\ Room
    /\ Tell("AUDIO_OUT")
    /\ UNCHANGED <<streams, nums, flags, buttons, link, mpc, late, word, mic, cases>>

ServerFails ==
    /\ "fail" \in cases
    /\ server \in {"starting", "running"} /\ Room
    /\ server' = "stopped"
    /\ Tell("SERVER_STOPPED")
    /\ UNCHANGED <<streams, nums, flags, buttons, opened, toServer, mpc, late, word, mic, cases>>

ServerExits ==
    /\ "exit" \in cases
    /\ opened /\ server # "gone" /\ Room
    /\ server' = "gone" /\ toServer' = <<>>
    /\ Tell("SERVER_EXITING")
    /\ UNCHANGED <<streams, nums, flags, buttons, opened, mpc, late, word, mic, cases>>

(* The connection is lost; the client retries in silence, succeeds or      *)
(* gives up.  A server that lost its client converts nothing.              *)
Drop ==
    /\ "drop" \in cases
    /\ opened /\ Room
    /\ opened' = FALSE /\ toServer' = <<>>
    /\ server' = IF server = "gone" THEN server ELSE "stopped"
    /\ UNCHANGED <<streams, nums, flags, buttons, uiq, mpc, late, word, mic, cases>>

Reopen ==
    /\ {"drop", "exit"} \cap cases # {}
    /\ ~opened /\ Room
    /\ ~Contains(uiq, "SET_PARAMS") /\ ~Contains(uiq, "close")
    /\ opened' = TRUE /\ server' = "stopped"
    /\ uiq' = Append(uiq, "SET_PARAMS")
    /\ UNCHANGED <<streams, nums, flags, buttons, toServer, mpc, late, word, mic, cases>>

GiveUp ==
    /\ "drop" \in cases
    /\ ~opened /\ Room /\ ~Contains(uiq, "close")
    /\ uiq' = Append(uiq, "close")
    /\ UNCHANGED <<streams, nums, flags, buttons, link, mpc, late, word, mic, cases>>

-----------------------------------------------------------------------------
User == ClickStart \/ ClickStop \/ SwapInput
PipeWire == InputStreaming \/ OutputStreaming \/ StreamError \/ Unplug \/ Capture
Server == ServerReceives \/ ServerReady \/ ServerConverts \/ ServerFails \/ ServerExits
Network == Drop \/ Reopen \/ GiveUp

Next == User \/ PipeWire \/ Main \/ Server \/ Network

(* The event loop runs its handlers, PipeWire its callbacks, and the       *)
(* server answers what it is asked.  Users, faults and the network owe     *)
(* nothing.                                                                *)
Fairness ==
    /\ WF_vars(Handler) /\ WF_vars(Loop)
    /\ WF_vars(InputStreaming) /\ WF_vars(OutputStreaming) /\ WF_vars(Capture)
    /\ WF_vars(ServerReceives) /\ WF_vars(ServerReady)

Spec == Init /\ [][Next]_vars
FairSpec == Spec /\ Fairness

-----------------------------------------------------------------------------
Signals == {"written", "success", "end", "unplugged", "SERVER_STARTED", "SERVER_STOPPED",
            "SERVER_EXITING", "SET_PARAMS", "AUDIO_OUT", "close"}

Places ==
    /\ mic \in {"chosen", "none", "gone"}
    /\ inS \in {"none", "left", "wait", "up", "error"}
    /\ outS \in {"none", "left", "wait", "up", "error"}
    /\ mpc \in {"idle", "emit", "discard"}
    /\ server \in {"stopped", "starting", "running", "gone"}
    /\ word \in {"start", "stop"}

Lengths == window \in 0..Capacity /\ numIn \in {0, Chunk} /\ numOut \in {0, Chunk}

Flags ==
    /\ serverStarting \in BOOLEAN /\ serverStarted \in BOOLEAN
    /\ buttonStart \in BOOLEAN /\ buttonStop \in BOOLEAN
    /\ opened \in BOOLEAN /\ late \in BOOLEAN

Queues == uiq \in Seq(Signals) /\ toServer \in Seq({"SERVER_START", "SERVER_STOP"})

TypeOK == Places /\ Lengths /\ Flags /\ Queues

(* Notes of samples written and the message loop itself outlive the stream *)
(* they are about; the main thread never asks for the ring of a stream     *)
(* that is gone (assert in inBuffer, u_audioprovider.cpp:904).             *)
BufferExists == mpc # "idle" => inS \notin Absent

(* The two buttons are never offered together, whatever order the server's *)
(* answers, the user's clicks and the connection's events arrive in.       *)
OneButton == ~(buttonStart /\ buttonStop)

(* When nothing is on its way, the client believes of the conversion what  *)
(* is true at the server, and offers the button that fits, unless the link *)
(* was lost in between (the flags outlive it).                             *)
Settled == uiq = <<>> /\ toServer = <<>> /\ mpc = "idle" /\ opened
Linked == cases \cap {"drop", "exit"} = {}
Agreement ==
    Settled /\ Linked /\ server \in {"stopped", "running"} =>
        /\ serverStarted = (server = "running")
        /\ buttonStart \/ buttonStop
        /\ serverStarted => buttonStop

(* "Stop audio conversion (client initiated)" (docs/PROTOCOL.md:8): when   *)
(* the user's last word is Stop and nothing is on its way, the server does *)
(* not convert.  A streamStarted that the click overtakes in Qt's queue    *)
(* would start it again.                                                   *)
StopStops ==
    Settled /\ Linked /\ "overtake" \notin cases /\ word = "stop"
        => server = "stopped"

(* When a conversion runs and nothing is on its way, the streams that feed *)
(* it and play it exist, even if one of them failed.  The exceptions are   *)
(* two reasons to stop that cross (a second click, a server that stops by  *)
(* itself, an unplug, the Stop a hot-swap sends by mistake): the second    *)
(* SERVER_STOPPED ends the streams of the Start in between; and a          *)
(* streamStarted that a Stop overtakes.                                    *)
ConversionHasStreams ==
    /\ Settled /\ Linked /\ server = "running"
    /\ cases \cap {"stop twice", "fail", "unplug", "swap", "overtake"} = {}
    => inS \notin Absent /\ outS \notin Absent

(* onInputBufferWrite returns and the window stays alive: the loop that    *)
(* sends ends as long as there is a connection (without one EmitSamples    *)
(* reads nothing and the loop waits for ever).                             *)
EmitEnds == (mpc = "emit" /\ Linked) ~> (mpc = "idle")

(* So does the loop that discards ("while waiting for it to confirm that   *)
(* it is ready, discard any input", uwavclient.cpp:314).                   *)
DiscardEnds == (mpc = "discard") ~> (mpc = "idle")

(* It does as long as no note is handled between the start of the streams  *)
(* and their streamStarted, which sets the chunk length: with 0 for a      *)
(* length, discarding takes nothing off the ring.  That takes an input     *)
(* stream that is up first, or alone (the other was refused), a hot-swap,  *)
(* clicks that overtake signals, or clicks between two connections.        *)
Unhurried == cases \cap {"input first", "refused", "no stream", "swap", "overtake"} = {}
DiscardEndsInOrder ==
    (mpc = "discard" /\ Linked /\ Unhurried)
        ~> (mpc = "idle")

(* While a conversion runs, what the microphone delivers reaches the       *)
(* server: chunks keep being sent ("set the buffer to ensure we always     *)
(* have at least that much", u_ringbuffer.cpp:23).                         *)
Running == server = "running" /\ serverStarted /\ inStreamConnected /\ numIn = Chunk
ChunksFlow == <>[](Running /\ Linked) => []<><<EmitSamples>>_vars

(* "..and the stream is running so we need to do a hot-swap"               *)
(* (u_audioprovider.cpp:724): choosing another microphone does not end the *)
(* conversion; only the user, the server or the link does.                 *)
SwapKeepsConverting ==
    [][ Len(toServer') > Len(toServer) /\ Last(toServer') = "SERVER_STOP"
        => word' = "stop" ]_vars

(* "LEAK: Pipewire input buffer was not destroyed before re-creation."     *)
(* (the assertion at u_audioprovider.cpp:379, and at 463): no ring is made *)
(* over one that was left behind.                                          *)
RingDestroyed == [][inS = "left" => inS' = "left"]_vars

(* "Check for valid input/output endpoints" (uwavclient.cpp:237): what     *)
(* Start was clicked for has an input.                                     *)
ConvertsInput == Settled /\ Linked /\ server = "running" => mic # "none"

=============================================================================
