-------------------------- MODULE ConnectionProofs --------------------------
(***************************************************************************)
(* The websocket client, for every number of attempts and of signals, with *)
(* and without the races: its types, OpenedIsUp and OneAttempt, and that   *)
(* it implements Link.                                                     *)
(***************************************************************************)
EXTENDS Connection, TLAPS

(* connect() creates a thread only where there is none, and with it the    *)
(* only connect_impl in the loop's queue; a thread ends when nothing is    *)
(* left.                                                                   *)
StartsAlone ==
    /\ mpc = "start" => thread = "none"
    /\ thread # "running" => ws = "none" /\ timer = "none" /\ ~Queued("connect")
    /\ \A i, j \in 1..Len(tasks) : tasks[i] = "connect" /\ tasks[j] = "connect" => i = j
    /\ Queued("connect") => ws = "none" /\ timer = "none"

(* close() is on its way: the state says "closing", or there is no         *)
(* websocket that close_impl could find.                                   *)
CloseAsked ==
    \A i \in 1..Len(tasks) : tasks[i] = "close" =>
        /\ con # "opened"
        /\ \/ con = "closing"
           \/ /\ ws = "none" /\ timer = "none"
              /\ \A j \in 1..(i - 1) : tasks[j] # "connect"

(* The timer is armed for an attempt that is left.                         *)
AttemptLeft == timer # "none" => made < Attempts

IInv == TypeOK /\ OpenedIsUp /\ OneAttempt /\ StartsAlone /\ CloseAsked /\ AttemptLeft

-----------------------------------------------------------------------------
(* Types, one case for some actions.                                       *)

LEMMA StatesStep == TypeOK /\ [Next]_vars => States'
<1> SUFFICES ASSUME States, Queues, [Next]_vars PROVE States'
    BY DEF TypeOK
<1> USE DEF States, netVars, Cancelled, RequestClose, RetryOrTell
<1>1. CASE ClickCancel \/ ClickDisconnect \/ ClickConnect
    BY <1>1 DEF ClickCancel, ClickDisconnect, ClickConnect
<1>2. CASE ConnectCancelTimer \/ ConnectState \/ ConnectJoin
    BY <1>2 DEF ConnectCancelTimer, ConnectState, ConnectJoin
<1>3. CASE ConnectStart \/ Close \/ SyncClose
    BY <1>3 DEF ConnectStart, Close, SyncClose
<1>4. CASE SyncJoin \/ DisconnectOpened \/ DisconnectDone
    BY <1>4 DEF SyncJoin, DisconnectOpened, DisconnectDone
<1>5. CASE RunConnect \/ RunRejected \/ RunClose
    BY <1>5 DEF RunConnect, RunRejected, RunClose
<1>6. CASE WsOpen \/ PolicyClose \/ ServerParams
    BY <1>6 DEF WsOpen, PolicyClose, ServerParams
<1>7. CASE WsFail
    BY <1>7 DEF WsFail
<1>8. CASE Reconnect \/ Expire \/ LoopEnds
    BY <1>8 DEF Reconnect, Expire, LoopEnds
<1>9. CASE OnSignal
    <2>1. Head(uiq) \in Signals
        BY <1>9 DEF OnSignal, Queues
    <2>2. mpc' \in {mpc, "disconnect"}
        BY <1>9, <2>1, Zenon DEF OnSignal, Signals
    <2> QED
        BY <1>9, <2>2 DEF OnSignal
<1>10. ASSUME NEW normal \in BOOLEAN, WsClose(normal) PROVE States'
    BY <1>10 DEF WsClose
<1>11. CASE UNCHANGED vars
    BY <1>11 DEF vars
<1> QED
    BY <1>1, <1>2, <1>3, <1>4, <1>5, <1>6, <1>7, <1>8, <1>9, <1>10, <1>11
       DEF Next, User, Main, Network

LEMMA FlagsStep == TypeOK /\ [Next]_vars => Flags'
<1> SUFFICES ASSUME Flags, Queues, [Next]_vars PROVE Flags'
    BY DEF TypeOK
<1> USE DEF Flags, netVars, uiVars, RequestClose
<1>1. CASE ClickCancel \/ ClickDisconnect \/ ClickConnect
    BY <1>1, Zenon DEF ClickCancel, ClickDisconnect, ClickConnect
<1>2. CASE ConnectCancelTimer \/ ConnectState \/ ConnectJoin
    BY <1>2, Zenon DEF ConnectCancelTimer, ConnectState, ConnectJoin
<1>3. CASE ConnectStart \/ Close \/ SyncClose
    BY <1>3, Zenon DEF ConnectStart, Close, SyncClose
<1>4. CASE SyncJoin \/ DisconnectOpened \/ DisconnectDone
    BY <1>4, Zenon DEF SyncJoin, DisconnectOpened, DisconnectDone
<1>5. CASE RunConnect \/ RunRejected \/ RunClose
    BY <1>5, Zenon DEF RunConnect, RunRejected, RunClose
<1>6. CASE WsOpen \/ PolicyClose \/ ServerParams
    BY <1>6, Zenon DEF WsOpen, PolicyClose, ServerParams
<1>7. CASE WsFail
    BY <1>7, Zenon DEF WsFail
<1>8. CASE Reconnect \/ Expire \/ LoopEnds
    BY <1>8, Zenon DEF Reconnect, Expire, LoopEnds
<1>9. CASE OnSignal
    <2>1. Head(uiq) \in Signals
        BY <1>9 DEF OnSignal, Queues
    <2>2. abort' \in BOOLEAN /\ greeted' \in BOOLEAN /\ wanted' \in BOOLEAN
        BY <1>9, Zenon DEF OnSignal
    <2>3. CASE Head(uiq) \in {"fail", "close"}
        BY <1>9, <2>2, <2>3, Zenon DEF OnSignal
    <2>4. CASE Head(uiq) \in {"retry"}
        BY <1>9, <2>2, <2>4, Zenon DEF OnSignal
    <2>5. CASE Head(uiq) \in {"open"}
        BY <1>9, <2>2, <2>5, Zenon DEF OnSignal
    <2>6. CASE Head(uiq) \in {"params"}
        BY <1>9, <2>2, <2>6, Zenon DEF OnSignal
    <2> QED
        BY <2>1, <2>3, <2>4, <2>5, <2>6 DEF Signals
<1>10. ASSUME NEW normal \in BOOLEAN, WsClose(normal) PROVE Flags'
    BY <1>10, Zenon DEF WsClose
<1>11. CASE UNCHANGED vars
    BY <1>11, Zenon DEF vars
<1> QED
    BY <1>1, <1>2, <1>3, <1>4, <1>5, <1>6, <1>7, <1>8, <1>9, <1>10, <1>11
       DEF Next, User, Main, Network

LEMMA QueuesStep == TypeOK /\ [Next]_vars => Queues'
<1> SUFFICES ASSUME Queues, [Next]_vars PROVE Queues'
    BY DEF TypeOK
<1> USE DEF Queues, Signals, Emit, RequestClose, RetryOrTell
<1>1. CASE ClickCancel \/ ClickDisconnect \/ ClickConnect
    BY <1>1 DEF ClickCancel, ClickDisconnect, ClickConnect
<1>2. CASE ConnectCancelTimer \/ ConnectState \/ ConnectJoin
    BY <1>2 DEF ConnectCancelTimer, ConnectState, ConnectJoin
<1>3. CASE ConnectStart \/ Close \/ SyncClose
    BY <1>3 DEF ConnectStart, Close, SyncClose
<1>4. CASE SyncJoin \/ DisconnectOpened \/ DisconnectDone
    BY <1>4 DEF SyncJoin, DisconnectOpened, DisconnectDone
<1>5. CASE RunConnect \/ RunRejected \/ RunClose
    <2>1. Tail(tasks) \in Seq({"connect", "close"}) \/ tasks = <<>>
        OBVIOUS
    <2>2. tasks' = Tail(tasks) /\ tasks # <<>>
        BY <1>5 DEF RunConnect, RunRejected, RunClose
    <2>3. uiq' \in {uiq, Append(uiq, "fail")}
        BY <1>5, Zenon DEF RunConnect, RunRejected, RunClose
    <2> QED
        BY <2>1, <2>2, <2>3
<1>6. CASE WsOpen \/ PolicyClose \/ ServerParams
    BY <1>6 DEF WsOpen, PolicyClose, ServerParams
<1>7. CASE WsFail
    BY <1>7 DEF WsFail
<1>8. CASE Reconnect \/ Expire \/ LoopEnds
    BY <1>8 DEF Reconnect, Expire, LoopEnds
<1>9. CASE OnSignal
    BY <1>9 DEF OnSignal
<1>10. ASSUME NEW normal \in BOOLEAN, WsClose(normal) PROVE Queues'
    <2>1. tasks' = tasks /\ uiq' \in {uiq, Append(uiq, "close")}
        BY <1>10, Zenon DEF WsClose
    <2> QED
        BY <2>1
<1>11. CASE UNCHANGED vars
    BY <1>11 DEF vars
<1> QED
    BY <1>1, <1>2, <1>3, <1>4, <1>5, <1>6, <1>7, <1>8, <1>9, <1>10, <1>11
       DEF Next, User, Main, Network

LEMMA MadeStep ==
    TypeOK /\ AttemptLeft /\ [Next]_vars => made' \in 0..Attempts /\ AttemptLeft'
<1> SUFFICES ASSUME made \in 0..Attempts, AttemptLeft, [Next]_vars
             PROVE  made' \in 0..Attempts /\ AttemptLeft'
    BY DEF TypeOK
<1> USE ConnectionAssumption
    DEF ConnectionAssumption, AttemptLeft, netVars, Cancelled, RequestClose, RetryOrTell, DelayOver
<1>1. CASE ClickCancel \/ ClickDisconnect \/ ClickConnect
    BY <1>1 DEF ClickCancel, ClickDisconnect, ClickConnect
<1>2. CASE ConnectCancelTimer \/ ConnectState \/ ConnectJoin
    BY <1>2 DEF ConnectCancelTimer, ConnectState, ConnectJoin
<1>3. CASE ConnectStart \/ Close \/ SyncClose
    BY <1>3 DEF ConnectStart, Close, SyncClose
<1>4. CASE SyncJoin \/ DisconnectOpened \/ DisconnectDone
    BY <1>4 DEF SyncJoin, DisconnectOpened, DisconnectDone
<1>5. CASE RunConnect \/ RunRejected \/ RunClose
    BY <1>5 DEF RunConnect, RunRejected, RunClose
<1>6. CASE WsOpen \/ PolicyClose \/ ServerParams
    BY <1>6 DEF WsOpen, PolicyClose, ServerParams
<1>7. CASE WsFail
    BY <1>7 DEF WsFail
<1>8. CASE Reconnect \/ Expire \/ LoopEnds
    BY <1>8 DEF Reconnect, Expire, LoopEnds
<1>9. CASE OnSignal
    BY <1>9 DEF OnSignal
<1>10. ASSUME NEW normal \in BOOLEAN, WsClose(normal) PROVE (made \in 0..Attempts /\ AttemptLeft)'
    BY <1>10 DEF WsClose
<1>11. CASE UNCHANGED vars
    BY <1>11 DEF vars
<1> QED
    BY <1>1, <1>2, <1>3, <1>4, <1>5, <1>6, <1>7, <1>8, <1>9, <1>10, <1>11
       DEF Next, User, Main, Network

-----------------------------------------------------------------------------
(* The loop's queue, taken from and added to.                              *)
LEMMA TaskTaken ==
    ASSUME Queues, tasks # <<>>, tasks' = Tail(tasks)
    PROVE  /\ Len(tasks) \in Nat /\ Len(tasks') = Len(tasks) - 1
           /\ Head(tasks) = tasks[1] /\ 1 \in 1..Len(tasks)
           /\ \A i \in 1..Len(tasks') : tasks'[i] = tasks[i + 1] /\ i + 1 \in 1..Len(tasks)
    BY DEF Queues

LEMMA TaskAdded ==
    ASSUME Queues, NEW task \in {"connect", "close"}, tasks' = Append(tasks, task)
    PROVE  /\ Len(tasks) \in Nat /\ Len(tasks') = Len(tasks) + 1
           /\ tasks'[Len(tasks) + 1] = task
           /\ \A i \in 1..Len(tasks) : tasks'[i] = tasks[i]
    BY DEF Queues

Structure == OpenedIsUp /\ OneAttempt /\ StartsAlone /\ CloseAsked

(* A step that leaves the queue and the websocket alone, and arms nothing. *)
LEMMA QuietStep ==
    ASSUME IInv,
           tasks' = tasks, con' = con, ws' = ws,
           timer' # "none" => timer # "none",
           thread' # "running" => \/ thread # "running"
                                  \/ tasks = <<>> /\ ws = "none" /\ timer = "none",
           mpc' = "start" => thread' = "none"
    PROVE  Structure'
<1>1. OpenedIsUp' /\ OneAttempt'
    BY DEF IInv, OpenedIsUp, OneAttempt
<1>2. Queued("connect")' = Queued("connect") /\ (tasks = <<>> => ~Queued("connect"))
    BY DEF Queued
<1>3. StartsAlone'
    BY <1>2 DEF IInv, StartsAlone
<1>4. CloseAsked'
    BY DEF IInv, CloseAsked
<1> QED
    BY <1>1, <1>3, <1>4 DEF Structure

(* close(): whatever is done next, the state says "closing".               *)
LEMMA RequestStep ==
    ASSUME IInv, RequestClose, ws' = ws, timer' = timer, thread' = thread, mpc' # "start"
    PROVE  Structure'
<1>1. tasks' = Append(tasks, "close") /\ con' = "closing"
    BY DEF RequestClose
<1> USE TaskAdded, <1>1 DEF IInv, TypeOK
<1>2. OpenedIsUp' /\ OneAttempt' /\ CloseAsked'
    BY DEF OpenedIsUp, OneAttempt, CloseAsked
<1>3. Queued("connect")' => Queued("connect")
    BY DEF Queued
<1>4. StartsAlone'
    BY <1>3 DEF StartsAlone
<1> QED
    BY <1>2, <1>4 DEF Structure

LEMMA StartStep == ASSUME IInv, ConnectStart PROVE Structure'
<1>1. /\ thread = "none" /\ thread' = "running" /\ mpc' = "idle"
      /\ ws = "none" /\ timer = "none" /\ ws' = ws /\ timer' = timer
      /\ con' = "opening" /\ tasks' = Append(tasks, "connect")
    BY DEF ConnectStart, IInv, StartsAlone
<1>2. ~Queued("connect")
    BY <1>1 DEF IInv, StartsAlone
<1> USE TaskAdded, <1>1, <1>2 DEF IInv, TypeOK, Queued
<1>3. OpenedIsUp' /\ OneAttempt' /\ CloseAsked'
    BY DEF OpenedIsUp, OneAttempt, CloseAsked
<1>4. StartsAlone'
    BY DEF StartsAlone
<1> QED
    BY <1>3, <1>4 DEF Structure

(* connect_impl and close_impl.                                            *)
LEMMA TakeStep ==
    ASSUME IInv, RunConnect \/ RunRejected \/ RunClose
    PROVE  Structure'
<1>1. /\ thread = "running" /\ thread' = thread /\ con' = con /\ mpc' = mpc
      /\ tasks # <<>> /\ tasks' = Tail(tasks)
    BY DEF RunConnect, RunRejected, RunClose, netVars
<1>2. /\ Len(tasks) \in Nat /\ Len(tasks') = Len(tasks) - 1
      /\ Head(tasks) = tasks[1] /\ 1 \in 1..Len(tasks)
      /\ \A i \in 1..Len(tasks') : tasks'[i] = tasks[i + 1] /\ i + 1 \in 1..Len(tasks)
    BY <1>1, TaskTaken DEF IInv, TypeOK
<1>3. Queued("connect")' => Queued("connect")
    BY <1>2 DEF Queued
<1>4. mpc' # "start"
    BY <1>1 DEF IInv, StartsAlone
<1>5. CASE RunConnect \/ RunRejected
    <2>1. /\ tasks[1] = "connect" /\ Queued("connect")
          /\ timer' = timer /\ ws' \in {ws, "connecting"}
        BY <1>2, <1>5 DEF RunConnect, RunRejected, netVars, Queued
    <2>2. ws = "none" /\ timer = "none" /\ con # "opened"
        BY <2>1 DEF IInv, StartsAlone, OpenedIsUp
    <2>3. \A i \in 1..Len(tasks') : tasks'[i] # "connect"
        BY <1>2, <2>1 DEF IInv, StartsAlone
    <2>4. \A i \in 1..Len(tasks') : tasks'[i] = "close" => con = "closing"
        BY <1>2, <2>1 DEF IInv, CloseAsked
    <2>5. OpenedIsUp' /\ OneAttempt' /\ CloseAsked'
        BY <1>1, <2>1, <2>2, <2>4 DEF OpenedIsUp, OneAttempt, CloseAsked
    <2>6. StartsAlone'
        BY <1>1, <1>4, <2>3 DEF StartsAlone, Queued
    <2> QED
        BY <2>5, <2>6 DEF Structure
<1>6. CASE RunClose
    <2>1. /\ tasks[1] = "close"
          /\ timer' # "none" => timer' = timer
          /\ (ws' = ws) \/ (ws = "up" /\ ws' = "normal")
        <3>1. ws' = IF ws = "up" THEN "normal" ELSE ws
            BY <1>6 DEF RunClose
        <3>2. timer' = IF timer = "armed" THEN "none" ELSE timer
            BY <1>6 DEF RunClose, Cancelled
        <3>3. Head(tasks) = "close"
            BY <1>6 DEF RunClose
        <3>4. tasks[1] = "close"
            BY <1>2, <3>3
        <3>5. (ws' = ws) \/ (ws = "up" /\ ws' = "normal")
            BY <3>1
        <3>6. timer' # "none" => timer' = timer
            BY <3>2
        <3> QED
            BY <3>4, <3>5, <3>6
    <2>2. con # "opened"
        BY <1>2, <2>1 DEF IInv, CloseAsked
    <2>3. OpenedIsUp' /\ OneAttempt'
        BY <1>1, <2>1, <2>2 DEF IInv, OpenedIsUp, OneAttempt
    <2>4. ws = "none" => ws' = "none"
        BY <2>1
    <2>5. timer = "none" => timer' = "none"
        BY <2>1
    <2>6. CloseAsked'
        BY <1>1, <1>2, <2>4, <2>5 DEF IInv, CloseAsked
    <2>7. StartsAlone'
        BY <1>1, <1>2, <1>3, <1>4, <2>4, <2>5 DEF IInv, StartsAlone
    <2> QED
        BY <2>3, <2>6, <2>7 DEF Structure
<1> QED
    BY <1>5, <1>6

(* Events of a websocket that is there: nothing is in the way of it.       *)
LEMMA SocketStep ==
    ASSUME IInv, thread = "running", ws # "none", mpc # "start",
           tasks' = tasks, thread' = thread, mpc' = mpc,
           con = "closing" => con' \in {"closing", "closed"},
           con = "closing" => \/ ws' # "none" /\ con' = "closing"
                              \/ ws' = "none" /\ timer' = "none",
           con' = "opened" => ws' \in {"up", "policy"},
           timer' # "none" => ws' = "none"
    PROVE  Structure'
<1>1. timer = "none" /\ ~Queued("connect")
    BY DEF IInv, OneAttempt, StartsAlone
<1>2. OpenedIsUp' /\ OneAttempt'
    BY DEF OpenedIsUp, OneAttempt
<1>3. Queued("connect")' = Queued("connect")
    BY DEF Queued
<1>4. StartsAlone'
    BY <1>1, <1>3 DEF IInv, StartsAlone
<1>5. ASSUME NEW i \in 1..Len(tasks), tasks[i] = "close"
      PROVE  con = "closing" /\ \A j \in 1..(i - 1) : tasks[j] # "connect"
    BY <1>1, <1>5 DEF IInv, TypeOK, Queues, CloseAsked, Queued
<1>6. CloseAsked'
    BY <1>5 DEF CloseAsked
<1> QED
    BY <1>2, <1>4, <1>6 DEF Structure

(* An attempt of the client's own: nobody has asked for an end.            *)
LEMMA ReconnectStep == ASSUME IInv, Reconnect PROVE Structure'
<1>1. /\ thread = "running" /\ timer # "none" /\ ws = "none"
      /\ timer' = "none" /\ tasks' = tasks /\ thread' = thread /\ mpc' = mpc
    BY DEF Reconnect, DelayOver, IInv, OneAttempt
<1>2. mpc' # "start" /\ ~Queued("connect")
    BY <1>1 DEF IInv, StartsAlone
<1>3. \/ con' = con /\ ws' = ws
      \/ con = "closed" /\ con' = "opening" /\ ws' = "connecting"
    BY DEF Reconnect
<1>4. OpenedIsUp' /\ OneAttempt'
    BY <1>1, <1>3 DEF IInv, OpenedIsUp, OneAttempt
<1>5. StartsAlone'
    BY <1>1, <1>2 DEF IInv, StartsAlone, Queued
<1>6. CloseAsked'
    BY <1>1, <1>3 DEF IInv, CloseAsked
<1> QED
    BY <1>4, <1>5, <1>6 DEF Structure

LEMMA StructureStep == IInv /\ [Next]_vars => Structure'
<1> SUFFICES ASSUME IInv, [Next]_vars PROVE Structure'
    OBVIOUS
<1> USE DEF netVars, uiVars
<1>1. CASE ClickCancel \/ ClickDisconnect \/ ClickConnect \/ DisconnectOpened \/ DisconnectDone
    BY <1>1, QuietStep DEF ClickCancel, ClickDisconnect, ClickConnect, DisconnectOpened, DisconnectDone
<1>2. CASE ConnectCancelTimer
    BY <1>2, QuietStep DEF ConnectCancelTimer, Cancelled
<1>3. CASE ConnectState
    BY <1>3, QuietStep DEF ConnectState
<1>4. CASE ConnectJoin \/ SyncJoin
    BY <1>4, QuietStep DEF ConnectJoin, SyncJoin, IInv, StartsAlone
<1>5. CASE OnSignal
    <2>1. /\ tasks' = tasks /\ con' = con /\ ws' = ws /\ timer' = timer /\ thread' = thread
          /\ mpc = "idle" /\ Head(uiq) \in Signals
        BY <1>5 DEF OnSignal, IInv, TypeOK, Queues
    <2>2. mpc' # "start"
        BY <1>5, <2>1, Zenon DEF OnSignal, Signals
    <2> QED
        BY <2>1, <2>2, QuietStep
<1>6. CASE ConnectStart
    BY <1>6, StartStep
<1>7. CASE Close \/ SyncClose
    BY <1>7, RequestStep DEF Close, SyncClose
<1>8. CASE RunConnect \/ RunRejected \/ RunClose
    BY <1>8, TakeStep
<1>9. CASE ServerParams \/ Expire \/ LoopEnds
    BY <1>9, QuietStep DEF ServerParams, Expire, LoopEnds, DelayOver, IInv, StartsAlone
<1>10. mpc = "start" => thread = "none"
    BY DEF IInv, StartsAlone
<1>11. ws # "none" => timer = "none"
    BY DEF IInv, OneAttempt
<1>12. CASE WsOpen
    BY <1>10, <1>11, <1>12, SocketStep DEF WsOpen
<1>13. CASE WsFail
    BY <1>10, <1>11, <1>13, SocketStep DEF WsFail, Cancelled, RetryOrTell
<1>14. ASSUME NEW normal \in BOOLEAN, WsClose(normal) PROVE Structure'
    <2>1. /\ thread = "running" /\ ws # "none" /\ ws' = "none" /\ con' = "closed"
          /\ tasks' = tasks /\ thread' = thread /\ mpc' = mpc
        BY <1>14 DEF WsClose
    <2>2. con = "closing" => timer' = timer
        BY <1>14 DEF WsClose
    <2> QED
        BY <1>10, <1>11, <2>1, <2>2, SocketStep
<1>15. CASE PolicyClose
    BY <1>10, <1>11, <1>15, SocketStep DEF PolicyClose, Cancelled, IInv, OpenedIsUp
<1>16. CASE Reconnect
    BY <1>16, ReconnectStep
<1>17. CASE UNCHANGED vars
    BY <1>17, QuietStep DEF vars, IInv, StartsAlone
<1> QED
    BY <1>1, <1>2, <1>3, <1>4, <1>5, <1>6, <1>7, <1>8, <1>9, <1>12, <1>13, <1>14, <1>15, <1>16,
       <1>17 DEF Next, User, Main, Network

-----------------------------------------------------------------------------
LEMMA InitIInv == Init => IInv
<1> SUFFICES ASSUME Init PROVE IInv
    OBVIOUS
<1>1. States /\ Queues
    BY DEF Init, States, Queues
<1>2. Flags
    BY DEF Init, Flags
<1>3. made \in 0..Attempts /\ AttemptLeft
    BY ConnectionAssumption DEF ConnectionAssumption, Init, AttemptLeft
<1>4. Len(tasks) = 0
    BY DEF Init
<1>5. OpenedIsUp /\ OneAttempt /\ StartsAlone /\ CloseAsked
    BY <1>4 DEF Init, OpenedIsUp, OneAttempt, StartsAlone, CloseAsked, Queued
<1> QED
    BY <1>1, <1>2, <1>3, <1>5 DEF IInv, TypeOK

LEMMA NextIInv == IInv /\ [Next]_vars => IInv'
    BY StatesStep, FlagsStep, QueuesStep, MadeStep, StructureStep DEF IInv, TypeOK, Structure

LEMMA Invariant == Spec => []IInv
    BY InitIInv, NextIInv, PTL DEF Spec

(* Every variable keeps its type; the attempts never pass their bound.     *)
THEOREM TypesKept == Spec => []TypeOK
<1>1. IInv => TypeOK
    BY DEF IInv
<1> QED
    BY <1>1, Invariant, PTL

(* opened() never says so of a websocket that is gone: what the window's   *)
(* handlers emit goes to a socket that is there.                           *)
THEOREM OpenedIsThere == Spec => []OpenedIsUp
<1>1. IInv => OpenedIsUp
    BY DEF IInv
<1> QED
    BY <1>1, Invariant, PTL

(* No timer of an earlier loss runs beside an attempt or a connection.     *)
THEOREM OneAtATime == Spec => []OneAttempt
<1>1. IInv => OneAttempt
    BY DEF IInv
<1> QED
    BY <1>1, Invariant, PTL

-----------------------------------------------------------------------------
(* The client implements Link: what each action is there.                  *)
LEMMA LinkInit == Init => AbstractLink!Init
<1> SUFFICES ASSUME Init PROVE AbstractLink!Init
    OBVIOUS
<1>1. LinkState = "idle"
    BY DEF Init, LinkState, Queued
<1>2. greeted = FALSE /\ (con = "closing") = FALSE /\ made = 0 /\ uiq = <<>>
    BY DEF Init
<1> QED
    BY <1>1, <1>2 DEF AbstractLink!Init

(* While there is a timer or a websocket, no connect_impl is queued.       *)
LEMMA LinkNow ==
    ASSUME IInv
    PROVE  /\ timer # "none" => LinkState = "waiting"
           /\ ws = "connecting" => LinkState = "trying"
           /\ ws \in {"up", "normal", "policy"} => LinkState = "up"
           /\ thread # "running" => LinkState = "idle"
           /\ Queued("connect") => LinkState = "trying"
    BY DEF IInv, OneAttempt, StartsAlone, LinkState

LEMMA LinkSame ==
    ASSUME IInv, Queued("connect")' = Queued("connect"), ws' = ws,
           timer' = timer \/ (timer = "armed" /\ timer' = "fired")
    PROVE  LinkState' = LinkState
    BY DEF LinkState

(* The button and the handlers.                                            *)
LEMMA LinkMain ==
    ASSUME IInv, Main \/ User
    PROVE  AbstractLink!Next \/ UNCHANGED AbstractLink!vars
<1> USE DEF netVars, uiVars
<1>1. CASE ConnectCancelTimer
    <2>1. /\ ws' = ws /\ tasks' = tasks /\ con' = con /\ uiq' = uiq
          /\ made' = made /\ greeted' = greeted
        BY <1>1 DEF ConnectCancelTimer
    <2>2. CASE timer = "armed"
        <3>1. timer' = "none" /\ ws = "none" /\ ~Queued("connect")
            BY <1>1, <2>2 DEF ConnectCancelTimer, Cancelled, IInv, OneAttempt, StartsAlone
        <3>2. LinkState = "waiting" /\ LinkState' = "idle"
            BY <2>1, <2>2, <3>1, LinkNow DEF LinkState, Queued
        <3> QED
            BY <2>1, <3>2 DEF AbstractLink!GivesUp, AbstractLink!Next
    <2>3. CASE timer # "armed"
        <3>1. timer' = timer
            BY <1>1, <2>3 DEF ConnectCancelTimer, Cancelled
        <3>2. LinkState' = LinkState
            BY <2>1, <3>1, LinkSame DEF Queued
        <3> QED
            BY <2>1, <3>2 DEF AbstractLink!vars
    <2> QED
        BY <2>2, <2>3
<1>2. CASE ConnectStart
    <2>1. /\ tasks' = Append(tasks, "connect") /\ thread = "none"
          /\ con' = "opening" /\ made' = 0 /\ uiq' = uiq /\ greeted' = greeted
          /\ ws = "none" /\ ws' = ws
        BY <1>2 DEF ConnectStart, IInv, StartsAlone
    <2>2. Queued("connect")'
        BY <2>1, TaskAdded DEF IInv, TypeOK, Queued
    <2>3. LinkState = "idle" /\ LinkState' = "trying"
        BY <2>1, <2>2, LinkNow DEF LinkState
    <2> QED
        BY <2>1, <2>3 DEF AbstractLink!Connect, AbstractLink!Next
<1>3. CASE Close \/ SyncClose
    <2>1. /\ tasks' = Append(tasks, "close") /\ con' = "closing"
          /\ ws' = ws /\ timer' = timer /\ made' = made /\ greeted' = greeted /\ uiq' = uiq
        BY <1>3 DEF Close, SyncClose, RequestClose
    <2>2. Queued("connect")' = Queued("connect")
        BY <2>1, TaskAdded DEF IInv, TypeOK, Queued
    <2>3. LinkState' = LinkState
        BY <2>1, <2>2, LinkSame
    <2> QED
        BY <2>1, <2>3 DEF AbstractLink!End, AbstractLink!Next
<1>4. CASE OnSignal
    <2>1. /\ UNCHANGED <<con, made, greeted, tasks, ws, timer>>
          /\ uiq # <<>> /\ uiq' = Tail(uiq)
        BY <1>4 DEF OnSignal
    <2>2. LinkState' = LinkState
        BY <2>1, LinkSame DEF Queued
    <2> QED
        BY <2>1, <2>2 DEF AbstractLink!Heard, AbstractLink!Next
<1>5. ASSUME UNCHANGED <<con, made, greeted, tasks, ws, timer, uiq>>
      PROVE  UNCHANGED AbstractLink!vars
    <2>1. LinkState' = LinkState
        BY <1>5, LinkSame DEF Queued
    <2> QED
        BY <1>5, <2>1 DEF AbstractLink!vars
<1>6. CASE User
    BY <1>5, <1>6 DEF User, ClickCancel, ClickDisconnect, ClickConnect
<1>7. CASE ConnectState \/ ConnectJoin \/ SyncJoin \/ DisconnectOpened \/ DisconnectDone
    BY <1>5, <1>7 DEF ConnectState, ConnectJoin, SyncJoin, DisconnectOpened, DisconnectDone
<1> QED
    BY <1>1, <1>2, <1>3, <1>4, <1>6, <1>7 DEF Main

(* A connection or an attempt ends: another is to follow, or the window is *)
(* told.                                                                   *)
LEMMA LinkEnds ==
    ASSUME IInv, IInv', NEW signal \in Signals,
           con # "closing", con' = "closed", ws' = "none", timer = "none",
           RetryOrTell(signal), UNCHANGED <<made, greeted, tasks>>, ~Queued("connect")
    PROVE  AbstractLink!Ends(signal)
<1>1. ~Queued("connect")'
    BY DEF Queued
<1>2. CASE made < Attempts /\ ~abort
    <2>1. timer' = "armed" /\ uiq' = uiq
        BY <1>2 DEF RetryOrTell
    <2>2. LinkState' = "waiting"
        BY <1>1, <2>1 DEF LinkState
    <2> QED
        BY <1>2, <2>1, <2>2 DEF AbstractLink!Ends
<1>3. CASE ~(made < Attempts /\ ~abort)
    <2>1. timer' = "none" /\ uiq' = Append(uiq, signal)
        BY <1>3 DEF RetryOrTell, Emit
    <2>2. LinkState' = "idle"
        BY <1>1, <2>1 DEF LinkState
    <2> QED
        BY <2>1, <2>2 DEF AbstractLink!Ends, AbstractLink!Signal
<1> QED
    BY <1>2, <1>3

LEMMA LinkNetwork ==
    ASSUME IInv, IInv', Network
    PROVE  AbstractLink!Next \/ UNCHANGED AbstractLink!vars
<1> USE DEF netVars
<1>1. CASE RunConnect
    <2>1. /\ UNCHANGED <<con, made, greeted, uiq>> /\ ws' = "connecting"
          /\ tasks # <<>> /\ Head(tasks) = "connect"
        BY <1>1 DEF RunConnect
    <2>2. tasks[1] = "connect" /\ 1 \in 1..Len(tasks)
        BY <2>1 DEF IInv, TypeOK, Queues
    <2>3. LinkState = "trying" /\ LinkState' = "trying"
        BY <2>1, <2>2, LinkNow DEF LinkState, Queued
    <2> QED
        BY <2>1, <2>3 DEF AbstractLink!vars
<1>2. CASE RunRejected
    <2>1. /\ UNCHANGED <<con, made, greeted, ws, timer>> /\ uiq' = Append(uiq, "fail")
          /\ tasks # <<>> /\ Head(tasks) = "connect" /\ tasks' = Tail(tasks)
        BY <1>2 DEF RunRejected, Emit
    <2>2. tasks[1] = "connect" /\ 1 \in 1..Len(tasks)
        BY <2>1 DEF IInv, TypeOK, Queues
    <2>3. ~Queued("connect")'
        BY <2>1, <2>2, TaskTaken DEF IInv, TypeOK, StartsAlone, Queued
    <2>4. LinkState = "trying" /\ ws = "none" /\ timer = "none"
        BY <2>2, LinkNow DEF IInv, StartsAlone, Queued
    <2>5. LinkState' = "idle"
        BY <2>1, <2>3, <2>4 DEF LinkState
    <2> QED
        BY <2>1, <2>4, <2>5
        DEF AbstractLink!Fails, AbstractLink!Ends, AbstractLink!Signal, AbstractLink!Next
<1>3. CASE RunClose
    <2>1. /\ UNCHANGED <<con, made, greeted, uiq>>
          /\ tasks # <<>> /\ Head(tasks) = "close" /\ tasks' = Tail(tasks)
          /\ ws' = IF ws = "up" THEN "normal" ELSE ws
          /\ timer' = Cancelled
        BY <1>3 DEF RunClose
    <2>2. tasks[1] = "close" /\ 1 \in 1..Len(tasks) /\ Len(tasks) \in Nat
        BY <2>1 DEF IInv, TypeOK, Queues
    <2>3. Queued("connect")' <=> Queued("connect")
        <3>1. Queued("connect")' => Queued("connect")
            BY <2>1, TaskTaken DEF IInv, TypeOK, Queued
        <3>2. ASSUME NEW i \in 1..Len(tasks), tasks[i] = "connect"
              PROVE  i - 1 \in 1..Len(tasks') /\ tasks'[i - 1] = "connect"
            BY <2>1, <2>2, <3>2, TaskTaken DEF IInv, TypeOK
        <3> QED
            BY <3>1, <3>2 DEF Queued
    <2>4. CASE timer = "armed"
        <3>1. ws = "none" /\ ~Queued("connect") /\ timer' = "none" /\ ws' = "none"
            BY <2>1, <2>4 DEF IInv, OneAttempt, StartsAlone, Cancelled
        <3>2. LinkState = "waiting" /\ LinkState' = "idle"
            BY <2>3, <2>4, <3>1, LinkNow DEF LinkState
        <3> QED
            BY <2>1, <3>2 DEF AbstractLink!GivesUp, AbstractLink!Next
    <2>5. CASE timer # "armed"
        <3>1. timer' = timer
            BY <2>1, <2>5 DEF Cancelled
        <3>2. LinkState' = LinkState
            BY <2>1, <2>3, <3>1 DEF LinkState
        <3> QED
            BY <2>1, <3>2 DEF AbstractLink!vars
    <2> QED
        BY <2>4, <2>5
<1>4. CASE WsOpen
    <2>1. /\ ws = "connecting" /\ ws' = "up" /\ con # "closing" /\ con' = "opened"
          /\ made' = 0 /\ greeted' = FALSE /\ uiq' = Append(uiq, "open")
        BY <1>4 DEF WsOpen, Emit
    <2>2. LinkState = "trying" /\ LinkState' = "up"
        BY <2>1, LinkNow DEF LinkState
    <2> QED
        BY <2>1, <2>2 DEF AbstractLink!Opens, AbstractLink!Signal, AbstractLink!Next
<1>5. CASE WsFail
    <2>1. ws = "connecting" /\ ws' = "none" /\ UNCHANGED <<made, greeted, tasks>>
        BY <1>5 DEF WsFail
    <2>2. timer = "none" /\ ~Queued("connect") /\ LinkState = "trying"
        BY <2>1, LinkNow DEF IInv, OneAttempt, StartsAlone
    <2>3. CASE con = "closing"
        <3>1. con' = con /\ uiq' = uiq /\ timer' = "none"
            BY <1>5, <2>2, <2>3 DEF WsFail, Cancelled
        <3>2. LinkState' = "idle"
            BY <2>1, <2>2, <3>1 DEF LinkState, Queued
        <3> QED
            BY <2>1, <2>2, <2>3, <3>1, <3>2 DEF AbstractLink!Fails, AbstractLink!Next
    <2>4. CASE con # "closing"
        <3>1. con' = "closed" /\ RetryOrTell("fail")
            BY <1>5, <2>4 DEF WsFail
        <3>2. AbstractLink!Ends("fail")
            BY <2>1, <2>2, <2>4, <3>1, LinkEnds DEF Signals
        <3> QED
            BY <2>2, <3>2 DEF AbstractLink!Fails, AbstractLink!Next
    <2> QED
        BY <2>3, <2>4
<1>6. ASSUME NEW normal \in BOOLEAN, WsClose(normal)
      PROVE  AbstractLink!Next
    <2>1. /\ ws \in {"up", "normal", "policy"} /\ ws' = "none" /\ con' = "closed"
          /\ UNCHANGED <<made, greeted, tasks>>
        BY <1>6 DEF WsClose
    <2>2. timer = "none" /\ ~Queued("connect") /\ LinkState = "up"
        BY <2>1, LinkNow DEF IInv, OneAttempt, StartsAlone
    <2>3. CASE normal \/ con = "closing"
        <3>1. uiq' = Append(uiq, "close") /\ timer' = timer
            BY <1>6, <2>3, Zenon DEF WsClose, Emit
        <3>2. LinkState' = "idle"
            BY <2>1, <2>2, <3>1 DEF LinkState, Queued
        <3> QED
            BY <2>1, <2>2, <3>1, <3>2
            DEF AbstractLink!Closes, AbstractLink!Ends, AbstractLink!Signal, AbstractLink!Next
    <2>4. CASE ~(normal \/ con = "closing")
        <3>1. con # "closing" /\ RetryOrTell("close")
            BY <1>6, <2>4, Zenon DEF WsClose
        <3>2. AbstractLink!Ends("close")
            BY <2>1, <2>2, <3>1, LinkEnds DEF Signals
        <3> QED
            BY <2>2, <3>2 DEF AbstractLink!Closes, AbstractLink!Next
    <2> QED
        BY <2>3, <2>4
<1>7. CASE PolicyClose
    <2>1. /\ ws = "up" /\ ws' = "policy" /\ UNCHANGED <<con, made, greeted, uiq>>
        BY <1>7 DEF PolicyClose
    <2>2. LinkState = "up" /\ LinkState' = "up"
        BY <2>1 DEF LinkState
    <2> QED
        BY <2>1, <2>2 DEF AbstractLink!vars
<1>8. CASE ServerParams
    <2>1. /\ ws = "up" /\ ~greeted /\ greeted' = TRUE /\ uiq' = Append(uiq, "params")
          /\ UNCHANGED <<con, made, ws>>
        BY <1>8 DEF ServerParams, Emit
    <2>2. LinkState = "up" /\ LinkState' = "up"
        BY <2>1 DEF LinkState
    <2> QED
        BY <2>1, <2>2 DEF AbstractLink!Greets, AbstractLink!Signal, AbstractLink!Next
<1>9. CASE Reconnect
    <2>1. /\ timer # "none" /\ timer' = "none" /\ UNCHANGED <<tasks, greeted>>
        BY <1>9 DEF Reconnect, DelayOver
    <2>2. LinkState = "waiting" /\ ws = "none" /\ ~Queued("connect") /\ made < Attempts
        BY <2>1, LinkNow DEF IInv, OneAttempt, StartsAlone, AttemptLeft
    <2>3. CASE con = "closed"
        <3>1. con' = "opening" /\ made' = made + 1 /\ ws' = "connecting" /\ uiq' = Append(uiq, "retry")
            BY <1>9, <2>3 DEF Reconnect, Emit
        <3>2. LinkState' = "trying"
            BY <3>1 DEF LinkState
        <3> QED
            BY <2>1, <2>2, <2>3, <3>1, <3>2
            DEF AbstractLink!Retries, AbstractLink!Signal, AbstractLink!Next
    <2>4. CASE con # "closed"
        <3>1. UNCHANGED <<con, made, ws, uiq>>
            BY <1>9, <2>4 DEF Reconnect
        <3>2. LinkState' = "idle"
            BY <2>1, <2>2, <3>1 DEF LinkState, Queued
        <3> QED
            BY <2>1, <2>2, <3>1, <3>2 DEF AbstractLink!GivesUp, AbstractLink!Next
    <2> QED
        BY <2>3, <2>4
<1>10. CASE Expire \/ LoopEnds
    <2>1. /\ UNCHANGED <<con, made, greeted, tasks, ws, uiq>>
          /\ timer' = timer \/ (timer = "armed" /\ timer' = "fired")
        BY <1>10 DEF Expire, LoopEnds, DelayOver
    <2>2. LinkState' = LinkState
        BY <2>1, LinkSame DEF Queued
    <2> QED
        BY <2>1, <2>2 DEF AbstractLink!vars
<1> QED
    BY <1>1, <1>2, <1>3, <1>4, <1>5, <1>6, <1>7, <1>8, <1>9, <1>10 DEF Network

LEMMA LinkStep ==
    IInv /\ IInv' /\ [Next]_vars => [AbstractLink!Next]_(AbstractLink!vars)
<1> SUFFICES ASSUME IInv, IInv', [Next]_vars
             PROVE  AbstractLink!Next \/ UNCHANGED AbstractLink!vars
    OBVIOUS
<1>1. CASE UNCHANGED vars
    <2>1. UNCHANGED <<con, made, greeted, tasks, ws, timer, uiq>>
        BY <1>1 DEF vars, netVars
    <2>2. LinkState' = LinkState
        BY <2>1, LinkSame DEF Queued
    <2> QED
        BY <2>1, <2>2 DEF AbstractLink!vars
<1> QED
    BY <1>1, LinkMain, LinkNetwork DEF Next

(* What the client does is what Link allows: one connection at a time, at  *)
(* most Attempts attempts after a loss, and word of every end that was not *)
(* asked for.                                                              *)
THEOREM ClientIsLink == Spec => ImplementsLink
    BY LinkInit, LinkStep, Invariant, PTL DEF Spec, ImplementsLink, AbstractLink!Spec

=============================================================================
