----------------------------- MODULE Connection -----------------------------
(***************************************************************************)
(* The websocket client (sio/internal/sio_client_impl.cpp) and the Connect *)
(* button that drives it (uwavclient.cpp).                                 *)
(*                                                                         *)
(* Two threads.  The Qt main thread runs the button's handler and the      *)
(* signals the other thread queued for it (uiq); connect, close and        *)
(* sync_close run on it and may wait for the other thread (join).  The     *)
(* network thread, which connect creates, runs the asio loop: functions    *)
(* dispatched to it (tasks), the websocket's events and the reconnect      *)
(* timer, until there is nothing left to wait for.  m_con_state (con) is   *)
(* read and written by both without a lock.                                *)
(***************************************************************************)
EXTENDS Naturals, Sequences

CONSTANTS Attempts,      \* set_reconnect_attempts
          MaxSignals,    \* bound: the user connects and the network drops a
                         \* connection with at most this many signals waiting
          CaseSets       \* sets of Circumstances, one of which a behaviour admits

(* rejected: websocketpp may refuse the destination.                       *)
(* races: the network thread may act between two accesses the main thread  *)
(* makes in one handler.                                                   *)
Circumstances == {"rejected", "races"}

ASSUME ConnectionAssumption ==
    /\ Attempts \in Nat
    /\ MaxSignals \in Nat \ {0}
    /\ \A set \in CaseSets : set \subseteq Circumstances

VARIABLES con,           \* m_con_state
          made,          \* m_reconn_made
          abort,         \* m_abort_retries
          timer,         \* m_reconn_timer: "none", "armed", or "fired" (handler queued)
          tasks,         \* functions dispatched to the loop
          ws,            \* the websocket: "none", "connecting", "up", or being closed
                         \* by us, "normal" or "policy" being the code we gave
          greeted,       \* the server has sent SET_PARAMS on this connection
          thread,        \* m_network_thread: "none", "running", "ended"
          mpc,           \* where the main thread stands
          button,        \* buttonConnect is enabled
          retryState,    \* connectRetryState: the button reads "Cancel"
          connected,     \* ui_ServerConnect done: the button reads "Disconnect"
          uiq,           \* signals queued for the main thread
          wanted,        \* history: the user's last word was to connect
          cases          \* never changes: the circumstances admitted

netVars == <<made, timer, ws, greeted>>
uiVars == <<button, retryState, connected, wanted>>
vars == <<con, abort, tasks, thread, netVars, mpc, uiVars, uiq, cases>>

Signals == {"open", "close", "fail", "retry", "params"}

Room == Len(uiq) <= MaxSignals

(* Between a test of con and the access that relies on it, microseconds    *)
(* later, the network thread acts only in the runs that ask for it.        *)
Between == mpc \in {"connect", "close", "sync_close"}
Races == "races" \in cases
Calm == Between => Races

Emit(s) == uiq' = Append(uiq, s)

Init ==
    /\ con = "closed" /\ made = 0 /\ abort = FALSE
    /\ timer = "none" /\ tasks = <<>> /\ ws = "none" /\ greeted = FALSE
    /\ thread = "none"
    /\ mpc = "idle"
    /\ button = TRUE /\ retryState = FALSE /\ connected = FALSE
    /\ uiq = <<>> /\ wanted = FALSE
    /\ cases \in CaseSets

Cancelled == IF timer = "armed" THEN "none" ELSE timer

-----------------------------------------------------------------------------
(* Main thread: the button.                                                *)

(* "Cancel" while retrying: back to the disconnected window.               *)
ClickCancel ==
    /\ mpc = "idle" /\ button /\ retryState
    /\ retryState' = FALSE
    /\ wanted' = FALSE
    /\ button' = FALSE
    /\ mpc' = "disconnect"
    /\ UNCHANGED <<con, abort, tasks, thread, netVars, connected, uiq, cases>>

(* "Disconnect": opened() is tested here, close() comes next.              *)
ClickDisconnect ==
    /\ mpc = "idle" /\ button /\ ~retryState
    /\ con = "opened"
    /\ wanted' = FALSE
    /\ mpc' = "close"
    /\ UNCHANGED <<con, abort, tasks, thread, netVars, button, retryState, connected, uiq, cases>>

(* "Connect": AttemptConnectionTo with usable devices and a valid string.  *)
ClickConnect ==
    /\ mpc = "idle" /\ button /\ ~retryState
    /\ con # "opened" /\ Room
    /\ wanted' = TRUE
    /\ button' = FALSE
    /\ mpc' = "cancel_timer"
    /\ UNCHANGED <<con, abort, tasks, thread, netVars, retryState, connected, uiq, cases>>

(* Main thread: client_impl::connect.                                      *)
ConnectCancelTimer ==
    /\ mpc = "cancel_timer"
    /\ timer' = Cancelled
    /\ mpc' = "connect"
    /\ UNCHANGED <<con, abort, tasks, thread, made, ws, greeted, uiVars, uiq, cases>>

(* Mutant: the thread of a closed connection is not waited for.            *)
ConnectStateNoJoin ==
    /\ mpc = "connect"
    /\ mpc' = IF thread = "none" \/ con \in {"closing", "closed"} THEN "start" ELSE "idle"
    /\ UNCHANGED <<con, abort, tasks, thread, netVars, uiVars, uiq, cases>>

ConnectState ==
    /\ mpc = "connect"
    /\ mpc' = IF thread = "none" THEN "start"
              ELSE IF con \in {"closing", "closed"} THEN "join" ELSE "idle"
    /\ UNCHANGED <<con, abort, tasks, thread, netVars, uiVars, uiq, cases>>

ConnectJoin ==
    /\ mpc = "join"
    /\ thread = "ended"
    /\ thread' = "none"
    /\ mpc' = "start"
    /\ UNCHANGED <<con, abort, tasks, netVars, uiVars, uiq, cases>>

ConnectStart ==
    /\ mpc = "start"
    /\ con' = "opening"
    /\ made' = 0
    /\ abort' = FALSE
    /\ tasks' = Append(tasks, "connect")
    /\ thread' = "running"
    /\ mpc' = "idle"
    /\ UNCHANGED <<timer, ws, greeted, uiVars, uiq, cases>>

(* Main thread: client_impl::close and the first half of sync_close.       *)
RequestClose ==
    /\ con' = "closing"
    /\ abort' = TRUE
    /\ tasks' = Append(tasks, "close")

Close ==
    /\ mpc = "close"
    /\ RequestClose
    /\ mpc' = "idle"
    /\ UNCHANGED <<thread, netVars, uiVars, uiq, cases>>

(* Main thread: ui_ServerDisconnect, with sync_close if opened().          *)
DisconnectOpened ==
    /\ mpc = "disconnect"
    /\ con = "opened"
    /\ mpc' = "sync_close"
    /\ UNCHANGED <<con, abort, tasks, thread, netVars, uiVars, uiq, cases>>

SyncClose ==
    /\ mpc = "sync_close"
    /\ RequestClose
    /\ mpc' = "sync_join"
    /\ UNCHANGED <<thread, netVars, uiVars, uiq, cases>>

SyncJoin ==
    /\ mpc = "sync_join"
    /\ thread = "ended"
    /\ thread' = "none"
    /\ mpc' = "disconnected"
    /\ UNCHANGED <<con, abort, tasks, netVars, uiVars, uiq, cases>>

(* Mutant: the button is enabled only where there was a connection.        *)
DisconnectDoneIfConnected ==
    /\ \/ mpc = "disconnected"
       \/ mpc = "disconnect" /\ con # "opened"
    /\ button' = connected
    /\ connected' = FALSE
    /\ mpc' = "idle"
    /\ UNCHANGED <<con, abort, tasks, thread, netVars, retryState, uiq, wanted, cases>>

DisconnectDone ==
    /\ \/ mpc = "disconnected"
       \/ mpc = "disconnect" /\ con # "opened"
    /\ button' = TRUE
    /\ connected' = FALSE
    /\ mpc' = "idle"
    /\ UNCHANGED <<con, abort, tasks, thread, netVars, retryState, uiq, wanted, cases>>

(* Main thread: the signals of the network thread, in order.               *)
OnSignal ==
    /\ mpc = "idle"
    /\ uiq # <<>>
    /\ uiq' = Tail(uiq)
    /\ CASE Head(uiq) \in {"fail", "close"} ->
              /\ retryState' = IF Head(uiq) = "fail" THEN FALSE ELSE retryState
              /\ button' = FALSE
              /\ mpc' = "disconnect"
              /\ UNCHANGED connected
         [] Head(uiq) = "retry" ->
              /\ retryState' = (retryState \/ ~button)
              /\ button' = TRUE
              /\ UNCHANGED <<connected, mpc>>
         [] Head(uiq) = "open" ->
              /\ retryState' = FALSE
              /\ UNCHANGED <<button, connected, mpc>>
         [] Head(uiq) = "params" ->
              /\ connected' = TRUE
              /\ button' = TRUE
              /\ UNCHANGED <<retryState, mpc>>
    /\ UNCHANGED <<con, abort, tasks, thread, netVars, wanted, cases>>

Main ==
    \/ ConnectCancelTimer \/ ConnectState \/ ConnectJoin \/ ConnectStart
    \/ Close \/ DisconnectOpened \/ SyncClose \/ SyncJoin \/ DisconnectDone
    \/ OnSignal

User == ClickCancel \/ ClickDisconnect \/ ClickConnect

-----------------------------------------------------------------------------
(* Network thread.                                                         *)

(* connect_impl: the attempt starts, or websocketpp refuses the URI and    *)
(* only the listener is told.                                              *)
RunConnect ==
    /\ thread = "running"
    /\ tasks # <<>> /\ Head(tasks) = "connect"
    /\ tasks' = Tail(tasks)
    /\ ws' = "connecting"
    /\ UNCHANGED <<con, abort, thread, made, timer, greeted, mpc, uiVars, uiq, cases>>

RunRejected ==
    /\ "rejected" \in cases
    /\ thread = "running"
    /\ tasks # <<>> /\ Head(tasks) = "connect"
    /\ tasks' = Tail(tasks)
    /\ Emit("fail")
    /\ UNCHANGED <<con, abort, thread, netVars, mpc, uiVars, cases>>

(* Mutant: only the timer is stopped.                                      *)
RunCloseTimerOnly ==
    /\ thread = "running"
    /\ tasks # <<>> /\ Head(tasks) = "close"
    /\ tasks' = Tail(tasks)
    /\ timer' = Cancelled
    /\ UNCHANGED <<con, abort, thread, made, ws, greeted, mpc, uiVars, uiq, cases>>

(* close_impl: m_con is set while the websocket is up; closing it twice is *)
(* an error nobody looks at.                                               *)
RunClose ==
    /\ thread = "running"
    /\ tasks # <<>> /\ Head(tasks) = "close"
    /\ tasks' = Tail(tasks)
    /\ timer' = Cancelled
    /\ ws' = IF ws = "up" THEN "normal" ELSE ws
    /\ UNCHANGED <<con, abort, thread, made, greeted, mpc, uiVars, uiq, cases>>

(* on_open.  Between a test of opened() and the close() that follows it    *)
(* there is no time for an attempt, so con is never "closing" here.        *)
WsOpen ==
    /\ thread = "running" /\ Calm
    /\ ws = "connecting" /\ con # "closing"
    /\ con' = "opened"
    /\ ws' = "up"
    /\ made' = 0
    /\ greeted' = FALSE
    /\ Emit("open")
    /\ UNCHANGED <<abort, tasks, thread, timer, mpc, uiVars, cases>>

(* Mutant: giving up in silence.                                          *)
RetryOrNothing(signal) ==
    IF made < Attempts /\ ~abort
    THEN timer' = "armed" /\ UNCHANGED uiq
    ELSE UNCHANGED <<timer, uiq>>

(* What on_fail and on_close do with a connection that was not ended here: *)
(* arm the reconnect timer, or give up and tell the listener.              *)
RetryOrTell(signal) ==
    IF made < Attempts /\ ~abort
    THEN timer' = "armed" /\ UNCHANGED uiq
    ELSE Emit(signal) /\ UNCHANGED timer

(* on_fail; while closing it only closes again, and tells nobody.          *)
WsFail ==
    /\ thread = "running" /\ Calm
    /\ ws = "connecting"
    /\ ws' = "none"
    /\ IF con = "closing"
       THEN /\ abort' = TRUE
            /\ timer' = Cancelled
            /\ UNCHANGED <<con, uiq>>
       ELSE /\ con' = "closed"
            /\ RetryOrTell("fail")
            /\ UNCHANGED abort
    /\ UNCHANGED <<tasks, thread, made, greeted, mpc, uiVars, cases>>

(* Mutant: the state is left alone when the reconnect timer will set it.   *)
WsCloseKeepsState(normal) ==
    /\ thread = "running" /\ Calm
    /\ ws \in {"up", "normal", "policy"}
    /\ ws = "up" => Room
    /\ ws = "normal" => normal
    /\ ws = "policy" => ~normal
    /\ ws' = "none"
    /\ IF normal \/ con = "closing"
       THEN con' = "closed" /\ Emit("close") /\ UNCHANGED timer
       ELSE RetryOrTell("close") /\ UNCHANGED con
    /\ UNCHANGED <<abort, tasks, thread, made, greeted, mpc, uiVars, cases>>

(* on_close, with the code our side of the connection closed with.         *)
WsClose(normal) ==
    /\ thread = "running" /\ Calm
    /\ ws \in {"up", "normal", "policy"}
    /\ ws = "up" => Room
    /\ ws = "normal" => normal
    /\ ws = "policy" => ~normal
    /\ ws' = "none"
    /\ con' = "closed"
    /\ IF normal \/ con = "closing"
       THEN Emit("close") /\ UNCHANGED timer
       ELSE RetryOrTell("close")
    /\ UNCHANGED <<abort, tasks, thread, made, greeted, mpc, uiVars, cases>>

(* The ping timer, a bad handshake or a close frame of the server: our     *)
(* side closes with a code that is not `normal'; m_con_state stays.        *)
PolicyClose ==
    /\ thread = "running" /\ Room
    /\ ws = "up"
    /\ ws' = "policy"
    /\ timer' = Cancelled
    /\ UNCHANGED <<con, abort, tasks, thread, made, greeted, mpc, uiVars, uiq, cases>>

(* The server answers GET_PARAMS; ui_ServerConnect unlocks the window.     *)
ServerParams ==
    /\ thread = "running"
    /\ ws = "up" /\ ~greeted
    /\ greeted' = TRUE
    /\ Emit("params")
    /\ UNCHANGED <<con, abort, tasks, thread, made, timer, ws, mpc, uiVars, cases>>

(* The delay before an attempt is seconds long: it does not run out while  *)
(* the main thread is between two accesses.                                *)
DelayOver == timer = "armed" /\ ~Between

(* timeout_reconnect and the connect_impl it dispatches.                   *)
Reconnect ==
    /\ thread = "running" /\ Calm
    /\ IF Races THEN timer = "fired" ELSE DelayOver
    /\ timer' = "none"
    /\ IF con = "closed"
       THEN /\ con' = "opening"
            /\ made' = made + 1
            /\ ws' = "connecting"
            /\ Emit("retry")
       ELSE UNCHANGED <<con, made, ws, uiq>>
    /\ UNCHANGED <<abort, tasks, thread, greeted, mpc, uiVars, cases>>

(* The delay is over and the handler is in the loop's queue, out of reach  *)
(* of a cancel.                                                            *)
Expire ==
    /\ Races
    /\ DelayOver
    /\ timer' = "fired"
    /\ UNCHANGED <<con, abort, tasks, thread, made, ws, greeted, mpc, uiVars, uiq, cases>>

(* run() returns when the loop has nothing left to wait for.               *)
LoopEnds ==
    /\ thread = "running"
    /\ tasks = <<>> /\ ws = "none" /\ timer = "none"
    /\ thread' = "ended"
    /\ UNCHANGED <<con, abort, tasks, netVars, mpc, uiVars, uiq, cases>>

Network ==
    \/ RunConnect \/ RunRejected \/ RunClose
    \/ WsOpen \/ WsFail \/ \E normal \in BOOLEAN : WsClose(normal)
    \/ PolicyClose \/ ServerParams \/ Reconnect \/ Expire \/ LoopEnds

Next == User \/ Main \/ Network

(* Each thread keeps running; an attempt succeeds or fails; a close we     *)
(* started ends (websocketpp bounds the handshake); a server that accepts  *)
(* the connection answers GET_PARAMS or the connection ends.  The user and *)
(* an established connection owe nothing.                                  *)
Fairness ==
    /\ WF_vars(Main)
    /\ WF_vars(RunConnect \/ RunRejected \/ RunClose)
    /\ WF_vars(WsOpen \/ WsFail)
    /\ WF_vars(ws \in {"normal", "policy"} /\ \E normal \in BOOLEAN : WsClose(normal))
    /\ WF_vars(ServerParams)
    /\ WF_vars(Reconnect)
    /\ WF_vars(Expire)
    /\ WF_vars(LoopEnds)

Spec == Init /\ [][Next]_vars
FairSpec == Spec /\ Fairness

-----------------------------------------------------------------------------
States ==
    /\ con \in {"opening", "opened", "closing", "closed"}
    /\ timer \in {"none", "armed", "fired"}
    /\ ws \in {"none", "connecting", "up", "normal", "policy"}
    /\ thread \in {"none", "running", "ended"}
    /\ mpc \in {"idle", "cancel_timer", "connect", "join", "start", "close",
                "disconnect", "sync_close", "sync_join", "disconnected"}

Flags ==
    /\ abort \in BOOLEAN /\ greeted \in BOOLEAN /\ wanted \in BOOLEAN
    /\ button \in BOOLEAN /\ retryState \in BOOLEAN /\ connected \in BOOLEAN

Queues == tasks \in Seq({"connect", "close"}) /\ uiq \in Seq(Signals)

TypeOK == States /\ Flags /\ Queues /\ made \in 0..Attempts

(* Emit and the drain loops of the main thread rely on opened(): it never  *)
(* says so of a websocket that is gone.                                    *)
OpenedIsUp == con = "opened" => ws \in {"up", "policy"}

(* Only one thing at a time makes the loop reconnect: there is no armed    *)
(* timer beside an attempt or a connection, so a lost connection never     *)
(* grows into two.                                                         *)
OneAttempt == timer # "none" => ws = "none"

Queued(task) == \E i \in 1..Len(tasks) : tasks[i] = task

(* Seen from the rest of the program, an attempt starts with connect().    *)
LinkState ==
    IF ws \in {"up", "normal", "policy"} THEN "up"
    ELSE IF ws = "connecting" \/ Queued("connect") THEN "trying"
    ELSE IF timer # "none" THEN "waiting" ELSE "idle"

AbstractLink ==
    INSTANCE Link WITH link <- LinkState, tries <- made, ending <- (con = "closing"),
                       signals <- uiq

(* Whatever the two threads do, the rest of the program sees one           *)
(* connection at a time, at most Attempts attempts after a loss, and word  *)
(* of every end that was not asked for, in order.                          *)
ImplementsLink == AbstractLink!Spec

(* Each time the connection is lost the client makes at most Attempts      *)
(* attempts, then tells the window: the window never shows a lost          *)
(* connection as connected for ever.  (With the race, a click on           *)
(* Disconnect that crosses the loss may: close() then finds nothing to     *)
(* close and no signal is sent.)                                           *)
LossIsShown ==
    (connected /\ con = "closed" /\ ~Races) ~> (~connected \/ con = "opened")

(* A click never leaves the window without a button: whatever becomes of   *)
(* the connection, it is enabled again.  A destination that websocketpp    *)
(* refuses is an exception: the loop then has nothing to wait for, m_con_  *)
(* state stays "opening", and the next connect() returns without a word;   *)
(* so is a main thread that hangs.                                         *)
ButtonReturns == (~button /\ cases = {}) ~> button

(* The joins of connect and sync_close end: the main thread comes back to  *)
(* the window ("in closed case,join will return immediately",              *)
(* sio_client_impl.cpp:94-96).  An expired reconnect timer whose handler   *)
(* runs between the test of m_con_state and the join is an exception: the  *)
(* loop then has a connection to keep.                                     *)
MainReturns == (mpc # "idle" /\ ~Races) ~> (mpc = "idle")

(* "Button is in Cancel mode during connection attempt"                    *)
(* (uwavclient.cpp:1740): once the user has cancelled or disconnected, the *)
(* client does not start another attempt of its own.                       *)
CancelStops == [][ made' > made => wanted ]_vars

=============================================================================
