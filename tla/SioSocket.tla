----------------------------- MODULE SioSocket ------------------------------
(***************************************************************************)
(* The socket of the namespace "/" (sio/sio_socket.cpp), with as much of   *)
(* its client as it needs: when a link to the server opens, the socket     *)
(* asks to join its namespace; what the window emits meanwhile waits in    *)
(* m_packet_queue.                                                         *)
(*                                                                         *)
(* Two threads.  The main thread emits: its packets are posted to asio's   *)
(* loop.  The network thread runs the loop, first in, first out: posted    *)
(* packets, packets that have come, timers that have expired.  What it     *)
(* emits itself, when the namespace is joined, goes out at once.           *)
(* m_connected is read and written by both without a lock; the queue has a *)
(* mutex, taken for one packet at a time.                                  *)
(***************************************************************************)
EXTENDS Naturals, Sequences, SequencesExt, FiniteSets

CONSTANTS MaxLinks,      \* bound: links that open in one behaviour
          MaxEmits,      \* bound: messages emitted in one behaviour
          MaxLoop,       \* bound: what the network and the timers put in the loop
          Greetings,     \* messages onSioSocketOpen emits, GET_PARAMS the first
          CaseSets       \* sets of Circumstances, one of which a behaviour admits

(* slow:  the connection timer may expire, with the answer on its way or   *)
(*        already in the loop                                              *)
(* leave: the server may disconnect the namespace                          *)
(* races: the threads may interleave within one emit and one on_connected  *)
Circumstances == {"slow", "leave", "races"}

ASSUME SocketAssumption ==
    /\ MaxLinks \in Nat \ {0} /\ MaxEmits \in Nat /\ MaxLoop \in Nat
    /\ Greetings \in Nat \ {0}
    /\ \A set \in CaseSets : set \subseteq Circumstances

VARIABLES con,           \* m_con_state; "opening" is "closed" here
          link,          \* history: links opened
          aborted,       \* m_abort_retries: the next link is a new connect()
          nsp,           \* at the server: "none", "asked", "joined", "again" (joined and asked)
          wire,          \* history: the messages sent on this link
          loop,          \* what the network thread is to run
          there,         \* m_sockets has the socket
          connected,     \* m_connected
          queue,         \* m_packet_queue
          listening,     \* on_any is bound
          timer,         \* m_connection_timer: "none", "join" (20 s), "leave" (3 s)
          draining,      \* the network thread is in the loop of on_connected
          uiq,           \* signals queued for the main thread
          todo,          \* what the main thread's handler still has to emit
          inEmit,        \* where it stands in send_packet: "no", "drain", "push"
          unlocked,      \* ui_ServerConnect done
          emitted,       \* history: messages given to emit
          lost,          \* history: of them, those up to here may be lost
          cases          \* never changes: the circumstances admitted

conVars == <<con, link, aborted>>
serverVars == <<nsp, wire>>
socketVars == <<there, connected, queue, listening, timer>>
mainVars == <<todo, inEmit, unlocked, emitted>>
vars == <<conVars, serverVars, loop, socketVars, draining, uiq, mainVars, lost, cases>>

Races == "races" \in cases
Room == Len(uiq) < 2
Belongs == nsp \in {"joined", "again"}

(* What may be in the loop: a packet posted, a packet come, a timer.       *)
Message(id, kind) == [id |-> id, kind |-> kind]
Join == Message(0, "join")
Answer == Message(0, "answer")
Leave == Message(0, "leave")
Timeout == Message(0, "timeout")
Stale == Message(0, "stale")

Init ==
    /\ con = "closed" /\ link = 0 /\ aborted = TRUE
    /\ nsp = "none" /\ wire = <<>> /\ loop = <<>>
    /\ there = FALSE /\ connected = FALSE /\ queue = <<>> /\ listening = FALSE
    /\ timer = "none" /\ draining = FALSE
    /\ uiq = <<>> /\ todo = <<>> /\ inEmit = "no" /\ unlocked = FALSE
    /\ emitted = 0 /\ lost = 0
    /\ cases \in CaseSets

-----------------------------------------------------------------------------
(* Main thread.                                                            *)

Idle == inEmit = "no" /\ todo = <<>>
NetworkRests == draining => Races

Signalled(signal) ==
    /\ Idle /\ NetworkRests
    /\ uiq # <<>> /\ Head(uiq) = signal /\ uiq' = Tail(uiq)

(* client_impl::socket creates a socket that is not there; its constructor *)
(* asks to join if there is a link.                                        *)
Lookup ==
    IF there THEN UNCHANGED <<there, connected, queue, loop, timer>>
    ELSE /\ there' = TRUE /\ connected' = FALSE /\ queue' = <<>>
         /\ loop' = IF con = "opened" THEN Append(loop, Join) ELSE loop
         /\ timer' = IF con = "opened" THEN "join" ELSE "none"

(* What onSioSocketOpen emits: GET_PARAMS, GET_DEVICES, ...                *)
Greeting == [k \in 1..Greetings |-> Message(emitted + k, IF k = 1 THEN "params" ELSE "other")]

(* Mutant: the listeners are bound once, to the first socket.              *)
OnSocketOpenOnce ==
    /\ Signalled("open") /\ emitted + Greetings <= MaxEmits
    /\ Lookup
    /\ listening' = (emitted = 0 \/ listening)
    /\ todo' = Greeting /\ emitted' = emitted + Greetings
    /\ UNCHANGED <<conVars, serverVars, draining, inEmit, unlocked, lost, cases>>

(* onSioSocketOpen binds the listeners, then emits; it sleeps in between.  *)
OnSocketOpen ==
    /\ Signalled("open") /\ emitted + Greetings <= MaxEmits
    /\ Lookup
    /\ listening' = TRUE
    /\ todo' = Greeting /\ emitted' = emitted + Greetings
    /\ UNCHANGED <<conVars, serverVars, draining, inEmit, unlocked, lost, cases>>

(* Mutant: the handler does not touch a socket that is gone.               *)
OnSocketCloseNoLookup ==
    /\ Signalled("close")
    /\ UNCHANGED <<conVars, serverVars, loop, socketVars, draining, mainVars, lost, cases>>

(* onSioSocketClose calls off_all on socket(), which makes a new one; the  *)
(* listener of on_any is not among those it removes.                       *)
OnSocketClose ==
    /\ Signalled("close")
    /\ Lookup
    /\ listening' = (there /\ listening)
    /\ UNCHANGED <<conVars, serverVars, draining, mainVars, lost, cases>>

(* SET_PARAMS unlocks the window.                                          *)
OnParams ==
    /\ Signalled("params")
    /\ unlocked' = TRUE
    /\ UNCHANGED <<conVars, serverVars, loop, socketVars, draining, todo, inEmit, emitted,
                   lost, cases>>

(* A slider, a button or a chunk of samples, if opened().                  *)
Use ==
    /\ Idle /\ unlocked
    /\ con = "opened" /\ emitted < MaxEmits
    /\ emitted' = emitted + 1
    /\ todo' = <<Message(emitted + 1, "other")>>
    /\ UNCHANGED <<conVars, serverVars, loop, socketVars, draining, uiq, inEmit, unlocked,
                   lost, cases>>

(* Emit: the socket, and what send_packet reads in m_connected.            *)
Emit ==
    /\ inEmit = "no" /\ todo # <<>> /\ NetworkRests
    /\ Lookup
    /\ listening' = (there /\ listening)
    /\ inEmit' = IF there /\ connected THEN "drain" ELSE "push"
    /\ UNCHANGED <<conVars, serverVars, draining, uiq, todo, unlocked, emitted, lost, cases>>

(* Mutant: a packet is sent before the next one's turn, and stays.         *)
EmitDrainKeeps ==
    /\ inEmit = "drain" /\ queue # <<>> /\ Len(loop) < MaxEmits
    /\ loop' = Append(loop, Head(queue))
    /\ UNCHANGED <<conVars, serverVars, socketVars, draining, uiq, mainVars, lost, cases>>

EmitDrain ==
    /\ inEmit = "drain" /\ queue # <<>>
    /\ loop' = Append(loop, Head(queue)) /\ queue' = Tail(queue)
    /\ UNCHANGED <<conVars, serverVars, there, connected, listening, timer, draining, uiq,
                   mainVars, lost, cases>>

EmitSend ==
    /\ inEmit = "drain" /\ queue = <<>>
    /\ loop' = Append(loop, Head(todo)) /\ todo' = Tail(todo)
    /\ inEmit' = "no"
    /\ UNCHANGED <<conVars, serverVars, socketVars, draining, uiq, unlocked, emitted, lost,
                   cases>>

(* Mutant: the queue is a stack.                                           *)
EmitPushFront ==
    /\ inEmit = "push"
    /\ queue' = <<Head(todo)>> \o queue /\ todo' = Tail(todo)
    /\ inEmit' = "no"
    /\ UNCHANGED <<conVars, serverVars, loop, there, connected, listening, timer, draining,
                   uiq, unlocked, emitted, lost, cases>>

EmitPush ==
    /\ inEmit = "push"
    /\ queue' = Append(queue, Head(todo)) /\ todo' = Tail(todo)
    /\ inEmit' = "no"
    /\ UNCHANGED <<conVars, serverVars, loop, there, connected, listening, timer, draining,
                   uiq, unlocked, emitted, lost, cases>>

(* ui_ServerDisconnect looks the socket up, then closes: client_impl::close *)
(* sets m_con_state first, so that what the socket's close sends (what     *)
(* waited, and a disconnect packet) goes nowhere.                          *)
Close ==
    /\ Idle /\ NetworkRests /\ unlocked
    /\ con = "opened"
    /\ con' = "closing" /\ aborted' = TRUE /\ unlocked' = FALSE
    /\ listening' = (there /\ listening)
    /\ \/ /\ there /\ connected
          /\ loop' = loop \o queue /\ queue' = <<>> /\ timer' = "leave"
          /\ UNCHANGED <<there, connected>>
       \/ ~(there /\ connected) /\ Lookup
    /\ lost' = emitted
    /\ UNCHANGED <<link, serverVars, draining, uiq, todo, inEmit, emitted, cases>>

(* The window is told that the client has given up: ui_ServerDisconnect.   *)
GiveUp ==
    /\ Idle /\ unlocked
    /\ con = "closed"
    /\ unlocked' = FALSE /\ aborted' = TRUE
    /\ UNCHANGED <<con, link, serverVars, loop, socketVars, draining, uiq, todo, inEmit,
                   emitted, lost, cases>>

Main == OnSocketOpen \/ OnSocketClose \/ OnParams \/ Emit \/ EmitDrain \/ EmitSend \/ EmitPush
User == Use \/ Close \/ GiveUp

-----------------------------------------------------------------------------
(* The network: what it puts in the loop.                                  *)

Arrives(what) == Len(loop) < MaxLoop /\ loop' = Append(loop, what)

ServerAnswers ==
    /\ con = "opened" /\ nsp \in {"asked", "again"}
    /\ Arrives(Answer)
    /\ nsp' = "joined"
    /\ UNCHANGED <<conVars, wire, socketVars, draining, uiq, mainVars, lost, cases>>

ServerLeaves ==
    /\ "leave" \in cases
    /\ con = "opened" /\ Belongs
    /\ Arrives(Leave)
    /\ nsp' = "none"
    /\ UNCHANGED <<conVars, wire, socketVars, draining, uiq, mainVars, lost, cases>>

(* In 20 s the loop has run what was posted before.                        *)
JoinExpires ==
    /\ "slow" \in cases \/ con # "opened"
    /\ timer = "join" /\ ~Contains(loop, Join)
    /\ Arrives(Timeout)
    /\ timer' = "none"
    /\ UNCHANGED <<conVars, serverVars, there, connected, queue, listening, draining, uiq,
                   mainVars, lost, cases>>

(* The server answers GET_PARAMS.                                          *)
ServerParams ==
    /\ con = "opened" /\ connected /\ listening /\ ~unlocked /\ Room
    /\ \E i \in DOMAIN wire : wire[i].sent.kind = "params"
    /\ ~Contains(uiq, "params")
    /\ uiq' = Append(uiq, "params")
    /\ UNCHANGED <<conVars, serverVars, loop, socketVars, draining, mainVars, lost, cases>>

-----------------------------------------------------------------------------
(* Network thread.                                                         *)

MainRests == ~draining /\ (inEmit # "no" => Races)
Dropped == emitted - Len(todo)

(* What the loop does next.                                                *)
Runs(what) == MainRests /\ loop # <<>> /\ Head(loop).kind \in what

(* Mutant: a link that ends leaves m_connected as it is.                   *)
DisconnectedStays ==
    /\ nsp' = "none" /\ lost' = Dropped
    /\ UNCHANGED <<there, connected, queue, listening, timer>>

(* Mutant: what was sent on a link that is lost waits for the next one.    *)
DisconnectedResends ==
    /\ connected' = FALSE
    /\ queue' = IF connected THEN [i \in DOMAIN wire |-> wire[i].sent] ELSE queue
    /\ nsp' = "none" /\ lost' = Dropped
    /\ UNCHANGED <<there, listening, timer>>

(* on_disconnect: what waits is dropped only if the namespace was joined.  *)
Disconnected ==
    /\ connected' = FALSE
    /\ queue' = IF connected THEN <<>> ELSE queue
    /\ nsp' = "none" /\ lost' = Dropped
    /\ UNCHANGED <<there, listening, timer>>

(* on_close: the socket leaves m_sockets, and the window is told.  The     *)
(* timeout of a socket that is gone stays in the loop, and the handler of  *)
(* its 3 s timer, which does not look at its error code, enters it.        *)
Closed(rest) ==
    /\ there' = FALSE /\ connected' = FALSE /\ queue' = <<>> /\ listening' = FALSE
    /\ timer' = "none"
    /\ LET left == [i \in DOMAIN rest |-> IF rest[i] = Timeout THEN Stale ELSE rest[i]]
       IN  loop' = IF timer = "leave" THEN Append(left, Stale) ELSE left
    /\ lost' = Dropped
    /\ uiq' = Append(uiq, "close")

(* client_impl::on_open: a socket that is there asks to join, one that is  *)
(* not is made and does.  A new connect() has waited for the loop to end;  *)
(* a reconnect waits a second and more, in which an emit that had begun is *)
(* over and what it posted has run.                                        *)
LinkOpens ==
    /\ MainRests
    /\ con = "closed" /\ link < MaxLinks /\ Room /\ loop = <<>> /\ inEmit = "no"
    /\ aborted => timer = "none"
    /\ con' = "opened" /\ link' = link + 1 /\ aborted' = FALSE
    /\ nsp' = "asked" /\ wire' = <<>>
    /\ there' = TRUE /\ timer' = "join"
    /\ UNCHANGED <<loop, connected, queue, listening, draining, uiq, mainVars, lost, cases>>

(* The link is lost, or ends after close().                                *)
LinkEnds ==
    /\ MainRests
    /\ con = "opened" \/ (con = "closing" /\ loop = <<>>)
    /\ con' = "closed"
    /\ Disconnected
    /\ UNCHANGED <<link, aborted, wire, loop, draining, uiq, mainVars, cases>>

(* A posted packet, in send_impl.                                          *)
RunTask ==
    /\ Runs({"join", "params", "other"})
    /\ loop' = Tail(loop)
    /\ LET packet == Head(loop)
       IN  \/ /\ con # "opened"
              /\ lost' = IF packet.id > lost THEN packet.id ELSE lost
              /\ UNCHANGED serverVars
           \/ /\ con = "opened" /\ packet = Join
              /\ nsp' = IF Belongs THEN "again" ELSE "asked"
              /\ UNCHANGED <<wire, lost>>
           \/ /\ con = "opened" /\ packet # Join
              /\ wire' = Append(wire, [sent |-> packet, state |-> nsp])
              /\ UNCHANGED <<nsp, lost>>
    /\ UNCHANGED <<conVars, socketVars, draining, uiq, mainVars, cases>>

(* Mutant: what waits is sent when the next message is emitted.            *)
JoinedNoDrain ==
    /\ Runs({"answer"}) /\ Room
    /\ loop' = Tail(loop)
    /\ IF there /\ con = "opened"
       THEN /\ timer' = "none"
            /\ connected' = TRUE
            /\ uiq' = IF connected THEN uiq ELSE Append(uiq, "open")
       ELSE UNCHANGED <<timer, connected, uiq>>
    /\ UNCHANGED <<conVars, serverVars, there, queue, listening, draining, mainVars, lost, cases>>

(* The server's answer: on_connected, up to its loop.                      *)
Joined ==
    /\ Runs({"answer"}) /\ Room
    /\ loop' = Tail(loop)
    /\ IF there /\ con = "opened"
       THEN /\ timer' = "none"
            /\ connected' = TRUE
            /\ draining' = ~connected
            /\ uiq' = IF connected THEN uiq ELSE Append(uiq, "open")
       ELSE UNCHANGED <<timer, connected, draining, uiq>>
    /\ UNCHANGED <<conVars, serverVars, there, queue, listening, mainVars, lost, cases>>

JoinedDrain ==
    /\ draining /\ (inEmit # "no" => Races)
    /\ IF queue = <<>>
       THEN draining' = FALSE /\ UNCHANGED <<queue, wire>>
       ELSE /\ wire' = IF con = "opened"
                       THEN Append(wire, [sent |-> Head(queue), state |-> nsp]) ELSE wire
            /\ queue' = Tail(queue)
            /\ UNCHANGED draining
    /\ UNCHANGED <<conVars, nsp, loop, there, connected, listening, timer, uiq, mainVars, lost,
                   cases>>

(* A packet of type_disconnect, or timeout_connection.                     *)
SocketCloses ==
    /\ Runs({"leave", "timeout"}) /\ Room /\ inEmit = "no"
    /\ IF there /\ (Head(loop) = Leave => con = "opened")
       THEN Closed(Tail(loop))
       ELSE loop' = Tail(loop) /\ UNCHANGED <<socketVars, lost, uiq>>
    /\ UNCHANGED <<conVars, serverVars, draining, mainVars, cases>>

(* The 3 s that close() gives the server.                                  *)
LeaveExpires ==
    /\ MainRests /\ Room /\ inEmit = "no"
    /\ timer = "leave" /\ loop = <<>>
    /\ there' = FALSE /\ connected' = FALSE /\ queue' = <<>> /\ listening' = FALSE
    /\ timer' = "none" /\ lost' = Dropped /\ uiq' = Append(uiq, "close")
    /\ UNCHANGED <<conVars, serverVars, loop, draining, mainVars, cases>>

(* A handler of a socket that is deleted: what it reads in the freed       *)
(* memory is null, or a later socket in its place.                         *)
RunStale ==
    /\ Runs({"stale"}) /\ Room /\ inEmit = "no"
    /\ \/ there /\ Closed(Tail(loop))
       \/ loop' = Tail(loop) /\ UNCHANGED <<socketVars, lost, uiq>>
    /\ UNCHANGED <<conVars, serverVars, draining, mainVars, cases>>

Run == RunTask \/ Joined \/ JoinedDrain \/ SocketCloses \/ LeaveExpires \/ RunStale
Network == ServerAnswers \/ ServerLeaves \/ JoinExpires \/ ServerParams \/ LinkOpens \/ LinkEnds

Next == Main \/ User \/ Run \/ Network

(* Both threads run, and a server that is asked again and again answers in *)
(* time at last.                                                           *)
Fairness ==
    /\ WF_vars(Main) /\ WF_vars(Run)
    /\ SF_vars(there /\ ~Contains(loop, Timeout) /\ ~Contains(loop, Stale) /\ ServerAnswers)

Spec == Init /\ [][Next]_vars
FairSpec == Spec /\ Fairness

-----------------------------------------------------------------------------
Packets == [id : 0..MaxEmits, kind : {"params", "other"}]
                \cup {Join, Answer, Leave, Timeout, Stale}

TypeOK ==
    /\ con \in {"closed", "opened", "closing"}
    /\ link \in 0..MaxLinks
    /\ nsp \in {"none", "asked", "joined", "again"}
    /\ timer \in {"none", "join", "leave"}
    /\ {aborted, there, connected, listening, draining, unlocked} \subseteq BOOLEAN
    /\ queue \in Seq(Packets) /\ loop \in Seq(Packets) /\ todo \in Seq(Packets)
    /\ wire \in Seq([sent : Packets, state : {"none", "asked", "joined", "again"}])
    /\ uiq \in Seq({"open", "close", "params"})
    /\ inEmit \in {"no", "drain", "push"}
    /\ emitted \in 0..MaxEmits /\ lost \in 0..MaxEmits

(* Where a message may be now.                                             *)
OnWire == [i \in DOMAIN wire |-> wire[i].sent]
Places == <<OnWire, loop, queue, todo>>
Positions == UNION {{p} \X DOMAIN Places[p] : p \in DOMAIN Places}
IdAt(at) == Places[at[1]][at[2]].id

(* Both threads take from the queue and the main thread puts into it while *)
(* the other empties it: even so no message is sent twice, and none is     *)
(* lost but with its link or its socket (send_packet, on_connected).       *)
OnceEach ==
    /\ \A a, b \in Positions : IdAt(a) # 0 /\ IdAt(a) = IdAt(b) => a = b
    /\ \A id \in (lost + 1)..emitted : con = "opened" => \E at \in Positions : IdAt(at) = id

(* Messages leave in the order in which they were emitted, those that      *)
(* waited first ("messages should be processed in order",                  *)
(* uwavclient.cpp:562).  The exceptions: both threads empty the queue at   *)
(* once; or a time-out and a late answer come between, and what has waited *)
(* goes out before what is posted.                                         *)
InOrder ==
    cases \cap {"races", "slow"} = {} =>
        \A i, j \in DOMAIN wire : i < j => wire[i].sent.id < wire[j].sent.id

(* As the window sees it: what it has emitted, and what of it went out on  *)
(* this link or may still.                                                 *)
MayGo == {packet.id : packet \in ToSet(loop) \cup ToSet(queue) \cup ToSet(todo)} \ {0}
Gone == [i \in DOMAIN OnWire |-> OnWire[i].id]

AbstractChannel ==
    INSTANCE Channel WITH AtOnce <- Greetings, given <- emitted, waiting <- MayGo,
                          arrived <- Gone, up <- (con = "opened"),
                          orderly <- (cases \cap {"races", "slow"} = {})

(* Links, namespaces and sockets come and go, two threads hand packets     *)
(* from place to place, and what waits outlives its link: even so, what    *)
(* went out on one link never goes out on another, and where nothing       *)
(* overtakes, a message goes out only when none given before it may still. *)
ImplementsChannel == AbstractChannel!ChannelSpec

(* Nothing is sent to a namespace that is not joined, however the links    *)
(* and the sockets come and go; but what is posted may cross the server's  *)
(* disconnect.  With time-outs and the server's disconnect in one link a   *)
(* late answer may be to a request that was cancelled since.               *)
JoinedFirst ==
    ~({"slow", "leave"} \subseteq cases) =>
        \A i \in DOMAIN wire :
            \/ wire[i].state \in {"joined", "again"}
            \/ "leave" \in cases /\ wire[i].state = "none"

(* What waited does not stay behind once the namespace is joined           *)
(* (on_connected, send_packet).  The exception: on_connected finds the     *)
(* queue empty just before a packet whose emit saw m_connected false.      *)
Flushed == (connected /\ queue # <<>> /\ ~Races) ~> (queue = <<>>)

(* The window hears the server: a socket that is joined has its listener,  *)
(* however it came to be replaced (onSioSocketOpen, onSioSocketClose).     *)
Heard ==
    connected /\ ~draining /\ uiq = <<>> /\ Idle => listening

(* As long as the link stays the namespace is joined at last, after any    *)
(* number of time-outs and disconnects: the handler of the closed socket   *)
(* makes a new one that asks again.                                        *)
Rejoins == (con = "opened") ~> (connected \/ con # "opened" \/ emitted + Greetings > MaxEmits)

(* "Should always be the first message sent by client once the client is   *)
(* ready to send and receive messages" (docs/PROTOCOL.md:6, of GET_PARAMS). *)
ParamsFirst == wire # <<>> => wire[1].sent.kind = "params"

=============================================================================
