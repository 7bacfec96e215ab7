---------------------------- MODULE PacketCodec -----------------------------
(***************************************************************************)
(* Packets and frames (sio/internal/sio_packet.cpp), and the two threads   *)
(* of sio_client_impl.cpp that put frames on the link.  A message with     *)
(* binary parts becomes a text frame, with a placeholder for each part,    *)
(* and one binary frame per part; the decoder keeps a partial packet until *)
(* it has them all.                                                        *)
(*                                                                         *)
(* The main thread hands asio each frame by itself, in a loop; what the    *)
(* network thread encodes goes out at once.  Either may empty the queue of *)
(* the socket.  A link can be lost between any two frames.                 *)
(***************************************************************************)
EXTENDS Naturals, FiniteSets, Sequences, SequencesExt

CONSTANTS Shapes,    \* messages that are emitted and come: which leaves are binary
          MaxLinks,  \* bound: links that open in one behaviour
          MaxEmits,  \* bound: messages the window emits
          MaxSays,   \* bound: messages the server says on one link
          CaseSets   \* sets of Circumstances, one of which a behaviour admits

(* acks: the server may ask for an acknowledgement                         *)
Circumstances == {"acks"}

ASSUME CodecAssumption ==
    /\ \A shape \in Shapes : shape \in Seq({"plain", "binary"})
    /\ MaxLinks \in Nat /\ MaxEmits \in Nat /\ MaxSays \in Nat
    /\ \A set \in CaseSets : set \subseteq Circumstances

VARIABLES opened,     \* m_con_state = con_opened
          links,      \* history: links opened
          connected,  \* m_connected: the namespace is joined
          queue,      \* m_packet_queue
          emitting,   \* main thread: the packet send_packet sends after the queue's
          posting,    \* main thread: frames encode() still has to hand to on_encode
          tasks,      \* frames dispatched to asio from the main thread
          draining,   \* network thread: in the loop that empties the queue
          answering,  \* network thread: what it sends after that
          sending,    \* network thread: frames encode() still has to send
          theirs,     \* the server's partial packet
          told,       \* history: messages whose text frame was sent on this link
          heard,      \* history: messages the server decoded on this link
          down,       \* frames on their way to the client
          pinged,     \* history: the server has pinged on this link
          partial,    \* m_partial_packet
          said, got,  \* history: messages the server said, the client decoded, on this link
          emits,      \* history: messages emitted
          cases       \* never changes: the circumstances admitted

linkVars == <<opened, links>>
mainVars == <<emitting, posting>>
networkVars == <<draining, answering, sending>>
theirVars == <<theirs, told, heard>>
serverVars == <<said, pinged>>
decodeVars == <<partial, got>>
vars == <<linkVars, connected, queue, mainVars, tasks, networkVars, theirVars, serverVars,
          down, decodeVars, emits, cases>>

-----------------------------------------------------------------------------
(* A message is its leaves in the order in which accept_message and        *)
(* from_json walk it; each keeps its place in the arrays and objects       *)
(* around it.  num and at name a leaf's value, or the bytes of a part.     *)

Leaf(kind, num, at) == [kind |-> kind, num |-> num, at |-> at]
Missing == Leaf("null", 0, 0)

(* UPDATE_PARAM has plain values, AUDIO_IN and AUDIO_OUT one binary part.  *)
MessageOf(shape, num) == [at \in 1..Len(shape) |-> Leaf(shape[at], num, at)]

Packet(type, ack, message, nth) ==
    [type |-> type, ack |-> ack, message |-> message, nth |-> nth]

(* A frame remembers, as history, the packet it is of, and which of its    *)
(* attachments it is: 0 for the text.                                      *)
Text(frame, type, pending, ack, json, of) ==
    [binary |-> FALSE, frame |-> frame, type |-> type, pending |-> pending, ack |-> ack,
     json |-> json, of |-> of, part |-> 0]

Control(frame, type, nth) ==
    Text(frame, type, 0, FALSE, <<>>, Packet("-", FALSE, <<>>, nth))
Handshake == Control("open", "-", 0)
Joined == Control("message", "connect", 0)
Ping(nth) == Control("ping", "-", nth)
Pong == Control("pong", "-", 0)

-----------------------------------------------------------------------------
(* Encoding.                                                               *)

(* buffers, as the walk has filled it when it is at a leaf, and at its end. *)
Binaries(msg) == {at \in DOMAIN msg : msg[at].kind = "binary"}
SizeAt(msg, at) == Cardinality({other \in Binaries(msg) : other < at})
Count(msg) == Cardinality(Binaries(msg))
Buffer(msg, k) == msg[CHOOSE at \in Binaries(msg) : SizeAt(msg, at) = k - 1]

(* Mutant: placeholders are numbered from one.                             *)
AcceptFromOne(msg, at) == Leaf("placeholder", SizeAt(msg, at) + 1, at)

(* The placeholder is given the size of buffers, then the part is pushed.  *)
AcceptBinary(msg, at) == Leaf("placeholder", SizeAt(msg, at), at)

AcceptMessage(msg) ==
    [at \in DOMAIN msg |-> IF msg[at].kind = "binary" THEN AcceptBinary(msg, at) ELSE msg[at]]

(* packet::accept: the type tells that attachments follow, and how many.   *)
TypeOf(p) == IF Count(p.message) = 0 THEN p.type
             ELSE IF p.type = "event" THEN "binary_event" ELSE "binary_ack"

TextOf(p) ==
    Text("message", TypeOf(p), Count(p.message), p.ack, AcceptMessage(p.message), p)
AttachmentOf(p, k) ==
    [binary |-> TRUE, frame |-> "-", type |-> "-", pending |-> 0, ack |-> FALSE,
     json |-> <<Buffer(p.message, k)>>, of |-> p, part |-> k]

(* packet_manager::encode: the frames, in the order in which its callback  *)
(* gets them.                                                              *)
Encode(p) == <<TextOf(p)>> \o [k \in 1..Count(p.message) |-> AttachmentOf(p, k)]

-----------------------------------------------------------------------------
(* Decoding.                                                               *)

(* A placeholder is replaced by the attachment of its number.              *)
FromJson(json, buffers) ==
    [at \in DOMAIN json |->
        IF json[at].kind # "placeholder" THEN json[at]
        ELSE IF json[at].num < Len(buffers) THEN buffers[json[at].num + 1] ELSE Missing]

NoPartial == [on |-> FALSE, text |-> Handshake, buffers |-> <<>>]
Partial(text, buffers) == [on |-> TRUE, text |-> text, buffers |-> buffers]

Waits(text, buffers) == [partial |-> Partial(text, buffers), decoded |-> <<>>]
Decodes(text, buffers) ==
    [partial |-> NoPartial, decoded |-> <<[text EXCEPT !.json = FromJson(@, buffers)]>>]

(* packet::parse: a binary packet waits for its attachments.               *)
Parse(text) ==
    IF text.type \in {"binary_event", "binary_ack"} THEN Waits(text, <<>>)
    ELSE Decodes(text, <<>>)

(* Mutant: one more attachment is waited for.                              *)
ParseBufferLate(waiting, payload) ==
    LET buffers == Append(waiting.buffers,
                          IF payload.binary THEN payload.json[1] ELSE Missing)
    IN IF Len(buffers) <= waiting.text.pending THEN Waits(waiting.text, buffers)
       ELSE Decodes(waiting.text, buffers)

(* packet::parse_buffer: whatever comes is the next attachment.            *)
ParseBuffer(waiting, payload) ==
    LET buffers == Append(waiting.buffers,
                          IF payload.binary THEN payload.json[1] ELSE Missing)
    IN IF Len(buffers) < waiting.text.pending THEN Waits(waiting.text, buffers)
       ELSE Decodes(waiting.text, buffers)

(* packet_manager::put_payload.  A stray attachment is decoded for what    *)
(* its first byte makes of it.                                             *)
PutPayload(waiting, payload) ==
    IF waiting.on THEN ParseBuffer(waiting, payload)
    ELSE IF ~payload.binary THEN Parse(payload)
    ELSE [partial |-> NoPartial, decoded |-> <<[payload EXCEPT !.frame = "stray"]>>]

Json(packets) == [k \in DOMAIN packets |-> packets[k].json]

(* The other end gets the frames of a link in order and decodes them by    *)
(* the same rules; a pong is for the transport, not for its decoder.       *)
OnWire(frame) ==
    LET put == PutPayload(theirs, frame)
    IN IF frame.frame = "pong" THEN UNCHANGED theirVars
       ELSE /\ theirs' = put.partial
            /\ told' = IF frame.binary THEN told ELSE Append(told, frame.of.message)
            /\ heard' = heard \o Json(put.decoded)

-----------------------------------------------------------------------------
Init ==
    /\ opened = FALSE /\ links = 0 /\ connected = FALSE
    /\ queue = <<>> /\ emitting = <<>> /\ posting = <<>> /\ tasks = <<>>
    /\ draining = FALSE /\ answering = <<>> /\ sending = <<>>
    /\ theirs = NoPartial /\ told = <<>> /\ heard = <<>>
    /\ down = <<>> /\ pinged = FALSE
    /\ partial = NoPartial /\ said = <<>> /\ got = <<>>
    /\ emits = 0
    /\ cases \in CaseSets

(* Main thread: emit to send_packet.  Until the namespace is joined a      *)
(* packet waits.                                                           *)
Emit(shape) ==
    /\ opened /\ emitting = <<>> /\ posting = <<>> /\ emits < MaxEmits
    /\ emits' = emits + 1
    /\ LET p == Packet("event", FALSE, MessageOf(shape, emits + 1), emits + 1)
       IN IF connected
          THEN emitting' = <<p>> /\ UNCHANGED queue
          ELSE queue' = Append(queue, p) /\ UNCHANGED emitting
    /\ UNCHANGED <<linkVars, connected, posting, tasks, networkVars, theirVars, serverVars,
                   down, decodeVars, cases>>

(* What waits goes first, a packet at a time.                              *)
SendPacket ==
    /\ emitting # <<>> /\ posting = <<>>
    /\ \/ /\ queue # <<>>
          /\ posting' = Encode(Head(queue)) /\ queue' = Tail(queue)
          /\ UNCHANGED emitting
       \/ /\ queue = <<>>
          /\ posting' = Encode(Head(emitting)) /\ emitting' = <<>>
          /\ UNCHANGED queue
    /\ UNCHANGED <<linkVars, connected, tasks, networkVars, theirVars, serverVars, down,
                   decodeVars, emits, cases>>

(* on_encode, called by the main thread: asio queues the frame.            *)
Post ==
    /\ posting # <<>>
    /\ tasks' = Append(tasks, Head(posting)) /\ posting' = Tail(posting)
    /\ UNCHANGED <<linkVars, connected, queue, emitting, networkVars, theirVars, serverVars,
                   down, decodeVars, emits, cases>>

(* The network thread is in none of its loops: asio runs its next handler. *)
Idle == ~draining /\ sending = <<>>

(* Network thread: send_impl.                                              *)
RunTask ==
    /\ Idle /\ tasks # <<>>
    /\ tasks' = Tail(tasks)
    /\ IF opened THEN OnWire(Head(tasks)) ELSE UNCHANGED theirVars
    /\ UNCHANGED <<linkVars, connected, queue, mainVars, networkVars, serverVars, down,
                   decodeVars, emits, cases>>

(* Network thread: the loop of on_connected, or of send_packet.            *)
Drain ==
    /\ draining /\ sending = <<>>
    /\ \/ /\ queue # <<>>
          /\ sending' = Encode(Head(queue)) /\ queue' = Tail(queue)
          /\ UNCHANGED <<draining, answering>>
       \/ /\ queue = <<>>
          /\ draining' = FALSE /\ answering' = <<>>
          /\ sending' = IF answering = <<>> THEN <<>> ELSE Encode(Head(answering))
          /\ UNCHANGED queue
    /\ UNCHANGED <<linkVars, connected, mainVars, tasks, theirVars, serverVars, down,
                   decodeVars, emits, cases>>

(* on_encode, called by the network thread: asio runs send_impl at once.   *)
Send ==
    /\ sending # <<>>
    /\ OnWire(Head(sending)) /\ sending' = Tail(sending)
    /\ UNCHANGED <<linkVars, connected, queue, mainVars, tasks, draining, answering,
                   serverVars, down, decodeVars, emits, cases>>

(* What the network thread does with a packet it has decoded: on_ping,     *)
(* on_connected, on_socketio_event.                                        *)
OnPing(p) ==
    /\ p.frame = "ping"
    /\ OnWire(Pong)
    /\ UNCHANGED <<connected, queue, draining, answering, got>>

OnConnected(p) ==
    /\ p.type = "connect"
    /\ connected' = TRUE /\ draining' = ~connected
    /\ UNCHANGED <<theirVars, queue, answering, got>>

(* signalSioEvent answers "PONG" to whoever asks.                          *)
OnEvent(p) ==
    /\ p.type \in {"event", "binary_event"} \/ p.frame = "stray"
    /\ got' = Append(got, p.json)
    /\ LET answer == Packet("ack", FALSE, <<Leaf("plain", 0, 1)>>, 0)
       IN IF ~p.ack THEN UNCHANGED <<queue, draining, answering>>
          ELSE IF connected
          THEN draining' = TRUE /\ answering' = <<answer>> /\ UNCHANGED queue
          ELSE queue' = Append(queue, answer) /\ UNCHANGED <<draining, answering>>
    /\ UNCHANGED <<connected, theirVars>>

OnHandshake(p) ==
    /\ p.frame = "open"
    /\ UNCHANGED <<connected, theirVars, queue, draining, answering, got>>

OnDecode(p) == OnPing(p) \/ OnConnected(p) \/ OnEvent(p) \/ OnHandshake(p)

(* on_message.                                                             *)
Receive ==
    /\ Idle /\ down # <<>>
    /\ down' = Tail(down)
    /\ LET put == PutPayload(partial, Head(down))
       IN /\ partial' = put.partial
          /\ IF put.decoded = <<>>
             THEN UNCHANGED <<connected, theirVars, queue, draining, answering, got>>
             ELSE OnDecode(put.decoded[1])
    /\ UNCHANGED <<linkVars, mainVars, tasks, sending, serverVars, emits, cases>>

(* on_close or on_fail, and the sockets' on_disconnect.                    *)
Lose ==
    /\ Idle /\ opened
    /\ opened' = FALSE /\ connected' = FALSE /\ down' = <<>>
    /\ queue' = IF connected THEN <<>> ELSE queue
    /\ UNCHANGED <<links, mainVars, tasks, networkVars, theirVars, serverVars, decodeVars,
                   emits, cases>>

(* A new link, and what there is of it at the other end.                   *)
NewLink ==
    /\ Idle /\ ~opened /\ emitting = <<>> /\ posting = <<>> /\ tasks = <<>>
    /\ links < MaxLinks
    /\ opened' = TRUE /\ links' = links + 1
    /\ down' = <<Handshake, Joined>>
    /\ theirs' = NoPartial /\ told' = <<>> /\ heard' = <<>>
    /\ said' = <<>> /\ got' = <<>> /\ pinged' = FALSE
    /\ UNCHANGED <<connected, queue, mainVars, tasks, networkVars, emits, cases>>

(* Mutant: the states of the last link are kept.                           *)
ReconnectKeeps == NewLink /\ UNCHANGED partial

(* timeout_reconnect or connect(), reset_states and on_open.  The frames   *)
(* of an emit are posted and run long before the next link.                *)
Reconnect == NewLink /\ partial' = NoPartial

(* The server writes the frames of a packet together, pings in between.    *)
ServerSays(shape, ack) ==
    /\ opened /\ Len(said) < MaxSays
    /\ ack => "acks" \in cases
    /\ LET nth == Len(said) + 1
           message == MessageOf(shape, nth)
       IN /\ said' = Append(said, message)
          /\ down' = down \o Encode(Packet("event", ack, message, nth))
    /\ UNCHANGED <<linkVars, connected, queue, mainVars, tasks, networkVars, theirVars, pinged,
                   decodeVars, emits, cases>>

ServerPings ==
    /\ opened /\ ~pinged
    /\ pinged' = TRUE
    /\ down' = Append(down, Ping(Len(said)))
    /\ UNCHANGED <<linkVars, connected, queue, mainVars, tasks, networkVars, theirVars, said,
                   decodeVars, emits, cases>>

Main == SendPacket \/ Post \/ \E shape \in Shapes : Emit(shape)
Network == RunTask \/ Drain \/ Send \/ Receive \/ Lose \/ Reconnect
Server == ServerPings \/ \E shape \in Shapes, ack \in BOOLEAN : ServerSays(shape, ack)

Next == Main \/ Network \/ Server

Spec == Init /\ [][Next]_vars

-----------------------------------------------------------------------------
TypeOK ==
    /\ opened \in BOOLEAN /\ connected \in BOOLEAN
    /\ links \in 0..MaxLinks /\ emits \in 0..MaxEmits
    /\ connected => opened
    /\ Len(said) <= MaxSays
    /\ partial.on => Len(partial.buffers) < partial.text.pending

(* The server gets what the window emitted: every binary part meets its    *)
(* placeholder, though a packet's frames are posted one by one, the        *)
(* network thread sends packets and pongs of its own in between, both      *)
(* empty one queue, and links end (sio_packet.cpp:444-475,                 *)
(* sio_client_impl.cpp:593).  The exception is an acknowledgement, a text  *)
(* frame the network thread may put between the frames of a packet of the  *)
(* main thread's.                                                          *)
AttachmentsMeet ==
    "acks" \notin cases =>
        /\ IsPrefix(heard, told)
        /\ Len(told) <= Len(heard) + 1

(* The client decodes what the server says on a link, all of it and        *)
(* nothing else, even if the last link ended in the middle of a packet     *)
(* (put_payload takes any payload for an attachment while one is due,      *)
(* sio_packet.cpp:490-497).                                                *)
DecodesAsSaid ==
    /\ IsPrefix(got, said)
    /\ opened /\ down = <<>> => got = said

=============================================================================
