# TLA+ models of uwavclient

uwavclient is a Qt client for a voice-conversion server. It records from a
microphone with PipeWire, sends chunks of samples over socket.io, and plays the
chunks that come back. The hard part of such a program is not what it computes
but who does what when: a real-time audio thread, PipeWire's loop, a network
thread and the Qt main thread share rings, flags and lists, mostly without a lock.
These modules model that part. Paths below are relative to `src/src/` unless
they say otherwise.

- [Inventory](#inventory): the system's parts and what makes each correct
- [Modules](#modules): how states and actions correspond to the code
- [Runs](#runs): what TLC checks, bounds, fairness, mutants
- [Proofs](#proofs): what TLAPS proves and how
- [Known disagreements](#known-disagreements-between-code-and-comments)
- [Not modelled](#not-modelled) and [Plan](#plan)

## Inventory

### Threads

| Thread | Runs | Touches |
|---|---|---|
| Qt main thread | the window's slots, `u_AudioProvider`'s public calls, `sio::client`'s public calls | everything |
| PipeWire data thread (real time) | `onProcessInput`, `onProcessOutput` | the two rings, the gate |
| PipeWire thread loop | `onRegistryAdd`, `onRegistryRemove`, `onCoreDone`, stream state changes | the device vectors, `streamConnected` flags |
| sio network thread | asio's loop: websocketpp's events, timers, dispatched functions | `client_impl`, sockets, packet manager |

The other threads reach the window only by Qt signals, which are queued
(`uwavclient.cpp:30-37, 140-155`): a handler runs to its end on the main thread,
some time after the event it is about. Every `uiq` in the modules is that queue.
In the other direction the main thread calls straight into objects the other
threads use.

### Components

| Component | State | Operations | What makes it correct |
|---|---|---|---|
| `u_RingBuffer` (u_ringbuffer.cpp) | cells, `readPos`, `writePos`, atomics `writeAheadWindow`, `prefillComplete` | `writeAudioData`, `writeRawData`, `readAudioData`, `readRawData`, `discardSamples` | one writer and one reader never touch the same cell; samples come out once, in order; whole blocks or none; playback starts pre-filled |
| sio client (sio/internal/sio_client_impl.cpp) | `m_con_state`, `m_reconn_made`, `m_abort_retries`, timers, the network thread | `connect`, `close`, `sync_close`, `on_open`, `on_fail`, `on_close`, `timeout_reconnect`, `timeout_ping` | one attempt at a time; `opened()` never lies; a loss is retried and then reported; joins end |
| Connect button (uwavclient.cpp) | `connectRetryState`, the button | `on_buttonConnect_clicked`, `onSioConnect*`, `ui_ServerDisconnect` | the button comes back; Cancel cancels |
| Conversion (uwavclient.cpp, u_audioprovider.cpp) | `serverStarting/Started`, `num*SamplesPerChunk`, two buttons, two streams | Start, Stop, `onInputBufferWrite`, `on_AudioStream*`, server messages, hot-swap, unplug | client and server agree; Stop stops; chunks flow; drain loops end |
| Input gate (`onProcessInput`) | `gateRMS`, `gateClosingTail`, `tailCounter`, `isGating` | a buffer; the two sliders | the gate closes, and not too soon |
| Device registry (u_audioprovider.cpp, uwavclient.cpp) | two vectors, pointers into them, two combo boxes, saved device | add, remove, first reading, select | the window mirrors the list; Start records from what is shown |
| sio socket (sio/sio_socket.cpp) | `m_connected`, packet queue, acknowledgements, connection timer | `emit`, `close`, `on_message_packet` ... | nothing sent before the namespace is joined, nothing lost, doubled or reordered; the namespace is joined again |
| Packet codec (sio/internal/sio_packet.cpp) | a partial packet and its pending attachments | `encode`, `put_payload`, `parse`, the posting of frames | decoding inverts encoding on every link; attachments meet their placeholders although frames of two threads mix |
| LocalConfig (localconfig.cpp) | settings and the file | `Load`, `Save` | a saved file loads to what was saved, whatever fails between |
| Parameter sliders, check boxes (uwavclient.cpp) | positions, the slider that is held, `lastSliderUpdateTime` | press, move, release, `SET_PARAMS` | the window shows what the server stores; chunk lengths and gate agree with it |
| Server lists (uwavclient.cpp) | models, compute devices, what is selected | `LIST_MODELS`, `LIST_COMPUTE`, picking | what is selected is what the server uses |
| Statistics, levels, layout | shown text | - | no state another handler relies on |

### Interactions

- Ring to conversion: `onProcessInput` writes and emits `signalInputBufferWrite`;
  the slot `onInputBufferWrite` drains the ring into `EmitSamples` or discards.
  `onSamplesReceived` writes the other ring and `onProcessOutput` reads it.
- Conversion to connection: both buttons and the drain loop test `opened()`.
  `ui_ServerDisconnect` closes the connection and stops the streams, so a lost
  connection ends a conversion.
- Registry to conversion: removing the microphone in use sends SERVER_STOP.
- Sliders to gate and conversion: the gate slider sets the gate of the audio thread; the
  chunk slider sets the length a conversion takes at its start, and the server's.
- Sockets to codec to client: `emit` encodes on the main thread and hands each frame to
  the network thread, which sends packets of its own in between.

### What is hard

Races on atomics that are read twice (`u_ringbuffer.cpp:62, 156`); signals that
outlive what they are about (`uwavclient.cpp:279`); loops that wait for something
another thread must do (`uwavclient.cpp:307, 317`); a thread joined by the window
(`sio_client_impl.cpp:93, 177`); a timer that has expired but not run
(`sio_client_impl.cpp:347`); indexes and pointers into a list that another thread
changes (`u_audioprovider.cpp:713, 1238`). `PROJECT.json` lists all of them, with the
properties that would catch each going wrong.

## Modules

```
SampleFifo  <-- refined by --  RingBuffer  <-- extended by --  AudioProofs
                               InputGate   <-- extended by --  AudioProofs
Link        <-- refined by --  Connection  <-- extended by --  ConnectionProofs
Channel     <-- refined by --  SioSocket   <-- extended by --  SioSocketProofs
                               Streaming   <-- extended by --  StreamingProofs
                               Settings    <-- extended by --  SettingsProofs
                               ConfigFile  <-- extended by --  ConfigFileProofs
                           DeviceRegistry  <-- extended by --  DeviceRegistryProofs
                             PacketCodec   <-- extended by --  PacketCodecProofs, MCPacketCodec
```

`Streaming` is where components meet: window, streams, ring (as a count), link and
server. It relies on `RingBuffer` for what the count means and on `Link` for how a link is lost
and comes back.

`Link` is the contract between the websocket client and everything above it: one
connection at a time, no more attempts than were asked for, and word of every end that
was not asked for. `Connection` implements it (`ImplementsLink`). `Streaming`,
`SioSocket`, `PacketCodec` and `Settings` assume it: their actions that open and end a
link (`Drop`, `Reopen` and `GiveUp`; `Open` and `Lost`; `Reconnect` and `Lose`; `Open`,
`Drop` and `GiveUp`) are `Link`'s `Opens`, `Closes`, `Retries` and `GivesUp` as that
module sees them: never two links at once, a loss at any moment and with anything on
its way, a new link at any time after it, a "close" that may be handled late or, after
a retry that succeeds, not at all. They ask for no number of attempts and no order of
signals beyond that, so what is checked there needs only what is proved here.

`SampleFifo` and `Channel` are contracts of the same kind: what the ring promises its two
threads, and what `socket()->emit` promises the window.

### Conventions

- Names of variables and actions follow the code: `serverStarting`,
  `numIn` for `numInputSamplesPerChunk`, `window` for `writeAheadWindow`, and so on.
- A handler of the main thread is one action. It is cut where another thread's
  step between two of its accesses matters (`Connection`'s `mpc`, the ring's
  `wpc`/`rpc`) or where it loops (`Streaming`'s drain loops).
- `cases`, in six modules, is a variable that never changes: the set of unlucky
  circumstances a behaviour admits. `CaseSets` (in `Settings`, `Sessions`) gives TLC the sets to try, so one run
  covers several, and a property that has exceptions names them by `cases`. What an
  exception leads to is under [Known disagreements](#known-disagreements-between-code-and-comments).
- `MCPacketCodec` only gives TLC messages to send; the other modules take their constants
  from a .cfg alone.
- Operators whose comment starts with "Mutant" are not part of the model. Each is a
  plausible slip in the definition after it, put in its place to see that a property
  notices.

### RingBuffer, SampleFifo

`RingBuffer` has the two threads at the granularity of their accesses to
`writeAheadWindow` and `prefillComplete`. `writePos` belongs to the writer and
`readPos` to the reader, so their updates go with the `memcpy` beside them. A
`memcpy` is one step. That is sound because of `NoOverlap`: two copies that touch
different cells commute.

| Action | Code |
|---|---|
| `WStart, WDrop, WAccept, WCopy, WPublish, WTest, WFill, WSet` | `writeAudioData` and `writeRawData`, which are the same but for the type they copy |
| `RAudio`, `RRaw`, `RDiscard`, `RSilence` | the only callers: `onProcessOutput`, the two loops of `onInputBufferWrite`; each with the length test it makes first |
| `RUnderflow, RAccept, RCopy, RTake, RTest, RClear` | `readAudioData`, `readRawData`, `discardSamples` |

What differs between the reading calls is kept: only `readAudioData` waits for the
pre-fill, only `readRawData` may leave its position one past the end, only
`discardSamples` resets the writer on underflow. A sample is the number it was taken
under, so "in order, once each" is arithmetic.

`SampleFifo` is what the ring promises: a queue whose `Put` takes a whole block and
whose `Get` removes from the front. The refinement reads the queue off the cells:
the `window` cells from the read position on.

### Connection

Main thread: `ClickConnect`, `ClickDisconnect`, `ClickCancel`, then `connect`
(`ConnectCancelTimer` to `ConnectStart`), `close`, `sync_close` and its join, and
`ui_ServerDisconnect`; `OnSignal` is the handler of a queued signal. Network thread: the
dispatched `connect_impl` and `close_impl`, the listeners `WsOpen`, `WsFail`,
`WsClose`, `PolicyClose` (the ping timer and other closes that are not "normal"),
`Reconnect`, and `LoopEnds` when asio has nothing left. `made`, `abort`, `timer` and
`con` are `m_reconn_made`, `m_abort_retries`, `m_reconn_timer` and `m_con_state`.

A join waits for `LoopEnds`; nothing makes the loop stop, it ends only when there is
no websocket, no timer and no task. That is why `close` can hang a window.

`Link` sees of this `LinkState`: "trying" from `connect()` on, "up" while there is a
websocket that has opened, "waiting" while there is a timer. Everything the main thread
does to the button, and the thread's start and end, are stutters.

### Streaming

A stream is `none`, `wait` (created), `up` or `error`. The main thread's
handlers are one action each, named `On...` for the signal; `EmitSamples` and
`DiscardSamples` are one turn of the loops in `onInputBufferWrite`. `Disconnect` is
`ui_ServerDisconnect`. The server is external and modelled from
`src/docs/PROTOCOL.md` and the handlers: it answers each SERVER_STOP with
SERVER_STOPPED and a SERVER_START with SERVER_STARTED when it is ready.

`mic` is the microphone as the provider and the combo box have it: after an unplug it is
"none" for both, and Start is accepted all the same (`ValidateStartStopState` compares
-1 with -1). `Created` is what `createInputStream` and `createOutputStream` may return
with: a stream, no stream because PipeWire refuses to connect it, or no stream but the
ring that was made for it ("left").

Assumptions: input and output are both local devices; a new `written` note is not added beside
one that waits, since the first drains the ring; a callback comes at most once during
one drain loop, which takes microseconds against milliseconds.

### InputGate

A buffer is above the threshold (`Loud`) or below (`InTail` while the tail lasts, `Cut`
afterwards). `tailCounter` counts samples, as in the code. `quiet` and `open` record
how long the present silence is and how much of it went through. What is its own has
"Gate" in its name, since `AudioProofs` extends it beside the ring.

### DeviceRegistry

The input side; the output side repeats the code. The vector, its capacity (it moves
when it grows past it, and `currentInputDevice` points into it), the queue of
added/removed signals, the combo box with "server" behind the devices, and a record of
what a selection sets. Qt's own behaviour (`setCurrentIndex`, the index moving with
insertions and removals) is modelled from how the handlers rely on it. A dangling
pointer yields any id.

### SioSocket, Channel

`loop` is asio's queue: packets the main thread has posted, packets that have come,
timers that have expired, in the order in which they got there. What the network
thread emits itself goes out at once. `inEmit` and `draining` are the places in
`send_packet` and `on_connected` between which the other thread can step; only under
"races" does it. `Closed` is the socket's `on_close`, after which `there` (the entry in
`m_sockets`) is gone until `Lookup` (`client_impl::socket`) makes another, which asks to
join again. `timer` is `m_connection_timer` in its two uses. A packet is a number, so
order and loss are comparisons; `wire` keeps what the namespace was when it was sent.

Assumptions: the server never asks for an acknowledgement; it answers a second request
to join as it does the first; an emit takes less time than a reconnect, and what it
posted has run by then; a timer of 20 s does not expire before a packet posted ahead of
it is sent; no socket goes while the main thread is inside `Emit` on it (it would use
freed memory). A timer's handler on a deleted socket reads freed memory: it returns, or
takes a later socket for its own (`RunStale`). The packets that `close` sends are
posted after `m_con_state` is `con_closing`, so `send_impl` drops them.

`Channel` is what the window may expect of all this: messages numbered as they are given,
a set of those that may still go out, and those that went out on the present link. Some
are dropped with a link or a socket, none goes out twice, and on an orderly channel none
goes out while an earlier one waits. In `SioSocket` those that may still go out (`MayGo`)
are the loop's, the queue's and the handler's, and the channel is orderly without "races"
and "slow".

### PacketCodec

A message is its leaves in the order in which `accept_message` and `from_json` walk it,
each a plain value or a binary part and each with its place (`Leaf`); arrays and objects are
only what the places are in. At a leaf, `SizeAt` is the size `buffers` has when the walk
gets there, so it is the number of the placeholder, and `Buffer` is what lies there
afterwards. `Encode` is `packet::accept` and `packet_manager::encode`; `PutPayload` is
`put_payload` with `parse` and `parse_buffer`. A frame remembers, as history, the packet
it is of and which attachment it is.

On the main thread `Emit` queues a packet or starts to send it, `SendPacket` takes the next
one (those that wait first, then `emitting`) and `Post` is one turn of `encode`'s loop:
`posting` are the frames it has still to hand over, `tasks` those asio has from it. On the
network thread `Receive` is `on_message`, `Drain` one turn of the loop that empties the
queue before `answering`, `Send` a frame of `sending`, which goes on the wire at once;
it runs a task only when in neither loop (`Idle`). Pings and pongs are frames as well. The
other end decodes by the same rules: `theirs` is its partial packet, `heard` what it has
decoded on this link and `told` what it should have.

Assumptions: a link never opens with frames of an earlier emit still posted (they take
microseconds, a reconnect seconds); the server writes the frames of a packet together.

### Settings

A session has some of seven controls: four kinds of slider (a plain one, one that is
rounded, the gate, one whose fraction is cut), a check box for four, and the combo boxes
of models and compute devices. `Press`, `Drag` and `Release` are the three slots of a
slider, with the clock they share (`recent`: less than 0.4 s ago); `OnParams` sets every
slider and calls its `sliderMoved`. `Encode` and `Recall` are the conversions on the way
to the server and back, clamping included. `up` and `down` are the messages of one link
and the signals queued for the window; a lost link takes what is on its way, not what
is already a signal. The server stores what it is told, answers GET_PARAMS,
GET_MODELS and GET_COMPUTE, and says when a conversion has started.

`offers` are the models and compute devices of the server, `items` what the combo boxes
have of them, which is what the last list said, this server's or the one's before. A model
or a device is picked from `items`. `OnParams` selects the model the server names if it is
among the `items` (`Shown`), and tells the server so like a choice of the user's (`Echo`).
`OnModels` keeps what is selected if the new list has it, else takes the model saved in
client.conf (`saved`) if the list has that, else, only if none is saved, the first; in what
remains no model is selected and nobody is told (`ModelOf`). `OnStarted` saves what is
selected, or not: whether `Save` comes that far is `ConfigFile`'s matter. The server
refuses a model it does not offer (`Accepts`).

Assumptions: the user waits for the stored settings (without "hasty"), moves sliders by
their handles (without "keys": a click into the groove is as unheard as a key), leaves the
chunk slider alone in a conversion (without "resize"), has a microphone before the settings
come (without "late"), and every server offers the same and has one of its list loaded, or
none (without "lists"; `Loaded`). Each is dropped in some session. Without "lists" the list
may still be any, the saved model absent from it included.

`Right` is what a control must come to: the value the server has, and of a combo box
something the server offers or nothing. `Excused` names what keeps the first half from
holding: the compute device, which nobody tells the server; values that do not survive the
conversion; keys; haste; and of the model, a server that has none, a change of lists, and
`WantsNone`: the window shows none because the list has nothing it wants. The last two are
under [Known disagreements](#known-disagreements-between-code-and-comments).

Simplified: during a drag `on_sliderPitchShift_sliderMoved` sends the slider's `value()`,
which is one step behind the position Qt passes it; the release sends the right one, so
`Drag` sends the position. The combo box of models is disabled during a conversion, which
the model does not use.

### ConfigFile

`Look` to `CloseFile` are `Save`, one file-system call each; `Stop` ends the program
between any two of them, and `LookFails`, `MoveFails` and `OpenFails` are its early
returns. `buffer` is what `newConfigStream` holds: files are shorter than a stream's
buffer, so nothing is on the disk until the destructor. A file is absent, blank or has a
line per key; `inputDevice` and `outputDevice`, `modelName` and `inferDevice` are the same
code, so one of each. `Parsed` is what `ParseLine` does to a name with a '#'.

## Runs

Each passing run explores all reachable states. Distinct states are approximate.

| Run | States | Question |
|---|---|---|
| `ring` | 32 000 | Is each of the two rings a queue, under every interleaving? The initial state picks which: played from, or sent from and discarded. |
| `connection` | 33 000 | Does the connection, and the button, always come back to a known state, and is it the link the rest assumes? |
| `streaming` | 220 000 | Does a conversion start, run and stop as both ends believe, under six sets of circumstances? |
| `gate` | 700 | Does the gate close? |
| `codec` | 1 200 000 | Do binary parts meet their packets, both ways, over two links? |
| `settings` | 770 000 | Does the window show what the server has and offers, and come to it? |
| `devices` | 52 000 | Does the combo box mirror the list, and Start record from what is shown? |
| `socket` | 180 000 | Is a message sent once, in order, to a joined namespace; is it a channel over one link after another; and does the window get its namespace back? |
| `config` | 1 800 000 | What survives a crash, or a failing call, at any point of `Save`? |
| `connection_cancel`, `streaming_swap`, `settings_gate` | - | Where the code does not do what its comments say; see below. |

The other .cfg files show the remaining disagreements; each is named where it is described.

### Bounds

- Rings hold 5 samples, blocks of 1, 2 and 4 are written and 1 and 3 read, pre-fill
  2. Neither block size divides the ring, so both copies wrap at every offset;
  4 + 2 does not fit, so blocks are dropped; 14 samples go around the ring nearly
  three times. The theorems need none of these bounds.
- `Connection`: two attempts. The second differs from the first (it may be the last)
  and nothing counts further. With two signals waiting, every pair of signals can meet.
- `Streaming`: ring 7, callbacks of 3, chunks of 4. A chunk is neither a multiple nor a
  divisor of a callback, a ring takes a chunk and a callback but not two of each, so
  overflow, short reads and a full ring all happen. `MaxSignals` 3 bounds clicks,
  faults and messages the server sends of its own accord, not the handlers, so a queue
  is as long as four and more. The six sets of circumstances group those that act on
  the same state: faults of streams and server; order of clicks and signals; loss of
  the connection; order of streams and hot-swap; order and faults of streams alone, the
  set under which `ConversionHasStreams` applies; streams that PipeWire refuses. Each is
  in one set at least.
- `SioSocket`: two links, so that what waited on one meets the next; two messages of
  greeting and two of use; three items in the loop besides packets posted, enough for
  answer, time-out and disconnect in every order.
- `PacketCodec`: two links, so that a partial packet meets the next one; two emits, so
  that frames of two packets and pongs can mix; messages without, with one and with two
  binary parts, as in UPDATE_PARAM, AUDIO_IN and a message the server could send; two
  messages of the server per link, of every shape, so that one with two parts can be cut short and another follow.
- `Settings`: positions 0 to 2 and steps of 2, so that 1 is the position that is rounded
  and (`Short`) the one that is cut; two links; three changes by the user: one before a
  loss, one without a link, one after it. Thirteen sessions: each control by itself, model
  and check box together, and each circumstance with the controls it is about. Two models
  and two devices make every pair of lists possible: the same, disjoint, one within the
  other, empty. A new conversion waits until the last SERVER_STARTED is handled, as the
  button does. In these sessions a conversion has no model, so what TLC checks is every
  `saved` there may be, and that it changes on the way is left to the theorem. (Sessions of
  model and chunk, and of compute and chunk, have two to three million states each and
  pass.)
- `ConfigFile`: three starts: one to make the file, one to crash in, one to see what is
  left. Two servers and two kept.
- `InputGate`: buffers of 2 and 3, tails of 4 and 7, one a multiple of a buffer.
- `DeviceRegistry`: three devices, so that one can be before and one behind the one in
  use, and three signals waiting.

### Fairness

`Connection`: the main thread runs; the network thread runs what is queued;
websocketpp bounds an attempt and a closing handshake by timers of its own; the
server answers GET_PARAMS; a timer that is armed expires. An established connection
owes nothing, and nor does the user.

`SioSocket`: both threads run, and a server that is asked again and again answers in
time at last (strong fairness: a time-out may come first any number of times).

`Streaming`: Qt's event loop handles what is queued, a loop's next turn comes, a
created stream comes up, an open stream has callbacks, the server receives what is
sent and becomes ready. Faults, clicks, the network and AUDIO_OUT owe nothing. All of
it is weak fairness: none of these steps is disabled for ever by another actor
without being taken.

`Settings`: Qt handles what is queued and the server receives what is sent, both weakly
fair. The user and the link owe nothing: `ShownAtLast` asks for nothing on a link that
ends or of a slider that is held.

### What the properties say

| Property | Says | Slip it notices |
|---|---|---|
| `NoOverlap` | the two `memcpy`s never share a cell | overflow test off by one |
| `InOrder` | a read yields the next samples, no gap | wraparound forgets the remainder |
| `NoUnderrun` | the length a caller saw is still there | a caller that does not test |
| `StartsPrefilled` | playback starts with the pre-fill there | pre-fill completed too soon |
| `ImplementsFifo` | the ring is a queue | a copy that does not wrap |
| `OpenedIsUp` | `opened()` is never true of a dead websocket | state kept at close |
| `OneAttempt` | no timer beside an attempt | connect without waiting for the thread |
| `ImplementsLink` | seen from outside, one link, bounded retries, word of each end | gives up in silence |
| `LossIsShown`, `ButtonReturns`, `MainReturns` | the window is told, the button comes back, joins end | gives up in silence; button not enabled; websocket not closed |
| `BufferExists` | no note reads the ring of a stream that is gone | no check of the stream |
| `OneButton`, `Agreement` | the window fits the server | a flag or a button kept |
| `StopStops`, `ConversionHasStreams` | Stop stops; a conversion has its streams | Stop told only to a server that confirmed |
| `EmitEnds`, `DiscardEndsInOrder`, `ChunksFlow` | the drain loops end, and chunks keep going | nothing read; a length not set; wrong flag |
| `GateCloses` | a silence is sent for at most a tail and a buffer | tail counted in buffers |
| `OnceEach`, `InOrder` | a message is sent once, in order, lost only with its link or socket | a packet left in the queue; the queue as a stack |
| `ImplementsChannel` | what went out on one link never goes out on another; nothing overtakes | what a lost link has sent is queued again |
| `JoinedFirst` | nothing goes to a namespace not joined | `m_connected` kept over a lost link |
| `Heard`, `Rejoins` | a replaced socket is bound and joined again | listeners bound once; no lookup after a close |
| `Flushed` | what waited goes out once joined | left to the next emit |
| `IdSurvives`, `IdOnDisk` | the client's id outlives crashes and failures outside one window | id not rewritten; file removed, not moved |
| `Restored` | the next start shows what the last Save saw | a line passed through as it was |
| `AttachmentsMeet`, `DecodesAsSaid` | what one end encodes the other decodes, whatever is sent in between and however links end | placeholders numbered from one; a partial packet that outlives its link |
| `WindowShowsStored`, `ShownAtLast` | at rest the window shows what the server has, a combo box only what it offers, and it comes to rest | the last value of a drag not told; settings not asked for again |
| `LengthsAgree` | client and server cut chunks of one length | a slider left where the mouse left it |
| `GateIsShown` | the gate in use is the one shown | sliders set without their handlers |
| `Mirror`, `SelectedStarts` | window and list agree; Start takes what is shown | an entry announced twice; a device in use kept |

## Proofs

`AudioProofs`, for every `BufferSize`, `Prefill`, set of block sizes and length of
behaviour, from `SizeAssumption` only (a positive ring, a pre-fill that fits, reads no
longer than the ring):

| Theorem | Result |
|---|---|
| `TypeCorrect` | `[]TypeOK`: positions in the array, window between 0 and the size |
| `CopiesDisjoint` | `[]NoOverlap` |
| `ReadsInOrder` | `[]InOrder` |
| `CallersSeeEnough` | `[]NoUnderrun` |
| `PlaybackPrefilled` | `StartsPrefilled`: on the loudspeaker's ring playback begins with the pre-fill there |
| `RingIsFifo` | `ImplementsFifo`: every step is a step of `SampleFifo` or a stutter |

None of the invariants is inductive. `IInv` adds what each step relies on: that the window is
what was taken less what was released (`WindowInv`); that room the writer saw can only
grow (`RoomInv`), and samples the reader saw can only grow (`NoUnderrun` itself); that
the positions are as far apart as the samples between them, going round the array
(`PositionInv`); and that those cells hold the right samples (`ContentInv`). `CountInv`
needs no cells and `CellInv` follows with it, so the proof of a step has one part for
each. Lemmas about `Advance`, `Slot` and `Offset` carry the arithmetic of going
round. `NoOverlap` then follows from room and distance. For the pre-fill, `FlagInv`
says who may change the flag: it falls only at the end of a read, and nothing is played
while it is down, so the window the writer tested cannot shrink before it sets the flag.

`RingIsFifo` takes the steps of both threads one by one under `IInv` and `UnreadInv`, that a
block stays in its cells between being copied out and being taken out of the window.
The queue read off the cells is then, in every state, the numbers from `delivered` on
(`UnreadIsLine`): `WPublish` puts a block behind them, `RTake` gets one from the front, and
every other step leaves them as they are.

`AudioProofs` also proves `GateTypes` (`[]GateTypeOK`) and `GateBounded` (`[]GateCloses`) for
every buffer size and tail. The two together are inductive. The types have no run of their own.

`ConnectionProofs`, for every number of attempts, any bound on signals and any set of
circumstances, races included:

| Theorem | Result |
|---|---|
| `TypesKept` | `[]TypeOK`, with `made` never above `Attempts` |
| `OpenedIsThere` | `[]OpenedIsUp` |
| `OneAtATime` | `[]OneAttempt` |
| `ClientIsLink` | `ImplementsLink`: every step is a step of `Link` or a stutter |

`IInv` adds three facts. `StartsAlone`: `connect()` makes a thread only where there is
none, so there is at most one `connect_impl` in the loop's queue and nothing beside it;
without it a second attempt could start beside the first. `CloseAsked`: while a
`close_impl` waits in the queue the state says "closing", or nothing is left that it
could find; without it a close could end a connection the state calls open. `AttemptLeft`:
the timer is armed only for an attempt that is left, which is what makes `Reconnect` a
`Retries` of `Link`. `ClientIsLink` then takes the steps one by one under `IInv`.

`StreamingProofs`, for every ring, callback and chunk length and however many signals wait:

| Theorem | Result |
|---|---|
| `TypesKept` | `[]TypeOK` |
| `RingIsThere` | `[]BufferExists`, in all circumstances |
| `NeverBoth` | `[]OneButton`, in all circumstances |
| `EndsAgree` | `[]Agreement` |
| `StopIsFinal` | `[]StopStops` |
| `StreamsOutlast` | `[]ConversionHasStreams` |

`BufferExists` needs the types; `OneButton` is inductive. The other three speak of a moment
at which nothing is on its way, so what is proved says what is on its way at every other
moment. For `Agreement`, `BeliefInv`: while the link holds, the last answer in the
window's queue is what the client will believe, and it is what the server does (`Believed`);
and a button is offered or an answer due that offers one (`Offered`). For `StopStops`,
`StopHolds`: after Stop there are no streams, no `streamStarted` waits that could send
a SERVER_START, and the last message to the server, if any, is SERVER_STOP. For
`ConversionHasStreams`, `NarrowInv`: outside its exceptions one Start, one SERVER_STOP and
one SERVER_STOPPED follow each other, so no answer to an earlier conversion can end the
streams of a later one.

`SettingsProofs`, for sliders of any length and any number of links and changes:

| Theorem | Result |
|---|---|
| `TypesKept` | `[]TypeOK` |
| `GateShown` | `[]GateIsShown` |
| `ShowsStored` | `[]WindowShowsStored` |
| `LengthsStayEqual` | `[]LengthsAgree` |

The types need `Travels`, that a message or a note on its way carries a value of its
control, and `RoundedStays`, that a control shown to the server and back is at one of its
positions. `GateFollows` is the inductive form of `GateIsShown`, which says nothing while a
slider is held or a message on its way. `ShowInv` says of each control that the server was
told what the window shows, or will be by what is on its way (`Matched`), except while
the settings of a link are awaited: then the user changes nothing (`Undisturbed`) and the answer
is what the server has (`Answers`). The combo boxes have invariants of their own. What one
shows is among its entries (`Selected`), and those are the server's, or the server's list
is yet to come and no other after it (`FreshInv`): so at rest nothing is shown that is not
on offer, whatever was on offer before. If the lists are all the same, the window has that
list or none and never names a model the server would refuse (`OneList`); then the server
was told what the box shows, or keeps what it has, because that is still to be shown, or is
none, or the window wants none of the list (`ModelInv`). For the lengths,
`ConvInv` adds that a SERVER_START on its way has the length the client took behind it in
the queue and none after it (`Starts`), and that the server then cuts by that length
(`Started`).

`ConfigFileProofs`, for any number of starts, servers, models and devices: `IdKept`
(`[]IdSurvives`), `IdThere` (`[]IdOnDisk`) and `SessionRestored` (`Restored`). None is
inductive. `IInv` says in
`Numbered` that a file with lines has an id and one without has none; in `OneId` that
the id the servers know is the one in use or, while the program is down, the one in
`client.conf`; and in `Kept` which of the two files holds it at each step of `Save`.
`SessionRestored` needs the same of everything else that is saved: `Remembered` says which
file, or the buffer, recalls what was saved last at each step of `Save`, and `Shown` that
a window without a model is one that never saw a file. `FirstRemoved` and `HistoryHead` are
about the list of servers, of any length. What is
excepted is what `broken` records: a crash or a failing call between the rename and the
close, and a first file that cannot be made at all.

`DeviceRegistryProofs`, for any devices coming and going any number of times, however far the
main thread lags behind: `ComboMirrors` (`[]Mirror`) and `SelectionStarts`
(`[]SelectedStarts`). `MirrorInv` says that the signals that wait lead from what the
combo box shows to the list: there is a sequence of lists (`past`), the first the one shown,
the last the one there is, and each signal tells how one became the next (`Follows`).
A device that goes adds a list at the end, a handler takes one from the front. Before the
first copy there is nothing but removals that the copy has in it (`Before`). `SelectedInv`
says, outside the exceptions, that ids are positions, that the selection is one that Start
records from (`Good`), and that the signals that wait are the devices the combo box lacks.

`SioSocketProofs`, for any number of links, messages and events in the loop:

| Theorem | Result |
|---|---|
| `WindowHears` | `[]Heard`, in all circumstances |
| `JoinedBefore` | `[]JoinedFirst`, races included |
| `NoneTwiceNoneMissing` | `[]OnceEach`, races included |
| `LeaveInOrder` | `[]InOrder` |
| `SocketIsChannel` | `ImplementsChannel`: every step is a step of `Channel` or a stutter |

`Heard` follows from `Listens`: a joined socket has its listener, or the signal that binds
it waits. `JoinedFirst` has two reasons, one for each of its exceptions. If the server
never leaves, a namespace once joined stays so until the link ends (`StaysInv`). If no
timer expires, the one request and its answer are in one place at a time, and
`PunctualInv` says which: requesting, answering, being in and leaving take turns.
`OnceEach` is about four places: on the wire, in the loop, in the socket's queue, not yet
emitted. Whatever a thread does, a message is in one of them (`Single`), and none of those after
`lost` is missing (`Kept`). The proof sorts the actions by what they do to these places
(`Shape`), and each shape keeps the two. `InOrder` then needs `DrainInv`, that nothing else is to
be sent while what waited is, and that the four places follow each other in the
order of the messages (`Ordered`).

`SocketIsChannel` takes the shapes one by one. What moves between the loop, the queue and
the handler is a stutter; what is lost with a link or a socket is a `Drop`; new messages
are a `Give`. A message that goes out (`Goes`, `Flushes`) was in no other place, by `Single`,
so it is gone from `MayGo` for good, whatever links follow; and by `Ordered` it was the
least there.

`PacketCodecProofs`, for messages of any shape, any number of them and of links:

| Theorem | Result |
|---|---|
| `CodecTypes` | `[]TypeOK` |
| `PartsMeet` | `[]AttachmentsMeet` |
| `HearsWhatIsSaid` | `[]DecodesAsSaid`, acknowledgements included |

Both ends decode by the same rules, so both parts rest on the same lemmas. `RoundTrip`: a
message put together from its text and its attachments is the message. It takes no
induction: the number of a placeholder counts the binary leaves before it, and no two
binary leaves have the same count (`SizesRise`, `NumberFinds`). `Puts`: if the frame that comes
follows what the decoder holds (`Follows`), it adds the attachment that was due or, with
the last one, decodes the message. So it is enough that the frames on their way are a
`Chain` from what the decoder holds on, which ends with a packet that is whole.

Towards the client (`DownInv`) the server writes the frames of a packet together, so they are
one chain; `Numbered` counts the packets along it and says which message each frame is
of, and an acknowledgement asked for changes nothing there. A new link starts with nothing
held. Towards the server (`UpInv`) frames are in three places: `sending`, `tasks` and
`posting`. `Turns` says who comes next: while the network thread empties the queue,
`sending` goes on with what the decoder holds, and what the main thread has handed over or
has in hand waits as a chain that starts a packet of its own; otherwise the main thread's
frames go on with what the decoder holds. It lasts because the network thread begins to
empty the queue only when the namespace has just been joined, before which the main
thread has handed over nothing on this link. An acknowledgement would make it
begin at any time, which is the exception `AttachmentsMeet` states. `Hearing`, that the
server has decoded every message it was told but the one it holds, then gives `PartsMeet`.

Every invariant, action property and refinement of a passing run is stated by one of these
theorems. Only model-checked:

- Liveness: `LossIsShown`, `ButtonReturns`, `MainReturns`, `EmitEnds`,
  `DiscardEndsInOrder`, `ChunksFlow`, `ShownAtLast`, `Flushed` and `Rejoins`. The prover has no
  liveness rules beyond propositional temporal logic and no ENABLED, which fairness is defined by.
- What the comments say and the code does not do (`CancelStops`, `SwapKeepsConverting`,
  `AllShown` and the properties of the other .cfg files): a counterexample is all there is
  to have.

## Known disagreements between code and comments

Each is in `findings`. Three have a run of their own, which TLC must find violated; for
the others a .cfg gives a shortest behaviour.

| Shown by | What happens |
|---|---|
| `connection_cancel` | Cancel between two attempts does not cancel (uwavclient.cpp:1746). |
| `streaming_swap` | A hot-swap zeroes `numOutputSamplesPerChunk` too, and the next AUDIO_OUT ends the conversion (uwavclient.cpp:1569). |
| `settings_gate` | A gate stored as Off, 0 dB, comes back through a slider that ends at -20 as the strictest gate (uwavclient.cpp:821). |
| `RingBuffer_prefill.cfg` | `prefillComplete` is cleared though the ring holds samples (u_ringbuffer.cpp:156). The new burst waits for the writer's next block. |
| `Streaming_alone.cfg` | With the input stream up first, the discard loop takes 0 samples for ever (uwavclient.cpp:317). |
| `Streaming_refused.cfg` | Where PipeWire has no stream to give, the ring made for it stays, and the next Start meets the assertion that there is none (u_audioprovider.cpp:379, 434). |
| `Streaming_unplugged.cfg` | With the microphone unplugged, Start is accepted and converts nothing (uwavclient.cpp:247). |
| `InputGate_tail.cfg` | Short pauses use up the tail of later ones (u_audioprovider.cpp:992). |
| `DeviceRegistry_removal.cfg` | After a removal Start accepts a selection and records from another device (u_audioprovider.cpp:1238). |
| `SioSocket_first.cfg` | After a reconnect a message of the window may be sent before GET_PARAMS (docs/PROTOCOL.md:6): `opened()` is true of the link, the namespace is not yet joined, and `on_connected` sends what waits before the main thread handles the signal. |
| `ConfigFile_flush.cfg` | `Save` removes the old file before the new one is flushed (localconfig.cpp:275-278); a crash then loses both. And `Load` never reads the old file, which the next `Save` deletes as stale, so a crash between rename and close costs the client id, under which the server keeps its settings. |
| `Settings_match.cfg` | A fraction is cut where the others are rounded: some positions come back one lower, and lower again (uwavclient.cpp:813). |
| `Settings_compute.cfg` | LIST_COMPUTE selects a compute device and tells nobody (uwavclient.cpp:1087). |
| `Settings_model.cfg` | LIST_MODELS keeps the model shown and does not tell a server that has none (uwavclient.cpp:970). |
| `Settings_absent.cfg` | LIST_MODELS selects no model if the list lacks both the one selected and the one saved: the window shows none while the server works with one of its list (uwavclient.cpp:1008). |
| `Settings_lists.cfg` | SET_PARAMS looks for the server's model in the last server's list; LIST_MODELS then keeps what was shown before if this server has it too: window and server disagree (uwavclient.cpp:716, 967-1005). |
| `Settings_hasty.cfg` | During the client's own reconnection the sliders stay unlocked, and one released before the answer is put back while the server keeps the new value (uwavclient.cpp:851). |
| `Settings_late.cfg` | Gate and gains reach the audio thread only if a device is active when they are set (uwavclient.cpp:2060). |
| `Settings_keys.cfg` | The keyboard, the wheel and clicks beside the handle move a slider unheard (uwavclient.cpp:2047). |

Others are written into a property as an exception. Dropping the exception makes TLC
show the behaviour:

- `ButtonReturns`: a destination websocketpp refuses leaves `m_con_state` at
  `con_opening`. The next `connect()` returns at once and the button stays disabled.
- `MainReturns` under "races": an expired timer's handler runs between the test of
  `m_con_state` and the join in `connect`; the join then waits for a connection.
- `LossIsShown` under "races": Disconnect crosses a loss, `close()` sets `con_closing`,
  finds nothing to close and no signal comes.
- `EmitEnds` without a link: `EmitSamples` reads nothing when `opened()` is false, and
  the loop around it waits for the ring to shrink (uwavclient.cpp:305-311).
- `StopStops` under "overtake": a `streamStarted` handled after Stop starts the server
  again. `ConversionHasStreams` under "stop twice", "fail", "unplug": when two reasons to
  stop cross, the second SERVER_STOPPED ends the streams of the Start in between, and
  the server then runs without them.
- `Agreement` without a link: `ui_ServerDisconnect` clears the flags only if a stream
  is up (uwavclient.cpp:428-430, 443), so the next connection may inherit them.
- `ChunksFlow` with a ring too small for a chunk and a callback: with 500 ms chunks at
  48 kHz (chunk and ring of 24000 and 24240 samples, callbacks of 1024) the ring fills
  at 23552 and no chunk is ever complete.
- `Mirror` under "early": a device added between the end of the first reading and the
  main thread's copy of it is shown twice. `SelectedStarts` under "single": the only
  device of the first reading is taken for "server"; under "grow": the pointer to the
  device in use dangles.

- `AttachmentsMeet` under "acks": an acknowledgement is a text frame of the network
  thread's, and may come between a text frame of the main thread's and its attachments,
  which the other end then takes for the acknowledgement. The server asks for none.
- `LengthsAgree` under "resize": a chunk slider moved during a conversion tells the server
  the new length, while the client keeps cutting by the old one.
- `InOrder` under "slow": a message is posted, the namespace times out with the answer
  on its way, the next message waits in the new socket, and the late answer sends it
  ahead of the one posted. Under "races" both threads empty the queue at once.
- `Flushed` under "races": `on_connected` finds the queue empty just before `send_packet`,
  which saw `m_connected` false, puts its packet there. It waits for the next emit.
- `JoinedFirst` under "leave": what is posted may cross the server's disconnect. Under
  "slow" and "leave" together a late answer may be to a request that was cancelled since, and
  what waits goes to a namespace that is only asked for.
- `Restored` of a name with a '#': `ParseLine` cuts it (localconfig.cpp:466-470), so the
  device is not selected again, or another of that shorter name is.

## Not modelled

- Devices on the server: `ValidateStartStopState` never accepts them, so no conversion
  runs with one.
- TLS, proxies, HTTP headers, ping scheduling (only its effect, a policy close).
- Acknowledgements and errors of a socket: the window asks for none. `PacketCodec` has
  the frames of an acknowledgement the server asks for.
- Data races inside `std::vector` (u_audioprovider.cpp:678): a change of the list is one
  step. A dangling pointer (u_audioprovider.cpp:713) yields any id.
- Stereo mixing, volume, level meters, statistics, the status line: shown or computed,
  with no control. `streamProps` and what the destructors free: no state outlives them.
- `ServerRequestedInSampleRate` is never called.
- The output side of `DeviceRegistry`, line for line the input side.
- `lib/`: asio, websocketpp and rapidjson are third-party, and by far the most of the
  repository's lines.

## Plan

1. `DeviceRegistry`: a saved device of "server", and the output side beside the input.
