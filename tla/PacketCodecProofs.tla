-------------------------- MODULE PacketCodecProofs -------------------------
(***************************************************************************)
(* Both ends of the link decode what the other encodes, for messages of    *)
(* any shape, any number of them and of links.                             *)
(***************************************************************************)
EXTENDS PacketCodec, FiniteSetTheorems, SequenceTheorems, TLAPS

Leaves == [kind : {"plain", "binary"}, num : Nat, at : Nat]
Messages == Seq(Leaves)
Packets == [type : {"event", "ack"}, ack : BOOLEAN, message : Messages, nth : Nat]

-----------------------------------------------------------------------------
(* A message is encoded and decoded.                                       *)

LEMMA BinariesFinite ==
    ASSUME NEW m \in Messages
    PROVE  /\ DOMAIN m = 1..Len(m) /\ Len(m) \in Nat
           /\ IsFiniteSet(Binaries(m)) /\ Count(m) \in Nat
           /\ \A at \in DOMAIN m : m[at] \in Leaves
<1>1. DOMAIN m = 1..Len(m) /\ Len(m) \in Nat /\ \A at \in 1..Len(m) : m[at] \in Leaves
    BY LenProperties, ElementOfSeq DEF Messages
<1>2. IsFiniteSet(1..Len(m)) /\ Binaries(m) \in SUBSET (1..Len(m))
    BY <1>1, FS_Interval DEF Binaries
<1>3. IsFiniteSet(Binaries(m))
    BY <1>2, FS_Subset
<1> QED
    BY <1>1, <1>3, FS_CardinalityType DEF Count

(* Of two parts the one that comes first has the lower number.             *)
LEMMA SizesRise ==
    ASSUME NEW m \in Messages, NEW a \in Binaries(m), NEW b \in Nat, a < b
    PROVE  /\ SizeAt(m, a) \in Nat /\ SizeAt(m, b) \in Nat
           /\ SizeAt(m, a) < SizeAt(m, b)
           /\ SizeAt(m, b) <= Count(m)
<1> DEFINE A == {other \in Binaries(m) : other < a}
           B == {other \in Binaries(m) : other < b}
<1>1. IsFiniteSet(Binaries(m)) /\ a \in Nat /\ Binaries(m) \subseteq Nat
    <2>1. Binaries(m) \subseteq 1..Len(m)
        BY BinariesFinite DEF Binaries
    <2> QED
        BY <2>1, BinariesFinite
<1>2. A \in SUBSET Binaries(m) /\ B \in SUBSET Binaries(m) /\ A \cup {a} \in SUBSET B /\ a \notin A
    BY <1>1
<1> HIDE DEF A, B
<1>3. /\ IsFiniteSet(A) /\ IsFiniteSet(B) /\ Cardinality(B) <= Cardinality(Binaries(m))
      /\ Cardinality(A) \in Nat /\ Cardinality(B) \in Nat
    BY <1>1, <1>2, FS_Subset, FS_CardinalityType
<1>4. Cardinality(A \cup {a}) = Cardinality(A) + 1
    BY <1>2, <1>3, FS_AddElement
<1>5. Cardinality(A \cup {a}) <= Cardinality(B)
    BY <1>2, <1>3, FS_Subset
<1>6. Cardinality(A) < Cardinality(B)
    BY <1>3, <1>4, <1>5
<1> QED
    BY <1>3, <1>6 DEF SizeAt, Count, A, B

(* The placeholder's number is that of the part in buffers.                *)
LEMMA NumberFinds ==
    ASSUME NEW m \in Messages, NEW at \in Binaries(m)
    PROVE  /\ SizeAt(m, at) \in 0..(Count(m) - 1)
           /\ Buffer(m, SizeAt(m, at) + 1) = m[at]
<1>1. at \in 1..Len(m) /\ Len(m) \in Nat /\ Binaries(m) \subseteq Nat
    BY BinariesFinite DEF Binaries
<1>2. SizeAt(m, at) \in Nat /\ SizeAt(m, at) < SizeAt(m, Len(m) + 1) /\ SizeAt(m, Len(m) + 1) <= Count(m)
      /\ SizeAt(m, Len(m) + 1) \in Nat
    <2>1. Len(m) + 1 \in Nat /\ at < Len(m) + 1
        BY <1>1
    <2> QED
        BY <2>1, SizesRise
<1>3. ASSUME NEW other \in Binaries(m), SizeAt(m, other) = (SizeAt(m, at) + 1) - 1
      PROVE  other = at
    <2>1. SizeAt(m, other) = SizeAt(m, at)
        BY <1>2, <1>3
    <2>2. ~(other < at)
        <3>1. other < at => SizeAt(m, other) < SizeAt(m, at) /\ SizeAt(m, other) \in Nat
            BY <1>1, SizesRise
        <3> QED
            BY <2>1, <3>1
    <2>3. ~(at < other)
        <3>1. at < other => SizeAt(m, at) < SizeAt(m, other) /\ SizeAt(m, other) \in Nat
            BY <1>1, SizesRise
        <3> QED
            BY <2>1, <3>1
    <2> QED
        BY <1>1, <2>2, <2>3
<1>4. SizeAt(m, at) = (SizeAt(m, at) + 1) - 1
    BY <1>2
<1>5. (CHOOSE other \in Binaries(m) : SizeAt(m, other) = (SizeAt(m, at) + 1) - 1) = at
    BY <1>3, <1>4
<1>6. Count(m) \in Nat
    BY BinariesFinite
<1>7. Buffer(m, SizeAt(m, at) + 1) = m[at]
    BY <1>5, Zenon DEF Buffer
<1> QED
    BY <1>2, <1>6, <1>7

(* What holds the parts in order gives the message back.                   *)
LEMMA RoundTrip ==
    ASSUME NEW m \in Messages, NEW buffers,
           Len(buffers) = Count(m), \A k \in 1..Count(m) : buffers[k] = Buffer(m, k)
    PROVE  FromJson(AcceptMessage(m), buffers) = m
<1> DEFINE json == AcceptMessage(m)
<1>1. DOMAIN m = 1..Len(m) /\ m = [at \in DOMAIN m |-> m[at]]
    BY LenProperties DEF Messages
<1>2. DOMAIN json = DOMAIN m
    BY DEF AcceptMessage
<1>3. ASSUME NEW at \in DOMAIN m
      PROVE  (IF json[at].kind # "placeholder" THEN json[at]
              ELSE IF json[at].num < Len(buffers) THEN buffers[json[at].num + 1] ELSE Missing) = m[at]
    <2>1. CASE m[at].kind = "binary"
        <3>1. at \in Binaries(m)
            BY <2>1 DEF Binaries
        <3>2. json[at] = AcceptBinary(m, at)
            BY <2>1 DEF AcceptMessage
        <3>3. json[at].kind = "placeholder" /\ json[at].num = SizeAt(m, at)
            BY <3>2 DEF AcceptBinary, Leaf
        <3>4. SizeAt(m, at) \in 0..(Count(m) - 1) /\ Buffer(m, SizeAt(m, at) + 1) = m[at]
            BY <3>1, NumberFinds
        <3>5. SizeAt(m, at) + 1 \in 1..Count(m) /\ SizeAt(m, at) < Len(buffers)
            BY <3>4, BinariesFinite
        <3> QED
            BY <3>3, <3>4, <3>5
    <2>2. CASE m[at].kind # "binary"
        <3>1. json[at] = m[at]
            BY <2>2 DEF AcceptMessage
        <3>2. m[at].kind # "placeholder"
            BY BinariesFinite DEF Leaves
        <3> QED
            BY <3>1, <3>2
    <2> QED
        BY <2>1, <2>2
<1> HIDE DEF json
<1>4. FromJson(json, buffers) = [at \in DOMAIN m |-> m[at]]
    BY <1>2, <1>3 DEF FromJson
<1> QED
    BY <1>1, <1>4 DEF json

LEMMA MessageTyped ==
    ASSUME NEW shape \in Shapes, NEW num \in Nat
    PROVE  MessageOf(shape, num) \in Messages
<1>1. shape \in Seq({"plain", "binary"})
    BY CodecAssumption
<1>2. Len(shape) \in Nat /\ \A at \in 1..Len(shape) : shape[at] \in {"plain", "binary"}
    BY <1>1, LenProperties, ElementOfSeq
<1>3. \A at \in 1..Len(shape) : Leaf(shape[at], num, at) \in Leaves
    BY <1>2 DEF Leaf, Leaves
<1> QED
    BY <1>2, <1>3, IsASeq DEF MessageOf, Messages

-----------------------------------------------------------------------------
(* Frames, and the order in which a decoder can make something of them.    *)

Controls == {Handshake, Joined} \cup {Ping(n) : n \in Nat}
Texts == {TextOf(p) : p \in Packets}
Attachments == {AttachmentOf(p, k) : p \in Packets, k \in Nat}
Frames == Controls \cup Texts \cup Attachments

(* An attachment is due after a frame; and after what a decoder holds.     *)
Due(f) == f.part < Count(f.of.message)
Start == [of |-> Packet("-", FALSE, <<>>, 0), part |-> 0]
Ahead(w) == IF w.on THEN [of |-> w.text.of, part |-> Len(w.buffers)] ELSE Start

(* The next frame is the attachment that is due, or else starts a packet.  *)
Follows(a, b) == IF Due(a) THEN b = AttachmentOf(a.of, a.part + 1) ELSE ~b.binary

Buffers(p) == {Buffer(p.message, k) : k \in Nat}

(* A partial packet holds attachments of its own, the first ones.          *)
Collecting(w) ==
    /\ w.on \in BOOLEAN
    /\ w.on => \E p \in Packets :
                  /\ w.text = TextOf(p) /\ w.buffers \in Seq(Buffers(p))
                  /\ Len(w.buffers) < Count(p.message)
                  /\ \A k \in 1..Len(w.buffers) : w.buffers[k] = Buffer(p.message, k)

LEMMA PacketIs ==
    ASSUME NEW p \in Packets
    PROVE  /\ p.message \in Messages /\ p.type \in {"event", "ack"} /\ p.ack \in BOOLEAN
           /\ p.nth \in Nat /\ Count(p.message) \in Nat
BY BinariesFinite DEF Packets

LEMMA TextIs ==
    ASSUME NEW p
    PROVE  /\ ~TextOf(p).binary /\ TextOf(p).frame = "message" /\ TextOf(p).type = TypeOf(p)
           /\ TextOf(p).pending = Count(p.message) /\ (TextOf(p).ack <=> p.ack)
           /\ TextOf(p).json = AcceptMessage(p.message)
           /\ TextOf(p).of = p /\ TextOf(p).part = 0
BY DEF TextOf, Text

LEMMA AttachmentIs ==
    ASSUME NEW p, NEW k
    PROVE  /\ AttachmentOf(p, k).binary /\ AttachmentOf(p, k).frame = "-"
           /\ AttachmentOf(p, k).type = "-" /\ ~AttachmentOf(p, k).ack
           /\ AttachmentOf(p, k).json[1] = Buffer(p.message, k)
           /\ AttachmentOf(p, k).of = p /\ AttachmentOf(p, k).part = k
BY DEF AttachmentOf

LEMMA EmptyMessage == <<>> \in Messages /\ Count(<<>>) = 0 /\ FromJson(<<>>, <<>>) = <<>>
<1>1. <<>> \in Messages
    BY EmptySeq DEF Messages
<1>2. Binaries(<<>>) = {}
    BY DEF Binaries
<1>3. Count(<<>>) = 0
    BY <1>2, FS_EmptySet DEF Count
<1> DEFINE none == FromJson(<<>>, <<>>)
<1>4. none = [at \in {} |-> none[at]]
    BY DEF FromJson
<1>5. none = <<>>
    BY <1>4
<1> QED
    BY <1>1, <1>3, <1>5

LEMMA ControlIs ==
    ASSUME NEW f \in Controls
    PROVE  /\ ~f.binary /\ f.part = 0 /\ f.of.message = <<>> /\ f.json = <<>>
           /\ ~f.ack /\ f.of.nth \in Nat /\ ~Due(f)
           /\ \/ f = Handshake /\ f.frame = "open" /\ f.type = "-" /\ f.of.nth = 0
              \/ f = Joined /\ f.frame = "message" /\ f.type = "connect" /\ f.of.nth = 0
              \/ f.frame = "ping" /\ f.type = "-" /\ f = Ping(f.of.nth)
<1>1. ASSUME NEW frame, NEW type, NEW n \in Nat, f = Control(frame, type, n)
      PROVE  /\ ~f.binary /\ f.part = 0 /\ f.of.message = <<>> /\ f.json = <<>>
             /\ ~f.ack /\ f.frame = frame /\ f.type = type /\ f.of.nth = n
    BY <1>1 DEF Control, Text, Packet
<1>2. f.part = 0 /\ f.of.message = <<>> => ~Due(f)
    BY EmptyMessage DEF Due
<1>3. CASE f = Handshake
    <2>1. 0 \in Nat /\ f = Control("open", "-", 0)
        BY <1>3 DEF Handshake
    <2> QED
        BY <1>1, <1>2, <1>3, <2>1
<1>4. CASE f = Joined
    <2>1. 0 \in Nat /\ f = Control("message", "connect", 0)
        BY <1>4 DEF Joined
    <2> QED
        BY <1>1, <1>2, <1>4, <2>1
<1>5. ASSUME NEW n \in Nat, f = Ping(n)
      PROVE  /\ ~f.binary /\ f.part = 0 /\ f.of.message = <<>> /\ f.json = <<>>
             /\ ~f.ack /\ f.of.nth = n /\ f.frame = "ping" /\ f.type = "-"
    <2>1. f = Control("ping", "-", n)
        BY <1>5 DEF Ping
    <2> QED
        BY <1>1, <2>1
<1>6. CASE f \in {Ping(n) : n \in Nat}
    <2>1. PICK n \in Nat : f = Ping(n)
        BY <1>6
    <2> QED
        BY <1>2, <1>5, <2>1
<1> QED
    BY <1>3, <1>4, <1>6 DEF Controls

LEMMA FrameIs ==
    ASSUME NEW f \in Frames
    PROVE  /\ f.frame # "pong" /\ f.part \in Nat
           /\ f.of.message \in Messages /\ f.of.nth \in Nat /\ Count(f.of.message) \in Nat
           /\ ~f.binary => f.part = 0 /\ (f \in Controls \/ (f.of \in Packets /\ f = TextOf(f.of)))
           /\ f.binary => f.of \in Packets /\ f = AttachmentOf(f.of, f.part)
<1>1. CASE f \in Controls
    <2>1. ~f.binary /\ f.part = 0 /\ f.of.message = <<>> /\ f.of.nth \in Nat
        BY <1>1, ControlIs
    <2>2. f.frame # "pong"
        BY <1>1, ControlIs
    <2>3. f.of.message \in Messages /\ Count(f.of.message) \in Nat
        BY <2>1, EmptyMessage
    <2> QED
        BY <1>1, <2>1, <2>2, <2>3
<1>2. CASE f \in Texts
    <2>1. PICK p \in Packets : f = TextOf(p)
        BY <1>2 DEF Texts
    <2>2. ~f.binary /\ f.part = 0 /\ f.of = p /\ f.frame # "pong"
        BY <2>1, TextIs
    <2>3. p.message \in Messages /\ p.nth \in Nat /\ Count(p.message) \in Nat
        BY PacketIs
    <2> QED
        BY <2>1, <2>2, <2>3
<1>3. CASE f \in Attachments
    <2>1. PICK p \in Packets, k \in Nat : f = AttachmentOf(p, k)
        BY <1>3 DEF Attachments
    <2>2. f.binary /\ f.part = k /\ f.of = p /\ f.frame # "pong"
        <3>1. f.binary /\ f.part = k /\ f.of = p /\ f.frame = "-"
            <4>1. /\ AttachmentOf(p, k).binary /\ AttachmentOf(p, k).part = k
                  /\ AttachmentOf(p, k).of = p /\ AttachmentOf(p, k).frame = "-"
                BY AttachmentIs
            <4> QED
                BY <2>1, <4>1
        <3>2. f.frame # "pong"
            BY <3>1
        <3> QED
            BY <3>1, <3>2
    <2>3. p.message \in Messages /\ p.nth \in Nat /\ Count(p.message) \in Nat
        BY PacketIs
    <2> QED
        BY <2>1, <2>2, <2>3
<1> QED
    BY <1>1, <1>2, <1>3 DEF Frames

(* What the decoder makes of the frame that is due.                        *)
LEMMA Puts ==
    ASSUME NEW w, Collecting(w), NEW f \in Frames, Follows(Ahead(w), f)
    PROVE  LET put == PutPayload(w, f)
           IN  /\ Collecting(put.partial)
               /\ IF Due(f)
                  THEN /\ put.decoded = <<>> /\ put.partial.on
                       /\ put.partial.text = TextOf(f.of)
                       /\ Len(put.partial.buffers) = f.part
                  ELSE /\ put.partial = NoPartial
                       /\ put.decoded = <<put.decoded[1]>>
                       /\ put.decoded[1].json = f.of.message
                       /\ f \in Controls => /\ put.decoded[1].frame = f.frame
                                            /\ put.decoded[1].type = f.type
                                            /\ ~put.decoded[1].ack
                       /\ f \notin Controls => /\ put.decoded[1].frame = "message"
                                               /\ put.decoded[1].type = TypeOf(f.of)
                                               /\ (put.decoded[1].ack <=> f.of.ack)
<1> DEFINE put == PutPayload(w, f)
<1>1. /\ NoPartial.on = FALSE /\ Collecting(NoPartial)
      /\ \A text, buffers : /\ Partial(text, buffers).on = TRUE
                            /\ Partial(text, buffers).text = text
                            /\ Partial(text, buffers).buffers = buffers
    BY DEF NoPartial, Partial, Collecting
<1>2. \A text, buffers :
          /\ Waits(text, buffers).partial = Partial(text, buffers)
          /\ Waits(text, buffers).decoded = <<>>
          /\ Decodes(text, buffers).partial = NoPartial
          /\ Decodes(text, buffers).decoded = <<[text EXCEPT !.json = FromJson(@, buffers)]>>
    BY DEF Waits, Decodes
<1>3. ASSUME NEW p \in Packets, NEW buffers, put = Decodes(TextOf(p), buffers),
             f.of = p, f \notin Controls, ~Due(f),
             Len(buffers) = Count(p.message),
             \A k \in 1..Count(p.message) : buffers[k] = Buffer(p.message, k)
      PROVE  /\ put.partial = NoPartial /\ put.decoded = <<put.decoded[1]>>
             /\ put.decoded[1].json = p.message /\ put.decoded[1].frame = "message"
             /\ put.decoded[1].type = TypeOf(p) /\ (put.decoded[1].ack <=> p.ack)
    <2> DEFINE d == [TextOf(p) EXCEPT !.json = FromJson(@, buffers)]
    <2>1. put.decoded = <<d>> /\ put.partial = NoPartial
        BY <1>2, <1>3
    <2>2. /\ d.json = FromJson(AcceptMessage(p.message), buffers) /\ d.frame = "message"
          /\ d.type = TypeOf(p) /\ (d.ack <=> p.ack)
        BY DEF TextOf, Text
    <2>3. FromJson(AcceptMessage(p.message), buffers) = p.message
        BY <1>3, RoundTrip, PacketIs
    <2> HIDE DEF d
    <2> QED
        BY <2>1, <2>2, <2>3
<1>4. CASE w.on
    <2>1. PICK p \in Packets : /\ w.text = TextOf(p) /\ w.buffers \in Seq(Buffers(p))
                               /\ Len(w.buffers) < Count(p.message)
                               /\ \A k \in 1..Len(w.buffers) : w.buffers[k] = Buffer(p.message, k)
        BY <1>4 DEF Collecting
    <2> DEFINE k == Len(w.buffers) + 1
    <2>2. Len(w.buffers) \in Nat /\ Count(p.message) \in Nat /\ k \in Nat /\ k <= Count(p.message)
        BY <2>1, LenProperties, PacketIs
    <2>3. Ahead(w).of = p /\ Ahead(w).part = Len(w.buffers) /\ Due(Ahead(w))
        BY <1>4, <2>1, TextIs DEF Ahead, Due
    <2>4. f = AttachmentOf(p, k)
        BY <2>3 DEF Follows
    <2>5. f.binary /\ f.json[1] = Buffer(p.message, k) /\ f.of = p /\ f.part = k
        <3>1. /\ AttachmentOf(p, k).binary /\ AttachmentOf(p, k).json[1] = Buffer(p.message, k)
              /\ AttachmentOf(p, k).of = p /\ AttachmentOf(p, k).part = k
            BY AttachmentIs
        <3> HIDE DEF k
        <3> QED
            BY <2>4, <3>1
    <2>6. f \notin Controls
        BY <2>5, ControlIs
    <2> DEFINE buffers == Append(w.buffers, Buffer(p.message, k))
    <2>7. /\ buffers \in Seq(Buffers(p)) /\ Len(buffers) = k
          /\ \A j \in 1..k : buffers[j] = Buffer(p.message, j)
        <3>1. Buffer(p.message, k) \in Buffers(p)
            BY <2>2 DEF Buffers
        <3>2. /\ buffers \in Seq(Buffers(p)) /\ Len(buffers) = Len(w.buffers) + 1
              /\ \A j \in 1..Len(w.buffers) : buffers[j] = w.buffers[j]
              /\ buffers[Len(w.buffers) + 1] = Buffer(p.message, k)
            BY <2>1, <3>1, AppendProperties
        <3>3. \A j \in 1..k : j \in 1..Len(w.buffers) \/ j = Len(w.buffers) + 1
            BY <2>2
        <3> HIDE DEF buffers
        <3> QED
            BY <2>1, <3>2, <3>3
    <2>8. put = IF k < Count(p.message) THEN Waits(TextOf(p), buffers) ELSE Decodes(TextOf(p), buffers)
        <3>1. put = ParseBuffer(w, f)
            BY <1>4 DEF PutPayload
        <3>2. w.text.pending = Count(p.message)
            BY <2>1, TextIs
        <3>3. Append(w.buffers, IF f.binary THEN f.json[1] ELSE Missing) = buffers
            BY <2>5
        <3> HIDE DEF buffers, put
        <3> QED
            BY <2>1, <2>7, <3>1, <3>2, <3>3 DEF ParseBuffer
    <2>9. Due(f) <=> k < Count(p.message)
        BY <2>5 DEF Due
    <2> HIDE DEF buffers, k, put
    <2>10. CASE k < Count(p.message)
        <3>1. put.partial = Partial(TextOf(p), buffers) /\ put.decoded = <<>>
            BY <1>2, <2>8, <2>10
        <3>2. /\ put.partial.on = TRUE /\ put.partial.text = TextOf(p)
              /\ put.partial.buffers = buffers
            BY <1>1, <3>1
        <3>3. Collecting(put.partial)
            BY <2>7, <2>10, <3>2 DEF Collecting
        <3> QED
            BY <2>5, <2>7, <2>9, <2>10, <3>1, <3>2, <3>3 DEF put
    <2>11. CASE ~(k < Count(p.message))
        <3>1. k = Count(p.message)
            BY <2>2, <2>11
        <3>2. /\ put.partial = NoPartial /\ put.decoded = <<put.decoded[1]>>
              /\ put.decoded[1].json = p.message /\ put.decoded[1].frame = "message"
              /\ put.decoded[1].type = TypeOf(p) /\ (put.decoded[1].ack <=> p.ack)
            BY <1>3, <2>5, <2>6, <2>7, <2>8, <2>9, <2>11, <3>1 DEF put
        <3> QED
            BY <1>1, <2>5, <2>6, <2>9, <2>11, <3>2 DEF put
    <2> QED
        BY <2>10, <2>11
<1>5. CASE ~w.on
    <2>1. ~f.binary
        BY <1>5, EmptyMessage DEF Follows, Ahead, Due, Start, Packet
    <2>2. put = Parse(f)
        BY <1>5, <2>1 DEF PutPayload
    <2>3. f.part = 0
        BY <2>1, FrameIs
    <2>4. CASE f \in Controls
        <3>1. /\ f.type \notin {"binary_event", "binary_ack"} /\ ~Due(f) /\ f.json = <<>>
              /\ f.of.message = <<>> /\ ~f.ack
            BY <2>4, ControlIs
        <3> DEFINE d == [f EXCEPT !.json = FromJson(@, <<>>)]
        <3>2. put = Decodes(f, <<>>)
            BY <2>2, <3>1 DEF Parse
        <3>3. put.partial = NoPartial /\ put.decoded = <<d>>
            BY <1>2, <3>2
        <3>4. d.json = FromJson(f.json, <<>>) /\ d.frame = f.frame /\ d.type = f.type /\ (d.ack <=> f.ack)
            <4>1. PICK frame, type, n : f = Control(frame, type, n)
                BY <2>4 DEF Controls, Handshake, Joined, Ping
            <4> QED
                BY <4>1 DEF Control, Text
        <3>5. d.json = f.of.message
            BY <3>1, <3>4, EmptyMessage
        <3> HIDE DEF d
        <3> QED
            BY <1>1, <2>4, <3>1, <3>3, <3>4, <3>5
    <2>5. CASE f \notin Controls
        <3>1. f.of \in Packets /\ f = TextOf(f.of)
            BY <2>1, <2>5, FrameIs
        <3>2. PICK p \in Packets : f = TextOf(p) /\ f.of = p
            BY <3>1
        <3>3. f.type = TypeOf(p) /\ Count(p.message) \in Nat /\ p.type \in {"event", "ack"}
            BY <3>2, TextIs, PacketIs
        <3>4. Due(f) <=> Count(p.message) # 0
            BY <2>3, <3>2, <3>3 DEF Due
        <3>5. CASE Count(p.message) = 0
            <4>1. f.type \notin {"binary_event", "binary_ack"}
                BY <3>3, <3>5 DEF TypeOf
            <4>2. put = Decodes(TextOf(p), <<>>)
                BY <2>2, <3>2, <4>1 DEF Parse
            <4>3. Len(<<>>) = Count(p.message) /\ \A k \in 1..Count(p.message) : <<>>[k] = Buffer(p.message, k)
                BY <3>5
            <4> HIDE DEF put
            <4>4. /\ put.partial = NoPartial /\ put.decoded = <<put.decoded[1]>>
                  /\ put.decoded[1].json = p.message /\ put.decoded[1].frame = "message"
                  /\ put.decoded[1].type = TypeOf(p) /\ (put.decoded[1].ack <=> p.ack)
                BY <1>3, <2>5, <3>2, <3>4, <3>5, <4>2, <4>3 DEF put
            <4> QED
                BY <1>1, <2>5, <3>2, <3>4, <3>5, <4>4 DEF put
        <3>6. CASE Count(p.message) # 0
            <4>1. f.type \in {"binary_event", "binary_ack"}
                BY <3>3, <3>6 DEF TypeOf
            <4>2. put = Waits(TextOf(p), <<>>)
                BY <2>2, <3>2, <4>1 DEF Parse
            <4> HIDE DEF put
            <4>3. /\ put.decoded = <<>> /\ put.partial.on = TRUE /\ put.partial.text = TextOf(p)
                  /\ put.partial.buffers = <<>>
                BY <1>1, <1>2, <4>2
            <4>4. <<>> \in Seq(Buffers(p)) /\ Len(<<>>) = 0
                BY EmptySeq
            <4>5. Collecting(put.partial)
                <5>1. /\ put.partial.text = TextOf(p) /\ put.partial.buffers \in Seq(Buffers(p))
                      /\ Len(put.partial.buffers) < Count(p.message)
                    BY <3>3, <3>6, <4>3, <4>4
                <5>2. \A k \in 1..Len(put.partial.buffers) :
                          put.partial.buffers[k] = Buffer(p.message, k)
                    BY <4>3, <4>4
                <5> QED
                    BY <4>3, <5>1, <5>2, Zenon DEF Collecting
            <4> QED
                BY <2>3, <3>2, <3>4, <3>6, <4>3, <4>4, <4>5 DEF put
        <3> QED
            BY <3>5, <3>6
    <2> QED
        BY <2>4, <2>5
<1>6. w.on \in BOOLEAN
    BY DEF Collecting
<1> QED
    BY <1>4, <1>5, <1>6

(* So what follows the frame follows what the decoder then holds.          *)
LEMMA PutsAhead ==
    ASSUME NEW w, Collecting(w), NEW f \in Frames, Follows(Ahead(w), f)
    PROVE  LET ahead == Ahead(PutPayload(w, f).partial)
           IN  /\ Due(ahead) <=> Due(f)
               /\ \A g : Follows(f, g) <=> Follows(ahead, g)
<1> DEFINE left == PutPayload(w, f).partial
<1>1. CASE Due(f)
    <2>1. left.on /\ left.text.of = f.of /\ Len(left.buffers) = f.part
        <3>1. left.on /\ left.text = TextOf(f.of) /\ Len(left.buffers) = f.part
            BY <1>1, Puts
        <3> QED
            BY <3>1, TextIs, Zenon
    <2>2. Ahead(left).of = f.of /\ Ahead(left).part = f.part
        BY <2>1 DEF Ahead
    <2> QED
        BY <2>2 DEF Follows, Due
<1>2. CASE ~Due(f)
    <2>1. left = NoPartial
        BY <1>2, Puts
    <2>2. Ahead(left) = Start
        BY <2>1 DEF Ahead, NoPartial
    <2>3. ~Due(Start)
        BY EmptyMessage DEF Due, Start, Packet
    <2> QED
        BY <1>2, <2>2, <2>3 DEF Follows
<1> QED
    BY <1>1, <1>2

(* An attachment is due exactly when a packet is partial.                  *)
LEMMA OnIsDue ==
    ASSUME NEW w, Collecting(w)
    PROVE  /\ w.on <=> Due(Ahead(w))
           /\ w.on => w.text.of \in Packets /\ w.text = TextOf(w.text.of)
                      /\ Len(w.buffers) < w.text.pending
<1>1. CASE w.on
    <2>1. PICK p \in Packets : w.text = TextOf(p) /\ Len(w.buffers) < Count(p.message)
        BY <1>1 DEF Collecting
    <2>2. w.text.of = p /\ w.text.pending = Count(p.message)
        BY <2>1, TextIs
    <2>3. Ahead(w).of = p /\ Ahead(w).part = Len(w.buffers)
        BY <1>1, <2>2 DEF Ahead
    <2> QED
        BY <1>1, <2>1, <2>2, <2>3 DEF Due
<1>2. CASE ~w.on
    BY <1>2, EmptyMessage DEF Due, Start, Packet, Ahead
<1> QED
    BY <1>1, <1>2

-----------------------------------------------------------------------------
(* Frames in a row, each of which follows the last.                        *)

Chain(a, s) ==
    /\ s \in Seq(Frames)
    /\ IF s = <<>> THEN ~Due(a) ELSE Follows(a, s[1]) /\ ~Due(s[Len(s)])
    /\ \A i \in 1..Len(s) : i > 1 => Follows(s[i - 1], s[i])

(* n frames that start a packet have come; last, when the row has.         *)
Starts(f) == ~f.binary /\ f \notin Controls
Counted(n, f) == IF Starts(f) THEN n + 1 ELSE n
Numbered(n, s, last) ==
    /\ IF s = <<>> THEN n = last ELSE s[1].of.nth = Counted(n, s[1]) /\ s[Len(s)].of.nth = last
    /\ \A i \in 1..Len(s) : i > 1 => s[i].of.nth = Counted(s[i - 1].of.nth, s[i])

LEMMA NotDue ==
    ASSUME NEW a, NEW b, ~Due(a), ~Due(b)
    PROVE  \A s : Chain(a, s) <=> Chain(b, s)
BY DEF Chain, Follows

LEMMA StartNotDue == ~Due(Start) /\ Ahead(NoPartial) = Start
BY EmptyMessage DEF Due, Start, Packet, Ahead, NoPartial

LEMMA ChainTail ==
    ASSUME NEW a, NEW s, Chain(a, s), s # <<>>
    PROVE  /\ Head(s) = s[1] /\ s[1] \in Frames /\ Follows(a, s[1]) /\ Tail(s) \in Seq(Frames)
           /\ Chain(s[1], Tail(s))
           /\ \A n, last : Numbered(n, s, last) =>
                  s[1].of.nth = Counted(n, s[1]) /\ Numbered(s[1].of.nth, Tail(s), last)
<1>1. /\ s \in Seq(Frames) /\ Len(s) \in Nat \ {0} /\ Head(s) = s[1]
      /\ Follows(a, s[1]) /\ ~Due(s[Len(s)])
      /\ \A i \in 1..Len(s) : i > 1 => Follows(s[i - 1], s[i])
    BY EmptySeq DEF Chain
<1>2. s[1] \in Frames
    BY <1>1, ElementOfSeq
<1>3. /\ Tail(s) \in Seq(Frames) /\ Len(Tail(s)) = Len(s) - 1
      /\ \A i \in 1..Len(Tail(s)) : Tail(s)[i] = s[i + 1]
    BY <1>1, HeadTailProperties
<1> DEFINE t == Tail(s)
<1> HIDE DEF t
<1>4. /\ t \in Seq(Frames) /\ Len(t) = Len(s) - 1 /\ \A i \in 1..Len(t) : t[i] = s[i + 1]
    BY <1>3 DEF t
<1>5. t = <<>> <=> Len(s) = 1
    BY <1>1, <1>4, EmptySeq
<1>6. t # <<>> => t[1] = s[2] /\ t[Len(t)] = s[Len(s)] /\ 2 \in 1..Len(s)
    BY <1>1, <1>4, <1>5
<1>7. \A i \in 1..Len(t) : i > 1 => t[i] = s[i + 1] /\ t[i - 1] = s[(i + 1) - 1] /\ i + 1 \in 1..Len(s)
    BY <1>1, <1>4
<1>8. Chain(s[1], t)
    <2>1. IF t = <<>> THEN ~Due(s[1]) ELSE Follows(s[1], t[1]) /\ ~Due(t[Len(t)])
        <3>1. t = <<>> => ~Due(s[1])
            BY <1>1, <1>5
        <3>2. t # <<>> => Follows(s[2 - 1], s[2])
            BY <1>1, <1>6
        <3> QED
            BY <1>1, <1>6, <3>1, <3>2
    <2>2. \A i \in 1..Len(t) : i > 1 => Follows(t[i - 1], t[i])
        <3> TAKE i \in 1..Len(t)
        <3> HAVE i > 1
        <3>1. t[i] = s[i + 1] /\ t[i - 1] = s[(i + 1) - 1] /\ i + 1 \in 1..Len(s) /\ i + 1 > 1
            BY <1>7
        <3>2. Follows(s[(i + 1) - 1], s[i + 1])
            BY <1>1, <3>1
        <3> QED
            BY <3>1, <3>2
    <2> QED
        BY <1>4, <2>1, <2>2 DEF Chain
<1>9. ASSUME NEW n, NEW last, Numbered(n, s, last)
      PROVE  s[1].of.nth = Counted(n, s[1]) /\ Numbered(s[1].of.nth, t, last)
    <2>1. /\ s[1].of.nth = Counted(n, s[1]) /\ s[Len(s)].of.nth = last
          /\ \A i \in 1..Len(s) : i > 1 => s[i].of.nth = Counted(s[i - 1].of.nth, s[i])
        BY <1>9 DEF Numbered
    <2>2. IF t = <<>> THEN s[1].of.nth = last
          ELSE t[1].of.nth = Counted(s[1].of.nth, t[1]) /\ t[Len(t)].of.nth = last
        <3>1. t # <<>> => s[2].of.nth = Counted(s[2 - 1].of.nth, s[2])
            BY <1>6, <2>1
        <3> QED
            BY <1>5, <1>6, <2>1, <3>1
    <2>3. \A i \in 1..Len(t) : i > 1 => t[i].of.nth = Counted(t[i - 1].of.nth, t[i])
        <3> TAKE i \in 1..Len(t)
        <3> HAVE i > 1
        <3>1. t[i] = s[i + 1] /\ t[i - 1] = s[(i + 1) - 1] /\ i + 1 \in 1..Len(s) /\ i + 1 > 1
            BY <1>7
        <3>2. s[i + 1].of.nth = Counted(s[(i + 1) - 1].of.nth, s[i + 1])
            BY <2>1, <3>1
        <3> QED
            BY <3>1, <3>2
    <2> QED
        BY <2>1, <2>2, <2>3 DEF Numbered
<1> QED
    BY <1>1, <1>2, <1>3, <1>8, <1>9 DEF t

LEMMA ChainConcat ==
    ASSUME NEW a, NEW s, NEW b, NEW t, Chain(a, s), ~Due(b), Chain(b, t)
    PROVE  /\ s \o t \in Seq(Frames) /\ Chain(a, s \o t)
           /\ \A n, m, last : Numbered(n, s, m) /\ Numbered(m, t, last) =>
                  Numbered(n, s \o t, last)
<1>1. s \in Seq(Frames) /\ t \in Seq(Frames) /\ Len(s) \in Nat /\ Len(t) \in Nat
    BY LenProperties DEF Chain
<1>2. CASE s = <<>>
    <2>1. s \o t = t
        BY <1>1, <1>2, ConcatEmptySeq
    <2>2. ~Due(a)
        BY <1>2 DEF Chain
    <2>3. \A n, m : Numbered(n, s, m) => n = m
        BY <1>2 DEF Numbered
    <2> QED
        BY <1>1, <2>1, <2>2, <2>3, NotDue
<1>3. CASE t = <<>>
    <2>1. s \o t = s
        BY <1>1, <1>3, ConcatEmptySeq
    <2>2. \A n, m : Numbered(n, t, m) => n = m
        BY <1>3 DEF Numbered
    <2> QED
        BY <1>1, <2>1, <2>2
<1>4. CASE s # <<>> /\ t # <<>>
    <2> DEFINE u == s \o t
    <2> HIDE DEF u
    <2>1. Len(s) > 0 /\ Len(t) > 0
        BY <1>1, <1>4, EmptySeq
    <2>2. /\ u \in Seq(Frames) /\ Len(u) = Len(s) + Len(t)
          /\ \A i \in 1..Len(u) : u[i] = IF i <= Len(s) THEN s[i] ELSE t[i - Len(s)]
        BY <1>1, ConcatProperties DEF u
    <2>3. u # <<>> /\ u[1] = s[1] /\ u[Len(u)] = t[Len(t)]
        <3>1. Len(u) > 0 /\ 1 \in 1..Len(u) /\ Len(u) \in 1..Len(u)
            BY <1>1, <2>1, <2>2
        <3>2. u # <<>>
            BY <3>1, EmptySeq
        <3> QED
            BY <1>1, <2>1, <2>2, <3>1, <3>2
    <2>4. \A i \in 1..Len(u) : i > 1 =>
              \/ i \in 1..Len(s) /\ u[i - 1] = s[i - 1] /\ u[i] = s[i]
              \/ u[i - 1] = s[Len(s)] /\ u[i] = t[1]
              \/ /\ i - Len(s) \in 1..Len(t) /\ i - Len(s) > 1
                 /\ u[i - 1] = t[(i - Len(s)) - 1] /\ u[i] = t[i - Len(s)]
        <3> TAKE i \in 1..Len(u)
        <3> HAVE i > 1
        <3>1. i - 1 \in 1..Len(u)
            BY <1>1, <2>2
        <3>2. /\ u[i] = IF i <= Len(s) THEN s[i] ELSE t[i - Len(s)]
              /\ u[i - 1] = IF i - 1 <= Len(s) THEN s[i - 1] ELSE t[(i - 1) - Len(s)]
            BY <2>2, <3>1
        <3>3. CASE i <= Len(s)
            BY <1>1, <2>2, <3>2, <3>3
        <3>4. CASE i = Len(s) + 1
            BY <1>1, <2>2, <3>2, <3>4
        <3>5. CASE i > Len(s) + 1
            <4>1. (i - 1) - Len(s) = (i - Len(s)) - 1
                BY <1>1
            <4> QED
                BY <1>1, <2>2, <3>2, <3>5, <4>1
        <3> QED
            BY <1>1, <2>2, <3>3, <3>4, <3>5
    <2>5. /\ Follows(a, s[1]) /\ ~Due(s[Len(s)]) /\ Follows(b, t[1]) /\ ~Due(t[Len(t)])
          /\ \A i \in 1..Len(s) : i > 1 => Follows(s[i - 1], s[i])
          /\ \A i \in 1..Len(t) : i > 1 => Follows(t[i - 1], t[i])
        BY <1>4 DEF Chain
    <2>6. Follows(s[Len(s)], t[1])
        BY <2>5 DEF Follows
    <2>7. \A i \in 1..Len(u) : i > 1 => Follows(u[i - 1], u[i])
        BY <2>4, <2>5, <2>6
    <2>8. Chain(a, u)
        BY <2>2, <2>3, <2>5, <2>7 DEF Chain
    <2>9. ASSUME NEW n, NEW m, NEW last, Numbered(n, s, m), Numbered(m, t, last)
          PROVE  Numbered(n, u, last)
        <3>1. /\ s[1].of.nth = Counted(n, s[1]) /\ s[Len(s)].of.nth = m
              /\ t[1].of.nth = Counted(m, t[1]) /\ t[Len(t)].of.nth = last
              /\ \A i \in 1..Len(s) : i > 1 => s[i].of.nth = Counted(s[i - 1].of.nth, s[i])
              /\ \A i \in 1..Len(t) : i > 1 => t[i].of.nth = Counted(t[i - 1].of.nth, t[i])
            BY <1>4, <2>9 DEF Numbered
        <3>2. \A i \in 1..Len(u) : i > 1 => u[i].of.nth = Counted(u[i - 1].of.nth, u[i])
            BY <2>4, <3>1
        <3> QED
            BY <2>3, <3>1, <3>2 DEF Numbered
    <2> QED
        BY <2>2, <2>8, <2>9 DEF u
<1> QED
    BY <1>2, <1>3, <1>4

(* What is encoded is such a row, and so is a control frame.               *)
LEMMA EncodeChain ==
    ASSUME NEW p \in Packets
    PROVE  /\ Encode(p) \in Seq(Frames) /\ Chain(Start, Encode(p))
           /\ \A i \in 1..Len(Encode(p)) : Encode(p)[i].of = p
           /\ Numbered(p.nth - 1, Encode(p), p.nth)
<1> DEFINE n == Count(p.message)
           parts == [k \in 1..n |-> AttachmentOf(p, k)]
           head == <<TextOf(p)>>
           s == head \o parts
<1>1. n \in Nat /\ p.nth \in Nat
    BY PacketIs
<1>2. TextOf(p) \in Frames /\ \A k \in Nat : AttachmentOf(p, k) \in Frames
    BY DEF Frames, Texts, Attachments
<1>3. head \in Seq(Frames) /\ Len(head) = 1 /\ head[1] = TextOf(p)
    BY <1>2
<1>4. /\ parts \in Seq(Frames) /\ Len(parts) = n
      /\ \A k \in 1..n : parts[k] = AttachmentOf(p, k)
    <2>1. \A k \in 1..n : AttachmentOf(p, k) \in Frames
        BY <1>1, <1>2
    <2> QED
        BY <1>1, <2>1
<1> HIDE DEF s, parts, head
<1>5. /\ s \in Seq(Frames) /\ Len(s) = 1 + n
      /\ \A i \in 1..Len(s) : s[i] = IF i <= 1 THEN TextOf(p) ELSE parts[i - 1]
    <2> HIDE DEF n
    <2>1. /\ s \in Seq(Frames) /\ Len(s) = Len(head) + Len(parts)
          /\ \A i \in 1..Len(head) + Len(parts) :
                 s[i] = IF i <= Len(head) THEN head[i] ELSE parts[i - Len(head)]
        BY <1>3, <1>4, ConcatProperties DEF s
    <2> QED
        BY <1>1, <1>3, <1>4, <2>1
<1>6. s # <<>> /\ s[1] = TextOf(p) /\ Len(s) \in 1..Len(s)
    BY <1>1, <1>5, EmptySeq
<1>7. \A i \in 1..Len(s) : i > 1 => s[i] = AttachmentOf(p, i - 1)
    <2> HIDE DEF n
    <2> QED
        BY <1>1, <1>4, <1>5
<1>8. \A i \in 1..Len(s) : s[i].of = p /\ s[i].part = i - 1
    <2> TAKE i \in 1..Len(s)
    <2>1. CASE i = 1
        BY <1>6, <2>1, TextIs
    <2>2. CASE i > 1
        <3>1. s[i] = AttachmentOf(p, i - 1)
            BY <1>7, <2>2
        <3> QED
            BY <3>1, AttachmentIs
    <2> QED
        BY <1>1, <1>5, <2>1, <2>2
<1>9. \A i \in 1..Len(s) : Due(s[i]) <=> i - 1 < n
    BY <1>8 DEF Due
<1>10. \A i \in 1..Len(s) : i > 1 => Follows(s[i - 1], s[i]) /\ ~Starts(s[i])
    <2> TAKE i \in 1..Len(s)
    <2> HAVE i > 1
    <2>1. i - 1 \in 1..Len(s) /\ (i - 1) - 1 < n /\ ((i - 1) - 1) + 1 = i - 1
        BY <1>1, <1>5
    <2>2. Due(s[i - 1]) /\ s[i - 1].of = p /\ s[i - 1].part = (i - 1) - 1
        BY <1>8, <1>9, <2>1
    <2>3. s[i] = AttachmentOf(p, i - 1)
        BY <1>7
    <2>4. s[i].binary
        BY <2>3, AttachmentIs
    <2> QED
        BY <2>1, <2>2, <2>3, <2>4 DEF Follows, Starts
<1>11. Follows(Start, s[1]) /\ ~Due(s[Len(s)])
    <2>1. ~s[1].binary
        BY <1>6, TextIs
    <2> QED
        BY <1>1, <1>5, <1>6, <1>9, <2>1, StartNotDue DEF Follows
<1>12. Chain(Start, s)
    BY <1>5, <1>6, <1>10, <1>11 DEF Chain
<1>13. Starts(s[1])
    <2>1. ~TextOf(p).binary /\ TextOf(p).frame = "message" /\ TextOf(p).type = TypeOf(p)
        BY TextIs
    <2>2. TypeOf(p) \in {"event", "ack", "binary_event", "binary_ack"}
        BY PacketIs DEF TypeOf
    <2>3. TextOf(p) \notin Controls
        <3> SUFFICES ASSUME TextOf(p) \in Controls PROVE FALSE
            OBVIOUS
        <3>1. TextOf(p).type \in {"-", "connect"}
            BY ControlIs
        <3> QED
            BY <2>1, <2>2, <3>1
    <2> QED
        BY <1>6, <2>1, <2>3 DEF Starts
<1>14. Numbered(p.nth - 1, s, p.nth)
    <2>1. s[1].of.nth = Counted(p.nth - 1, s[1]) /\ s[Len(s)].of.nth = p.nth
        BY <1>1, <1>6, <1>8, <1>13 DEF Counted
    <2>2. \A i \in 1..Len(s) : i > 1 => s[i].of.nth = Counted(s[i - 1].of.nth, s[i])
        <3> TAKE i \in 1..Len(s)
        <3> HAVE i > 1
        <3>1. i - 1 \in 1..Len(s)
            BY <1>1, <1>5
        <3> QED
            BY <1>8, <1>10, <3>1 DEF Counted
    <2> QED
        BY <1>6, <2>1, <2>2 DEF Numbered
<1>15. Encode(p) = s
    BY DEF Encode, s, head, parts
<1> QED
    BY <1>5, <1>8, <1>12, <1>14, <1>15

LEMMA ControlChain ==
    ASSUME NEW f \in Controls
    PROVE  /\ f \in Frames /\ <<f>> \in Seq(Frames) /\ Chain(Start, <<f>>)
           /\ Numbered(f.of.nth, <<f>>, f.of.nth)
<1>1. f \in Frames /\ ~f.binary /\ ~Due(f) /\ ~Starts(f)
    BY ControlIs DEF Frames, Starts
<1>2. <<f>> \in Seq(Frames) /\ Len(<<f>>) = 1 /\ <<f>>[1] = f /\ <<f>> # <<>>
    BY <1>1
<1>3. Chain(Start, <<f>>)
    BY <1>1, <1>2, StartNotDue DEF Chain, Follows
<1>4. Numbered(f.of.nth, <<f>>, f.of.nth)
    BY <1>1, <1>2 DEF Numbered, Counted
<1> QED
    BY <1>1, <1>2, <1>3, <1>4

-----------------------------------------------------------------------------
(* The way up: without acknowledgements no frame cuts into a packet.       *)

(* What was told is what was heard, and what is partial.                   *)
Hearing ==
    /\ Collecting(theirs)
    /\ told \in Seq(Messages) /\ heard \in Seq(Messages)
    /\ told = IF theirs.on THEN Append(heard, theirs.text.of.message) ELSE heard

UpTyped ==
    /\ queue \in Seq(Packets) /\ emitting \in Seq(Packets)
    /\ posting \in Seq(Frames) /\ tasks \in Seq(Frames) /\ sending \in Seq(Frames)

(* What the main thread has handed over, or has in hand.                   *)
Handed == tasks \o posting

(* While the network thread empties the queue the main thread's frames     *)
(* wait; else they are what comes next.                                    *)
Turns ==
    /\ answering = <<>>
    /\ ~draining => sending = <<>>
    /\ ~opened => ~draining
    /\ opened /\ ~connected => ~draining /\ emitting = <<>> /\ posting = <<>> /\ tasks = <<>>
    /\ opened /\ draining => Chain(Ahead(theirs), sending) /\ Chain(Start, Handed)
    /\ opened /\ ~draining => Chain(Ahead(theirs), Handed)

UpInv == "acks" \notin cases => Hearing /\ UpTyped /\ Turns

LEMMA Hears ==
    ASSUME Hearing, NEW f \in Frames, Follows(Ahead(theirs), f), OnWire(f)
    PROVE  Hearing' /\ \A s : Chain(f, s) => Chain(Ahead(theirs'), s)
<1> DEFINE put == PutPayload(theirs, f)
           m == f.of.message
<1>1. /\ theirs' = put.partial
      /\ told' = IF f.binary THEN told ELSE Append(told, m)
      /\ heard' = heard \o Json(put.decoded)
    BY FrameIs DEF OnWire
<1>2. Collecting(theirs) /\ told \in Seq(Messages) /\ heard \in Seq(Messages) /\ m \in Messages
    BY FrameIs DEF Hearing
<1>3. /\ Collecting(put.partial)
      /\ Due(f) => put.decoded = <<>> /\ put.partial.on /\ put.partial.text = TextOf(f.of)
      /\ ~Due(f) => /\ put.partial = NoPartial
                    /\ put.decoded = <<put.decoded[1]>> /\ put.decoded[1].json = m
    BY <1>2, Puts
<1>4. \A s : Chain(f, s) => Chain(Ahead(put.partial), s)
    BY <1>2, PutsAhead DEF Chain
<1> HIDE DEF put
<1>5. Append(told, m) \in Seq(Messages) /\ Append(heard, m) \in Seq(Messages)
    BY <1>2, AppendProperties
(* When the frame is in, the message of its packet has been told.          *)
<1>6. told' = Append(heard, m)
    <2>1. CASE theirs.on
        <3>1. Due(Ahead(theirs)) /\ Ahead(theirs).of = theirs.text.of
            BY <1>2, <2>1, OnIsDue DEF Ahead
        <3>2. f = AttachmentOf(theirs.text.of, Ahead(theirs).part + 1)
            BY <3>1 DEF Follows
        <3>3. f.binary /\ f.of = theirs.text.of
            BY <3>2, AttachmentIs
        <3> QED
            BY <1>1, <2>1, <3>3 DEF Hearing
    <2>2. CASE ~theirs.on
        <3>1. ~f.binary
            BY <1>2, <2>2, OnIsDue DEF Follows
        <3> QED
            BY <1>1, <2>2, <3>1 DEF Hearing
    <2> QED
        BY <2>1, <2>2
<1>7. CASE Due(f)
    <2>1. heard' = heard
        <3>1. Json(<<>>) = <<>>
            BY DEF Json
        <3> QED
            BY <1>1, <1>2, <1>3, <1>7, <3>1, ConcatEmptySeq
    <2>2. theirs'.on /\ theirs'.text.of = f.of
        <3>1. TextOf(f.of).of = f.of
            BY TextIs
        <3> QED
            BY <1>1, <1>3, <1>7, <3>1
    <2>3. Collecting(theirs') /\ told' = Append(heard', theirs'.text.of.message)
        BY <1>1, <1>3, <1>6, <2>1, <2>2
    <2> QED
        BY <1>1, <1>2, <1>4, <1>5, <1>6, <2>1, <2>2, <2>3 DEF Hearing
<1>8. CASE ~Due(f)
    <2>1. heard' = Append(heard, m)
        <3> DEFINE d == put.decoded[1]
        <3>1. put.decoded = <<d>> /\ d.json = m
            BY <1>3, <1>8
        <3> HIDE DEF d
        <3>2. Json(<<d>>) = <<d.json>>
            BY DEF Json
        <3>3. heard \o <<m>> = Append(heard, m)
            BY <1>2, AppendIsConcat
        <3> QED
            BY <1>1, <3>1, <3>2, <3>3
    <2>2. ~theirs'.on /\ Collecting(theirs')
        BY <1>1, <1>3, <1>8 DEF NoPartial
    <2> QED
        BY <1>1, <1>4, <1>5, <1>6, <2>1, <2>2 DEF Hearing
<1> QED
    BY <1>7, <1>8

LEMMA Moves ==
    ASSUME NEW s \in Seq(Frames), NEW t \in Seq(Frames)
    PROVE  /\ s \o t \in Seq(Frames)
           /\ t = <<>> => s \o t = s
           /\ t # <<>> => /\ Head(t) \in Frames /\ Tail(t) \in Seq(Frames)
                          /\ Append(s, Head(t)) \in Seq(Frames)
                          /\ Append(s, Head(t)) \o Tail(t) = s \o t
           /\ s # <<>> => /\ Head(s) \in Frames /\ Tail(s) \in Seq(Frames) /\ s \o t # <<>>
                          /\ (s \o t)[1] = Head(s) /\ Tail(s \o t) = Tail(s) \o t
<1>1. /\ s \o t \in Seq(Frames) /\ Len(s \o t) = Len(s) + Len(t)
      /\ Len(s) \in Nat /\ Len(t) \in Nat
      /\ \A i \in 1..Len(s) + Len(t) : (s \o t)[i] = IF i <= Len(s) THEN s[i] ELSE t[i - Len(s)]
    BY ConcatProperties, LenProperties
<1>2. t = <<>> => s \o t = s
    BY ConcatEmptySeq
<1>3. ASSUME t # <<>>
      PROVE  /\ Head(t) \in Frames /\ Tail(t) \in Seq(Frames)
             /\ Append(s, Head(t)) \in Seq(Frames)
             /\ Append(s, Head(t)) \o Tail(t) = s \o t
    <2> DEFINE x == Head(t)
               u == Tail(t)
    <2>1. x \in Frames /\ u \in Seq(Frames)
        BY <1>3, HeadTailProperties
    <2>2. t = <<x>> \o u
        BY <1>3, HeadTailProperties
    <2> HIDE DEF x, u
    <2>3. <<x>> \in Seq(Frames)
        BY <2>1
    <2>4. Append(s, x) \in Seq(Frames) /\ Append(s, x) = s \o <<x>>
        BY <2>1, AppendProperties, AppendIsConcat
    <2>5. (s \o <<x>>) \o u = s \o (<<x>> \o u)
        BY <2>1, <2>3, ConcatAssociative
    <2> QED
        BY <2>1, <2>2, <2>4, <2>5 DEF x, u
<1>4. ASSUME s # <<>>
      PROVE  /\ Head(s) \in Frames /\ Tail(s) \in Seq(Frames) /\ s \o t # <<>>
             /\ (s \o t)[1] = Head(s) /\ Tail(s \o t) = Tail(s) \o t
    <2> DEFINE w == s \o t
               u == Tail(s)
    <2>1. Len(s) > 0 /\ Head(s) = s[1] /\ Head(s) \in Frames
        BY <1>1, <1>4, EmptySeq, HeadTailProperties
    <2>2. /\ u \in Seq(Frames) /\ Len(u) = Len(s) - 1
          /\ \A i \in 1..Len(u) : u[i] = s[i + 1]
        BY <1>4, HeadTailProperties
    <2> HIDE DEF w, u
    <2>3. /\ w \in Seq(Frames) /\ Len(w) = Len(s) + Len(t)
          /\ \A i \in 1..Len(s) + Len(t) : w[i] = IF i <= Len(s) THEN s[i] ELSE t[i - Len(s)]
        BY <1>1 DEF w
    <2>4. w # <<>> /\ w[1] = s[1]
        <3>1. 1 \in 1..Len(s) + Len(t) /\ Len(w) > 0
            BY <1>1, <2>1, <2>3
        <3> QED
            BY <2>1, <2>3, <3>1, EmptySeq
    <2>5. /\ Tail(w) \in Seq(Frames) /\ Len(Tail(w)) = Len(w) - 1
          /\ \A i \in 1..Len(Tail(w)) : Tail(w)[i] = w[i + 1]
        BY <2>3, <2>4, HeadTailProperties
    <2>6. /\ u \o t \in Seq(Frames) /\ Len(u \o t) = Len(u) + Len(t)
          /\ \A i \in 1..Len(u) + Len(t) : (u \o t)[i] = IF i <= Len(u) THEN u[i] ELSE t[i - Len(u)]
        BY <2>2, ConcatProperties
    <2>7. Len(Tail(w)) = Len(u \o t)
        BY <1>1, <2>2, <2>3, <2>5, <2>6
    <2>8. ASSUME NEW i \in 1..Len(Tail(w))
          PROVE  Tail(w)[i] = (u \o t)[i]
        <3>1. i \in 1..Len(u) + Len(t) /\ i + 1 \in 1..Len(s) + Len(t)
            BY <1>1, <2>2, <2>3, <2>5
        <3>2. /\ Tail(w)[i] = IF i + 1 <= Len(s) THEN s[i + 1] ELSE t[(i + 1) - Len(s)]
              /\ (u \o t)[i] = IF i <= Len(u) THEN u[i] ELSE t[i - Len(u)]
            BY <2>3, <2>5, <2>6, <3>1
        <3>3. CASE i <= Len(u)
            BY <1>1, <2>2, <3>1, <3>2, <3>3
        <3>4. CASE ~(i <= Len(u))
            <4>1. (i + 1) - Len(s) = i - Len(u) /\ ~(i + 1 <= Len(s))
                BY <1>1, <2>2, <3>1, <3>4
            <4> QED
                BY <3>2, <3>4, <4>1
        <3> QED
            BY <3>3, <3>4
    <2>9. Tail(w) = u \o t
        BY <2>5, <2>6, <2>7, <2>8, SeqEqual
    <2> QED
        BY <2>1, <2>2, <2>4, <2>9 DEF w, u
<1> QED
    BY <1>1, <1>2, <1>3, <1>4

LEMMA PacketsMove ==
    ASSUME NEW q \in Seq(Packets)
    PROVE  /\ q # <<>> => Head(q) \in Packets /\ Tail(q) \in Seq(Packets)
           /\ \A p \in Packets : Append(q, p) \in Seq(Packets) /\ <<p>> \in Seq(Packets)
BY HeadTailProperties, AppendProperties

LEMMA EmittedIs ==
    ASSUME NEW shape \in Shapes, NEW n \in Nat, NEW ack \in BOOLEAN, NEW message,
           message = MessageOf(shape, n)
    PROVE  LET p == Packet("event", ack, message, n)
           IN  /\ p \in Packets /\ message \in Messages
               /\ p.message = message /\ p.nth = n /\ (p.ack <=> ack)
BY MessageTyped DEF Packet, Packets

(* The network thread has nothing in hand: all that is to come is the main *)
(* thread's, and none of it while the namespace is not joined.             *)
LEMMA WhenIdle ==
    ASSUME Hearing, UpTyped, Turns, opened, ~draining
    PROVE  /\ Chain(Ahead(theirs), Handed)
           /\ Handed = <<>> => Chain(Start, Handed)
           /\ ~connected => Handed = <<>>
<1>1. Chain(Ahead(theirs), Handed)
    BY DEF Turns
<1>2. Handed = <<>> => ~Due(Ahead(theirs))
    BY <1>1 DEF Chain
<1>3. ~connected => tasks = <<>> /\ posting = <<>>
    BY DEF Turns
<1>4. \A t \in Seq(Frames) : t = <<>> => t \o t = t
    BY ConcatEmptySeq
<1>5. tasks = <<>> /\ posting = <<>> => Handed = <<>>
    BY <1>4 DEF Handed, UpTyped
<1> QED
    BY <1>1, <1>2, <1>3, <1>5, StartNotDue, NotDue

-----------------------------------------------------------------------------
(* The way down: every frame is of a message that was said, in its turn.   *)

(* Messages whose text has come.                                           *)
Reached == IF partial.on THEN Len(got) + 1 ELSE Len(got)

Says(p, s, set) ==
    /\ p.nth \in 1..Len(s) /\ s[p.nth] = p.message
    /\ "acks" \notin set => ~p.ack

DownInv ==
    /\ Collecting(partial)
    /\ got \in Seq(Messages) /\ said \in Seq(Messages) /\ Len(got) <= Len(said)
    /\ \A i \in 1..Len(got) : got[i] = said[i]
    /\ partial.on => partial.text.of.nth = Len(got) + 1 /\ Says(partial.text.of, said, cases)
    /\ IF opened THEN Chain(Ahead(partial), down) /\ Numbered(Reached, down, Len(said))
       ELSE down = <<>>
    /\ \A i \in 1..Len(down) : down[i] \notin Controls => Says(down[i].of, said, cases)

(* The frame that comes next is of the message that is due.                *)
LEMMA NextFrame ==
    ASSUME DownInv, opened, down # <<>>
    PROVE  LET f == Head(down)
           IN  /\ f \in Frames /\ f = down[1] /\ Follows(Ahead(partial), f)
               /\ f \in Controls => ~partial.on /\ f.of.nth = Len(got)
               /\ f \notin Controls => f.of.nth = Len(got) + 1 /\ Says(f.of, said, cases)
<1> DEFINE f == Head(down)
<1>1. /\ f = down[1] /\ f \in Frames /\ Follows(Ahead(partial), f)
      /\ f.of.nth = Counted(Reached, f)
    BY ChainTail DEF DownInv
<1>2. 1 \in 1..Len(down)
    BY EmptySeq DEF DownInv, Chain
<1>3. f \notin Controls => Says(f.of, said, cases)
    BY <1>1, <1>2 DEF DownInv
<1>4. partial.on <=> Due(Ahead(partial))
    BY OnIsDue DEF DownInv
<1> HIDE DEF f
<1>5. CASE partial.on
    <2>1. f = AttachmentOf(Ahead(partial).of, Ahead(partial).part + 1)
        BY <1>1, <1>4, <1>5 DEF Follows
    <2>2. f.binary
        BY <2>1, AttachmentIs
    <2>3. f \notin Controls
        BY <2>2, ControlIs
    <2>4. f.of.nth = Len(got) + 1
        BY <1>1, <1>5, <2>2 DEF Counted, Starts, Reached
    <2> QED
        BY <1>1, <1>3, <2>3, <2>4 DEF f
<1>6. CASE ~partial.on
    <2>1. ~f.binary
        BY <1>1, <1>4, <1>6 DEF Follows
    <2>2. f \in Controls => f.of.nth = Len(got)
        BY <1>1, <1>6 DEF Counted, Starts, Reached
    <2>3. f \notin Controls => f.of.nth = Len(got) + 1
        BY <1>1, <1>6, <2>1 DEF Counted, Starts, Reached
    <2> QED
        BY <1>1, <1>3, <1>6, <2>2, <2>3 DEF f
<1> QED
    BY <1>5, <1>6

(* What Receive does, frame by frame.                                      *)
LEMMA Decoded ==
    ASSUME DownInv, opened, Receive
    PROVE  LET f == Head(down)
               put == PutPayload(partial, f)
           IN  /\ down # <<>> /\ down' = Tail(down) /\ partial' = put.partial
               /\ got' = IF Due(f) \/ f \in Controls THEN got ELSE Append(got, f.of.message)
               /\ UNCHANGED <<opened, links, emits, cases, said, pinged, emitting, posting,
                              tasks, sending>>
               /\ UNCHANGED theirVars
               /\ UNCHANGED connected \/ connected' = TRUE
               /\ "acks" \notin cases =>
                      /\ UNCHANGED <<queue, answering>>
                      /\ \/ UNCHANGED <<connected, draining>>
                         \/ connected' = TRUE /\ draining' = ~connected
<1> DEFINE f == Head(down)
           put == PutPayload(partial, f)
<1>1. /\ down # <<>> /\ down' = Tail(down) /\ partial' = put.partial
      /\ UNCHANGED <<opened, links, emits, cases, said, pinged, emitting, posting, tasks, sending>>
      /\ IF put.decoded = <<>>
         THEN UNCHANGED <<connected, theirVars, queue, draining, answering, got>>
         ELSE OnDecode(put.decoded[1])
    BY DEF Receive, linkVars, mainVars, serverVars
<1>2. f \in Frames /\ Follows(Ahead(partial), f) /\ Collecting(partial)
    BY <1>1, NextFrame DEF DownInv
<1>3. f \notin Controls => Says(f.of, said, cases)
    BY <1>1, NextFrame
<1> DEFINE p == put.decoded[1]
<1>4. /\ Due(f) => put.decoded = <<>>
      /\ ~Due(f) => /\ put.decoded = <<p>> /\ p.json = f.of.message
                    /\ f \in Controls => p.frame = f.frame /\ p.type = f.type /\ ~p.ack
                    /\ f \notin Controls => /\ p.frame = "message" /\ p.type = TypeOf(f.of)
                                            /\ (p.ack <=> f.of.ack)
    BY <1>2, Puts
<1> HIDE DEF f, put, p
<1>5. CASE Due(f)
    BY <1>1, <1>4, <1>5 DEF theirVars, f, put
<1>6. CASE ~Due(f)
    <2>1. OnDecode(p) /\ p.json = f.of.message
        <3>1. <<p>> # <<>>
            OBVIOUS
        <3> QED
            BY <1>1, <1>4, <1>6, <3>1 DEF p
    <2>2. "acks" \notin cases => ~p.ack
        BY <1>3, <1>4, <1>6 DEF Says
    <2>3. OnPing(p) \/ OnConnected(p) \/ OnHandshake(p) => f \in Controls
        <3>1. TypeOf(f.of) # "connect" \/ f \in Controls
            <4>1. f \notin Controls => f.of \in Packets
                BY <1>2, FrameIs
            <4> QED
                BY <4>1, PacketIs DEF TypeOf
        <3> QED
            BY <1>4, <1>6, <3>1 DEF OnPing, OnConnected, OnHandshake
    <2>4. OnEvent(p) => f \notin Controls
        <3>1. f \in Controls => /\ f.type \notin {"event", "binary_event"}
                                /\ f.frame \in {"open", "message", "ping"}
            BY ControlIs
        <3> QED
            BY <1>4, <1>6, <3>1 DEF OnEvent
    <2>5. UNCHANGED theirVars
        <3>1. OnWire(Pong) => UNCHANGED theirVars
            BY DEF OnWire, Pong, Control, Text
        <3> QED
            BY <2>1, <3>1 DEF OnDecode, OnPing, OnConnected, OnEvent, OnHandshake, theirVars
    <2>6. got' = IF f \in Controls THEN got ELSE Append(got, f.of.message)
        BY <2>1, <2>3, <2>4 DEF OnDecode, OnPing, OnConnected, OnEvent, OnHandshake
    <2>7. /\ UNCHANGED connected \/ connected' = TRUE
          /\ "acks" \notin cases =>
                 /\ UNCHANGED <<queue, answering>>
                 /\ \/ UNCHANGED <<connected, draining>>
                    \/ connected' = TRUE /\ draining' = ~connected
        BY <2>1, <2>2 DEF OnDecode, OnPing, OnConnected, OnEvent, OnHandshake
    <2> QED
        BY <1>1, <1>6, <2>5, <2>6, <2>7 DEF f, put
<1> QED
    BY <1>5, <1>6

LEMMA Receives ==
    ASSUME DownInv, opened, Receive
    PROVE  DownInv'
<1> DEFINE f == Head(down)
           put == PutPayload(partial, f)
           m == f.of.message
<1>1. /\ down # <<>> /\ down' = Tail(down) /\ partial' = put.partial
      /\ got' = IF Due(f) \/ f \in Controls THEN got ELSE Append(got, m)
      /\ opened' = opened /\ said' = said /\ cases' = cases
    BY Decoded
<1>2. /\ f \in Frames /\ f = down[1] /\ Follows(Ahead(partial), f)
      /\ f \in Controls => ~partial.on /\ f.of.nth = Len(got)
      /\ f \notin Controls => f.of.nth = Len(got) + 1 /\ Says(f.of, said, cases)
    BY <1>1, NextFrame
<1>3. /\ Collecting(partial) /\ got \in Seq(Messages) /\ said \in Seq(Messages)
      /\ Len(got) <= Len(said) /\ Len(got) \in Nat /\ Len(said) \in Nat
      /\ \A i \in 1..Len(got) : got[i] = said[i]
    BY LenProperties DEF DownInv
<1>4. m \in Messages
    BY <1>2, FrameIs
<1>5. /\ Collecting(put.partial)
      /\ Due(f) => put.partial.on /\ put.partial.text = TextOf(f.of)
      /\ ~Due(f) => put.partial = NoPartial
    BY <1>2, <1>3, Puts
<1>6. \A s : Chain(f, s) => Chain(Ahead(put.partial), s)
    BY <1>2, <1>3, PutsAhead DEF Chain
<1>7. /\ Tail(down) \in Seq(Frames) /\ Chain(f, Tail(down))
      /\ Numbered(f.of.nth, Tail(down), Len(said))
    BY <1>1, <1>2, ChainTail DEF DownInv
<1>8. \A q : Says(q, said, cases) <=> Says(q, said', cases')
    BY <1>1
<1>9. \A i \in 1..Len(down') : down'[i] \notin Controls => Says(down'[i].of, said', cases')
    <2>1. /\ Len(Tail(down)) = Len(down) - 1 /\ Len(down) \in Nat
          /\ \A i \in 1..Len(Tail(down)) : Tail(down)[i] = down[i + 1]
        <3>1. down \in Seq(Frames)
            BY <1>1 DEF DownInv, Chain
        <3> QED
            BY <1>1, <3>1, HeadTailProperties, LenProperties
    <2>2. \A i \in 1..Len(Tail(down)) : i + 1 \in 1..Len(down)
        BY <2>1
    <2> QED
        BY <1>1, <2>1, <2>2 DEF DownInv
<1>10. f \in Controls => ~Due(f)
    BY ControlIs
<1> HIDE DEF f, put, m
<1>11. /\ got' \in Seq(Messages) /\ Len(got') <= Len(said)
       /\ \A i \in 1..Len(got') : got'[i] = said[i]
       /\ Len(got') = IF Due(f) \/ f \in Controls THEN Len(got) ELSE Len(got) + 1
    <2>1. CASE Due(f) \/ f \in Controls
        BY <1>1, <1>3, <2>1
    <2>2. CASE ~(Due(f) \/ f \in Controls)
        <3>1. got' = Append(got, m)
            BY <1>1, <2>2
        <3>2. /\ got' \in Seq(Messages) /\ Len(got') = Len(got) + 1
              /\ \A i \in 1..Len(got) : got'[i] = got[i]
              /\ got'[Len(got) + 1] = m
            BY <1>3, <1>4, <3>1, AppendProperties
        <3>3. Len(got) + 1 \in 1..Len(said) /\ said[Len(got) + 1] = m
            BY <1>2, <2>2 DEF Says, m
        <3> QED
            BY <1>3, <2>2, <3>2, <3>3
    <2> QED
        BY <2>1, <2>2
<1>12. Due(f) => partial'.text.of = f.of
    BY <1>1, <1>5, TextIs
<1>13. partial'.on <=> Due(f)
    BY <1>1, <1>5 DEF NoPartial
<1>14. partial'.on => partial'.text.of.nth = Len(got') + 1 /\ Says(partial'.text.of, said', cases')
    BY <1>1, <1>2, <1>10, <1>11, <1>12, <1>13
<1>15. Reached' = f.of.nth
    <2>1. Reached' = IF Due(f) THEN Len(got') + 1 ELSE Len(got')
        BY <1>13 DEF Reached
    <2> QED
        BY <1>2, <1>10, <1>11, <2>1
<1>16. Chain(Ahead(partial'), down') /\ Numbered(Reached', down', Len(said'))
    BY <1>1, <1>6, <1>7, <1>15
<1>17. Collecting(partial') /\ said' \in Seq(Messages)
    BY <1>1, <1>3, <1>5
<1> QED
    BY <1>1, <1>8, <1>9, <1>11, <1>14, <1>16, <1>17 DEF DownInv

LEMMA DownKeeps ==
    ASSUME DownInv, UNCHANGED <<partial, got, said, cases>>,
           \/ UNCHANGED <<opened, down>>
           \/ ~opened' /\ down' = <<>>
    PROVE  DownInv'
<1>1. Len(<<>>) = 0
    BY EmptySeq
<1>2. \A p : Says(p, said, cases) <=> Says(p, said', cases')
    OBVIOUS
<1>3. Reached' = Reached
    BY DEF Reached
<1>4. /\ Collecting(partial') /\ got' \in Seq(Messages) /\ said' \in Seq(Messages)
      /\ Len(got') <= Len(said') /\ \A i \in 1..Len(got') : got'[i] = said'[i]
      /\ partial'.on => partial'.text.of.nth = Len(got') + 1 /\ Says(partial'.text.of, said', cases')
    BY <1>2 DEF DownInv
<1>5. CASE UNCHANGED <<opened, down>>
    BY <1>2, <1>3, <1>4, <1>5 DEF DownInv
<1>6. CASE ~opened' /\ down' = <<>>
    <2>1. \A i \in 1..Len(down') : FALSE
        BY <1>1, <1>6
    <2> QED
        BY <1>4, <1>6, <2>1 DEF DownInv
<1> QED
    BY <1>5, <1>6

(* The server adds to what is on its way: a packet, or a ping.             *)
LEMMA DownAdds ==
    ASSUME DownInv, opened, NEW s \in Seq(Frames), Chain(Start, s), NEW more \in Seq(Messages),
           UNCHANGED <<opened, partial, got, cases>>,
           said' = said \o more, Numbered(Len(said), s, Len(said')), down' = down \o s,
           \A i \in 1..Len(s) : s[i] \notin Controls =>
               s[i].of.nth \in 1..Len(said') /\ said'[s[i].of.nth] = s[i].of.message
               /\ ("acks" \notin cases => ~s[i].of.ack)
    PROVE  DownInv'
<1>1. /\ said \in Seq(Messages) /\ got \in Seq(Messages) /\ down \in Seq(Frames)
      /\ Len(said) \in Nat /\ Len(got) \in Nat /\ Len(down) \in Nat /\ Len(s) \in Nat
      /\ Len(more) \in Nat
    BY LenProperties DEF DownInv, Chain
<1>2. /\ said' \in Seq(Messages) /\ Len(said') = Len(said) + Len(more)
      /\ \A i \in 1..Len(said) : said'[i] = said[i]
    BY <1>1, ConcatProperties
<1>3. /\ down' \in Seq(Frames) /\ Len(down') = Len(down) + Len(s)
      /\ \A i \in 1..Len(down) + Len(s) : down'[i] = IF i <= Len(down) THEN down[i] ELSE s[i - Len(down)]
    BY <1>1, ConcatProperties
<1>4. \A p : Says(p, said, cases) => Says(p, said', cases')
    <2> SUFFICES ASSUME NEW p, Says(p, said, cases) PROVE Says(p, said', cases')
        OBVIOUS
    <2>1. p.nth \in 1..Len(said) /\ said[p.nth] = p.message /\ ("acks" \notin cases => ~p.ack)
        BY DEF Says
    <2>2. p.nth \in 1..Len(said') /\ said'[p.nth] = p.message
        BY <1>1, <1>2, <2>1
    <2> QED
        BY <2>1, <2>2 DEF Says
<1>5. /\ Chain(Ahead(partial), down \o s)
      /\ Numbered(Reached, down \o s, Len(said'))
    BY StartNotDue, ChainConcat DEF DownInv
<1>6. Reached' = Reached
    BY DEF Reached
<1>7. \A i \in 1..Len(down') : down'[i] \notin Controls => Says(down'[i].of, said', cases')
    <2> TAKE i \in 1..Len(down')
    <2> HAVE down'[i] \notin Controls
    <2>1. CASE i <= Len(down)
        BY <1>1, <1>3, <1>4, <2>1 DEF DownInv
    <2>2. CASE i > Len(down)
        <3>1. down'[i] = s[i - Len(down)] /\ i - Len(down) \in 1..Len(s)
            BY <1>1, <1>3, <2>2
        <3> QED
            BY <3>1 DEF Says
    <2> QED
        BY <1>1, <1>3, <2>1, <2>2
<1>8. /\ Len(got') <= Len(said') /\ \A i \in 1..Len(got') : got'[i] = said'[i]
      /\ Collecting(partial') /\ got' \in Seq(Messages)
      /\ partial'.on => partial'.text.of.nth = Len(got') + 1 /\ Says(partial'.text.of, said', cases')
    BY <1>1, <1>2, <1>4 DEF DownInv
<1> QED
    BY <1>2, <1>5, <1>6, <1>7, <1>8 DEF DownInv

LEMMA DownStep ==
    ASSUME DownInv, TypeOK, [Next]_vars
    PROVE  DownInv'
<1> USE DEF linkVars, mainVars, networkVars, theirVars, serverVars, decodeVars
<1>1. CASE UNCHANGED vars
    BY <1>1, DownKeeps DEF vars
<1>2. CASE Main
    BY <1>2, DownKeeps DEF Main, SendPacket, Post, Emit
<1>3. CASE RunTask \/ Drain \/ Send
    BY <1>3, DownKeeps DEF RunTask, Drain, Send
<1>4. CASE Receive
    <2>1. opened
        BY <1>4 DEF Receive, DownInv
    <2> QED
        BY <1>4, <2>1, Receives
<1>5. CASE Lose
    BY <1>5, DownKeeps DEF Lose
<1>6. CASE Reconnect
    <2>1. /\ opened' = TRUE /\ partial' = NoPartial /\ said' = <<>> /\ got' = <<>>
          /\ down' = <<Handshake, Joined>>
        BY <1>6 DEF Reconnect, NewLink
    <2>2. <<Handshake, Joined>> = <<Handshake>> \o <<Joined>>
        <3>1. ASSUME NEW a, NEW b PROVE <<a, b>> = <<a>> \o <<b>>
            <4> DEFINE s == <<a>>
                       t == <<b>>
                       u == <<a, b>>
            <4>1. /\ s \in Seq({a, b}) /\ Len(s) = 1 /\ s[1] = a
                  /\ t \in Seq({a, b}) /\ Len(t) = 1 /\ t[1] = b
                  /\ u \in Seq({a, b}) /\ Len(u) = 2 /\ u[1] = a /\ u[2] = b
                OBVIOUS
            <4> HIDE DEF s, t, u
            <4>2. /\ s \o t \in Seq({a, b}) /\ Len(s \o t) = Len(s) + Len(t)
                  /\ \A i \in 1..Len(s) + Len(t) :
                         (s \o t)[i] = IF i <= Len(s) THEN s[i] ELSE t[i - Len(s)]
                BY <4>1, ConcatProperties
            <4>3. Len(u) = Len(s \o t) /\ \A i \in 1..Len(u) : u[i] = (s \o t)[i]
                BY <4>1, <4>2
            <4>4. u = s \o t
                BY <4>1, <4>2, <4>3, SeqEqual
            <4> QED
                BY <4>4 DEF s, t, u
        <3> QED
            BY <3>1
    <2>3. /\ Handshake \in Controls /\ Joined \in Controls
          /\ Handshake.of.nth = 0 /\ Joined.of.nth = 0
        BY DEF Controls, Handshake, Joined, Control, Text, Packet
    <2>4. /\ Chain(Start, <<Handshake>>) /\ Numbered(0, <<Handshake>>, 0)
          /\ Chain(Start, <<Joined>>) /\ Numbered(0, <<Joined>>, 0)
        BY <2>3, ControlChain
    <2>5. Chain(Start, down') /\ Numbered(0, down', 0)
        BY <2>1, <2>2, <2>4, StartNotDue, ChainConcat
    <2>6. <<>> \in Seq(Messages) /\ Len(<<>>) = 0
        BY EmptySeq
    <2>7. ~partial'.on /\ Collecting(partial') /\ Ahead(partial') = Start
        BY <2>1, StartNotDue DEF NoPartial, Collecting
    <2>8. Reached' = 0
        BY <2>1, <2>6, <2>7 DEF Reached
    <2>9. \A i \in 1..Len(down') : down'[i] \in Controls
        BY <2>1, <2>3
    <2>10. Len(got') <= Len(said') /\ \A i \in 1..Len(got') : got'[i] = said'[i]
        BY <2>1, <2>6
    <2> QED
        BY <2>1, <2>5, <2>6, <2>7, <2>8, <2>9, <2>10 DEF DownInv
<1>7. ASSUME NEW shape \in Shapes, NEW ack \in BOOLEAN, ServerSays(shape, ack)
      PROVE  DownInv'
    <2> DEFINE nth == Len(said) + 1
               m == MessageOf(shape, nth)
               p == Packet("event", ack, m, nth)
    <2>1. /\ opened /\ (ack => "acks" \in cases) /\ said' = Append(said, m)
          /\ down' = down \o Encode(p)
          /\ UNCHANGED <<opened, partial, got, cases>>
        BY <1>7 DEF ServerSays
    <2>2. said \in Seq(Messages) /\ Len(said) \in Nat /\ nth \in Nat
        BY LenProperties DEF DownInv
    <2>3. p \in Packets /\ m \in Messages /\ p.message = m /\ p.nth = nth /\ (p.ack <=> ack)
        BY <2>2, EmittedIs
    <2> HIDE DEF m, p
    <2>4. /\ said' = said \o <<m>> /\ <<m>> \in Seq(Messages)
          /\ Len(said') = nth /\ said'[nth] = m
        BY <2>1, <2>2, <2>3, AppendIsConcat, AppendProperties
    <2>5. /\ Encode(p) \in Seq(Frames) /\ Chain(Start, Encode(p))
          /\ \A i \in 1..Len(Encode(p)) : Encode(p)[i].of = p
          /\ Numbered(p.nth - 1, Encode(p), p.nth)
        BY <2>3, EncodeChain
    <2>6. Numbered(Len(said), Encode(p), Len(said'))
        <3>1. p.nth - 1 = Len(said) /\ p.nth = Len(said')
            BY <2>2, <2>3, <2>4
        <3> QED
            BY <2>5, <3>1
    <2>7. nth \in 1..Len(said')
        BY <2>2, <2>4
    <2> HIDE DEF nth
    <2>8. \A i \in 1..Len(Encode(p)) :
              /\ Encode(p)[i].of.nth \in 1..Len(said')
              /\ said'[Encode(p)[i].of.nth] = Encode(p)[i].of.message
              /\ "acks" \notin cases => ~Encode(p)[i].of.ack
        BY <2>1, <2>3, <2>4, <2>5, <2>7
    <2> QED
        BY <2>1, <2>4, <2>5, <2>6, <2>8, DownAdds
<1>8. CASE ServerPings
    <2> DEFINE f == Ping(Len(said))
    <2>1. /\ opened /\ down' = Append(down, f) /\ UNCHANGED <<opened, partial, got, said, cases>>
        BY <1>8 DEF ServerPings
    <2>2. said \in Seq(Messages) /\ Len(said) \in Nat /\ down \in Seq(Frames)
        BY <2>1, LenProperties DEF DownInv, Chain
    <2>3. f \in Controls /\ f.of.nth = Len(said)
        BY <2>2 DEF Controls, Ping, Control, Text, Packet
    <2> HIDE DEF f
    <2>4. f \in Frames /\ <<f>> \in Seq(Frames) /\ Chain(Start, <<f>>)
          /\ Numbered(Len(said), <<f>>, Len(said))
        BY <2>3, ControlChain
    <2>5. down' = down \o <<f>>
        BY <2>1, <2>2, <2>4, AppendIsConcat
    <2>6. said' = said \o <<>> /\ <<>> \in Seq(Messages)
        BY <2>1, <2>2, ConcatEmptySeq
    <2>7. \A i \in 1..Len(<<f>>) : <<f>>[i] \in Controls
        BY <2>3
    <2> QED
        BY <2>1, <2>4, <2>5, <2>6, <2>7, DownAdds
<1> QED
    BY <1>1, <1>2, <1>3, <1>4, <1>5, <1>6, <1>7, <1>8 DEF Next, Network, Server

-----------------------------------------------------------------------------
(* The main thread's steps, and the network thread's, on the way up.       *)

LEMMA UpStep ==
    ASSUME TypeOK, DownInv, UpInv, [Next]_vars
    PROVE  UpInv'
<1> USE DEF linkVars, mainVars, networkVars, theirVars, serverVars, decodeVars
<1>0. cases' = cases
    BY DEF Next, Main, Network, Server, Emit, SendPacket, Post, RunTask, Drain, Send, Receive,
           Lose, Reconnect, NewLink, ServerSays, ServerPings, vars
<1> SUFFICES ASSUME "acks" \notin cases PROVE (Hearing /\ UpTyped /\ Turns)'
    BY <1>0 DEF UpInv
<1>1. Hearing /\ UpTyped /\ Turns
    BY DEF UpInv
<1>2. /\ queue \in Seq(Packets) /\ emitting \in Seq(Packets) /\ posting \in Seq(Frames)
      /\ tasks \in Seq(Frames) /\ sending \in Seq(Frames)
      /\ <<>> \in Seq(Packets) /\ <<>> \in Seq(Frames)
    BY <1>1, EmptySeq DEF UpTyped
<1>3. UNCHANGED theirVars => Hearing'
    BY <1>1 DEF Hearing
<1>4. /\ answering = <<>> /\ (~draining => sending = <<>>) /\ (~opened => ~draining)
      /\ opened /\ ~connected => ~draining /\ emitting = <<>> /\ posting = <<>> /\ tasks = <<>>
      /\ opened /\ draining => Chain(Ahead(theirs), sending) /\ Chain(Start, Handed)
      /\ opened /\ ~draining => Chain(Ahead(theirs), Handed)
    BY <1>1 DEF Turns
<1>5. \A p \in Packets : /\ Encode(p) \in Seq(Frames) /\ Chain(Start, Encode(p))
                         /\ \A a : ~Due(a) => Chain(a, Encode(p))
    BY EncodeChain, StartNotDue, NotDue
<1>6. CASE \/ UNCHANGED vars
           \/ ServerPings
           \/ \E shape \in Shapes, ack \in BOOLEAN : ServerSays(shape, ack)
    <2>1. UNCHANGED <<opened, connected, queue, emitting, posting, tasks, draining, answering,
                      sending, theirs, told, heard>>
        BY <1>6 DEF ServerSays, ServerPings, vars
    <2> QED
        BY <1>1, <2>1 DEF Hearing, UpTyped, Turns, Handed
<1>7. ASSUME NEW shape \in Shapes, Emit(shape)
      PROVE  (Hearing /\ UpTyped /\ Turns)'
    <2> DEFINE p == Packet("event", FALSE, MessageOf(shape, emits + 1), emits + 1)
    <2>1. /\ opened /\ emitting = <<>> /\ posting = <<>>
          /\ IF connected THEN emitting' = <<p>> /\ UNCHANGED queue
             ELSE queue' = Append(queue, p) /\ UNCHANGED emitting
          /\ UNCHANGED <<opened, connected, posting, tasks, draining, answering, sending,
                         theirs, told, heard>>
        BY <1>7 DEF Emit
    <2>2. p \in Packets
        <3>1. emits + 1 \in Nat
            BY CodecAssumption DEF TypeOK
        <3> QED
            BY <3>1, EmittedIs
    <2> HIDE DEF p
    <2>3. queue' \in Seq(Packets) /\ emitting' \in Seq(Packets)
        BY <1>2, <2>1, <2>2, PacketsMove
    <2>4. UpTyped'
        BY <1>2, <2>1, <2>3 DEF UpTyped
    <2>5. Handed' = Handed
        BY <2>1 DEF Handed
    <2>6. Turns'
        BY <1>4, <2>1, <2>5 DEF Turns
    <2> QED
        BY <1>3, <2>1, <2>4, <2>6
<1>8. CASE SendPacket
    <2>1. /\ emitting # <<>> /\ posting = <<>>
          /\ \/ /\ queue # <<>>
                /\ posting' = Encode(Head(queue)) /\ queue' = Tail(queue)
                /\ UNCHANGED emitting
             \/ /\ posting' = Encode(Head(emitting)) /\ emitting' = <<>>
                /\ UNCHANGED queue
          /\ UNCHANGED <<opened, connected, tasks, draining, answering, sending,
                         theirs, told, heard>>
        BY <1>8 DEF SendPacket
    <2>2. PICK p \in Packets : posting' = Encode(p)
        BY <1>2, <2>1, PacketsMove
    <2>3. UpTyped'
        BY <1>2, <1>5, <2>1, <2>2, PacketsMove DEF UpTyped
    <2>4. Handed = tasks /\ Handed' = tasks \o Encode(p)
        BY <1>2, <2>1, <2>2, Moves DEF Handed
    <2>5. \A a : Chain(a, Handed) => Chain(a, Handed')
        BY <1>5, <2>4, StartNotDue, ChainConcat
    <2>6. Turns'
        BY <1>4, <2>1, <2>5 DEF Turns
    <2> QED
        BY <1>3, <2>1, <2>3, <2>6
<1>9. CASE Post
    <2>1. /\ posting # <<>> /\ tasks' = Append(tasks, Head(posting)) /\ posting' = Tail(posting)
          /\ UNCHANGED <<opened, connected, queue, emitting, draining, answering, sending,
                         theirs, told, heard>>
        BY <1>9 DEF Post
    <2>2. UpTyped' /\ Handed' = Handed
        BY <1>2, <2>1, Moves DEF UpTyped, Handed
    <2>3. Turns'
        BY <1>4, <2>1, <2>2 DEF Turns
    <2> QED
        BY <1>3, <2>1, <2>2, <2>3
<1>10. CASE RunTask
    <2>1. /\ ~draining /\ sending = <<>> /\ tasks # <<>> /\ tasks' = Tail(tasks)
          /\ IF opened THEN OnWire(Head(tasks)) ELSE UNCHANGED theirVars
          /\ UNCHANGED <<opened, connected, queue, emitting, posting, draining, answering, sending>>
        BY <1>10 DEF RunTask, Idle
    <2>2. UpTyped'
        BY <1>2, <2>1, Moves DEF UpTyped
    <2>3. CASE ~opened
        BY <1>3, <1>4, <2>1, <2>2, <2>3 DEF Turns
    <2>4. CASE opened
        <3>1. Chain(Ahead(theirs), Handed) /\ connected
            BY <1>4, <2>1, <2>4
        <3>2. /\ Handed # <<>> /\ Handed[1] = Head(tasks) /\ Tail(Handed) = Handed'
              /\ Head(tasks) \in Frames
            BY <1>2, <2>1, Moves DEF Handed
        <3>3. Follows(Ahead(theirs), Head(tasks)) /\ Chain(Head(tasks), Handed')
            BY <3>1, <3>2, ChainTail
        <3>4. Hearing' /\ Chain(Ahead(theirs'), Handed')
            BY <1>1, <2>1, <2>4, <3>2, <3>3, Hears
        <3>5. Turns'
            BY <1>4, <2>1, <2>4, <3>1, <3>4 DEF Turns
        <3> QED
            BY <2>2, <3>4, <3>5
    <2> QED
        BY <2>3, <2>4
<1>11. CASE Drain
    <2>1. /\ draining /\ sending = <<>>
          /\ \/ /\ queue # <<>>
                /\ sending' = Encode(Head(queue)) /\ queue' = Tail(queue)
                /\ UNCHANGED <<draining, answering>>
             \/ /\ draining' = FALSE /\ answering' = <<>>
                /\ sending' = IF answering = <<>> THEN <<>> ELSE Encode(Head(answering))
                /\ UNCHANGED queue
          /\ UNCHANGED <<opened, connected, emitting, posting, tasks, theirs, told, heard>>
        BY <1>11 DEF Drain
    <2>2. /\ opened /\ connected /\ Chain(Ahead(theirs), <<>>) /\ Chain(Start, Handed)
          /\ Handed' = Handed
        BY <1>4, <2>1 DEF Handed
    <2>3. ~Due(Ahead(theirs))
        BY <2>2 DEF Chain
    <2>4. CASE /\ queue # <<>>
               /\ sending' = Encode(Head(queue)) /\ queue' = Tail(queue)
               /\ UNCHANGED <<draining, answering>>
        <3>1. PICK p \in Packets : sending' = Encode(p)
            BY <1>2, <2>4, PacketsMove
        <3>2. UpTyped'
            BY <1>2, <1>5, <2>1, <2>4, <3>1, PacketsMove DEF UpTyped
        <3>3. Chain(Ahead(theirs), sending')
            BY <1>5, <2>3, <3>1
        <3>4. Turns'
            BY <1>4, <2>1, <2>2, <2>4, <3>3 DEF Turns
        <3> QED
            BY <1>3, <2>1, <3>2, <3>4
    <2>5. CASE draining' = FALSE /\ answering' = <<>> /\ sending' = <<>> /\ UNCHANGED queue
        <3>1. UpTyped'
            BY <1>2, <2>1, <2>5 DEF UpTyped
        <3>2. Chain(Ahead(theirs), Handed)
            BY <2>2, <2>3, StartNotDue, NotDue
        <3>3. Turns'
            BY <1>4, <2>1, <2>2, <2>5, <3>2 DEF Turns
        <3> QED
            BY <1>3, <2>1, <3>1, <3>3
    <2> QED
        BY <1>4, <2>1, <2>4, <2>5
<1>12. CASE Send
    <2>1. /\ sending # <<>> /\ OnWire(Head(sending)) /\ sending' = Tail(sending)
          /\ UNCHANGED <<opened, connected, queue, emitting, posting, tasks, draining, answering>>
        BY <1>12 DEF Send
    <2>2. /\ opened /\ draining /\ connected /\ Chain(Ahead(theirs), sending)
          /\ Chain(Start, Handed) /\ Handed' = Handed
        BY <1>4, <2>1 DEF Handed
    <2>3. /\ Head(sending) \in Frames /\ Follows(Ahead(theirs), Head(sending))
          /\ Chain(Head(sending), Tail(sending)) /\ Tail(sending) \in Seq(Frames)
        BY <2>1, <2>2, ChainTail
    <2>4. Hearing' /\ Chain(Ahead(theirs'), sending')
        BY <1>1, <2>1, <2>3, Hears
    <2>5. UpTyped'
        BY <1>2, <2>1, <2>3 DEF UpTyped
    <2>6. Turns'
        BY <1>4, <2>1, <2>2, <2>4 DEF Turns
    <2> QED
        BY <2>4, <2>5, <2>6
<1>13. CASE Receive
    <2>1. opened /\ Idle
        BY <1>13 DEF Receive, DownInv
    <2>2. /\ UNCHANGED <<opened, emitting, posting, tasks, sending, theirs, told, heard>>
          /\ UNCHANGED <<queue, answering>>
          /\ \/ UNCHANGED <<connected, draining>>
             \/ connected' = TRUE /\ draining' = ~connected
        BY <1>13, <2>1, Decoded
    <2>3. UpTyped' /\ Handed' = Handed /\ sending = <<>> /\ ~draining
        BY <1>2, <2>1, <2>2 DEF UpTyped, Handed, Idle
    <2>4. /\ Chain(Ahead(theirs), Handed) /\ (Handed = <<>> => Chain(Start, Handed))
          /\ (~connected => Handed = <<>>)
        BY <1>1, <2>1, <2>3, WhenIdle
    <2>5. Turns'
        <3>1. CASE UNCHANGED <<connected, draining>>
            BY <1>4, <2>2, <2>3, <3>1 DEF Turns
        <3>2. CASE connected /\ connected' = TRUE /\ ~draining'
            BY <1>4, <2>2, <2>3, <2>4, <3>2 DEF Turns
        <3>3. CASE ~connected /\ connected' = TRUE /\ draining'
            BY <1>4, <2>1, <2>2, <2>3, <2>4, <3>3 DEF Turns
        <3> QED
            BY <2>2, <3>1, <3>2, <3>3
    <2> QED
        BY <1>3, <2>2, <2>3, <2>5
<1>14. CASE Lose
    <2>1. /\ ~draining /\ sending = <<>> /\ opened' = FALSE
          /\ queue' = (IF connected THEN <<>> ELSE queue)
          /\ UNCHANGED <<emitting, posting, tasks, draining, answering, sending, theirs, told, heard>>
        BY <1>14 DEF Lose, Idle
    <2>2. UpTyped'
        BY <1>2, <2>1 DEF UpTyped
    <2>3. Turns'
        BY <1>4, <2>1 DEF Turns
    <2> QED
        BY <1>3, <2>1, <2>2, <2>3
<1>15. CASE Reconnect
    <2>1. /\ ~draining /\ sending = <<>> /\ ~opened /\ emitting = <<>> /\ posting = <<>> /\ tasks = <<>>
          /\ opened' = TRUE /\ theirs' = NoPartial /\ told' = <<>> /\ heard' = <<>>
          /\ UNCHANGED <<connected, queue, emitting, posting, tasks, draining, answering, sending>>
        BY <1>15 DEF Reconnect, NewLink, Idle
    <2>2. Hearing'
        <3>1. <<>> \in Seq(Messages)
            BY EmptySeq
        <3>2. ~theirs'.on /\ Collecting(theirs')
            BY <2>1 DEF NoPartial, Collecting
        <3> QED
            BY <2>1, <3>1, <3>2 DEF Hearing
    <2>3. UpTyped'
        BY <1>2, <2>1 DEF UpTyped
    <2>4. Handed' = <<>>
        BY <1>2, <2>1, ConcatEmptySeq DEF Handed
    <2>5. Ahead(theirs') = Start /\ Chain(Start, <<>>)
        BY <1>2, <2>1, StartNotDue, EmptySeq DEF Chain
    <2>6. Turns'
        BY <1>4, <2>1, <2>4, <2>5 DEF Turns
    <2> QED
        BY <2>2, <2>3, <2>6
<1> QED
    BY <1>6, <1>7, <1>8, <1>9, <1>10, <1>11, <1>12, <1>13, <1>14, <1>15
    DEF Next, Main, Network, Server

-----------------------------------------------------------------------------
IInv == TypeOK /\ DownInv /\ UpInv

LEMMA InitIInv == Init => IInv
<1> SUFFICES ASSUME Init PROVE IInv
    OBVIOUS
<1>1. /\ <<>> \in Seq(Messages) /\ <<>> \in Seq(Packets) /\ <<>> \in Seq(Frames)
      /\ Len(<<>>) = 0
    BY EmptySeq
<1>2. Collecting(NoPartial) /\ ~NoPartial.on
    BY DEF Collecting, NoPartial
<1>3. TypeOK
    <2>1. opened = FALSE /\ connected = FALSE /\ links = 0 /\ emits = 0 /\ said = <<>>
        BY DEF Init
    <2>2. ~partial.on
        BY <1>2 DEF Init
    <2>3. 0 \in 0..MaxLinks /\ 0 \in 0..MaxEmits /\ Len(<<>>) <= MaxSays
        BY <1>1, CodecAssumption
    <2> QED
        BY <2>1, <2>2, <2>3 DEF TypeOK
<1>4. DownInv
    BY <1>1, <1>2 DEF Init, DownInv
<1>5. Hearing /\ UpTyped /\ Turns
    BY <1>1, <1>2 DEF Init, Hearing, UpTyped, Turns
<1> QED
    BY <1>3, <1>4, <1>5 DEF IInv, UpInv

LEMMA TypeStep ==
    ASSUME TypeOK, DownInv, DownInv', [Next]_vars
    PROVE  TypeOK'
<1> USE DEF linkVars, mainVars, networkVars, theirVars, serverVars, decodeVars
<1>1. MaxLinks \in Nat /\ MaxEmits \in Nat /\ MaxSays \in Nat
    BY CodecAssumption
<1>2. partial'.on => Len(partial'.buffers) < partial'.text.pending
    BY OnIsDue DEF DownInv
<1>3. Len(said) \in Nat
    BY LenProperties DEF DownInv
<1>4. CASE UNCHANGED vars
    BY <1>4 DEF vars, TypeOK
<1>5. ASSUME NEW shape \in Shapes, Emit(shape)
      PROVE  TypeOK'
    BY <1>1, <1>2, <1>5 DEF Emit, TypeOK
<1>6. CASE SendPacket \/ Post \/ RunTask \/ Drain \/ Send \/ ServerPings
    BY <1>2, <1>6 DEF SendPacket, Post, RunTask, Drain, Send, ServerPings, TypeOK
<1>7. CASE Receive
    <2>1. opened
        BY <1>7 DEF Receive, DownInv
    <2>2. /\ UNCHANGED <<opened, links, emits, said>>
          /\ UNCHANGED connected \/ connected' = TRUE
        BY <1>7, <2>1, Decoded
    <2> QED
        BY <1>2, <2>1, <2>2 DEF TypeOK
<1>8. CASE Lose
    BY <1>2, <1>8 DEF Lose, TypeOK
<1>9. CASE Reconnect
    <2>1. Len(<<>>) = 0
        BY EmptySeq
    <2> QED
        BY <1>1, <1>2, <1>9, <2>1 DEF Reconnect, NewLink, TypeOK
<1>10. ASSUME NEW shape \in Shapes, NEW ack \in BOOLEAN, ServerSays(shape, ack)
       PROVE  TypeOK'
    <2>1. Len(said') = Len(said) + 1
        <3>1. MessageOf(shape, Len(said) + 1) \in Messages
            BY <1>3, MessageTyped
        <3> QED
            BY <1>10, <3>1, AppendProperties DEF ServerSays, DownInv
    <2> QED
        BY <1>1, <1>2, <1>3, <1>10, <2>1 DEF ServerSays, TypeOK
<1> QED
    BY <1>4, <1>5, <1>6, <1>7, <1>8, <1>9, <1>10 DEF Next, Main, Network, Server

LEMMA Invariance == Spec => []IInv
<1>1. IInv /\ [Next]_vars => IInv'
    BY DownStep, UpStep, TypeStep DEF IInv
<1> QED
    BY <1>1, InitIInv, PTL DEF Spec

(* The counters keep their bounds, only a link that is open has joined the *)
(* namespace, and a partial packet is one that waits for something         *)
(* (parse_buffer, sio_packet.cpp:247).                                     *)
THEOREM CodecTypes == Spec => []TypeOK
BY Invariance, PTL DEF IInv

(* The server gets every message with its own binary parts in their        *)
(* places, whatever the two threads of the client put between packets, as  *)
(* long as no acknowledgement is asked for (encode and put_payload,        *)
(* sio_packet.cpp:444-517; on_encode, sio_client_impl.cpp:593).            *)
THEOREM PartsMeet == Spec => []AttachmentsMeet
<1>1. IInv => AttachmentsMeet
    <2> SUFFICES ASSUME Hearing
                 PROVE  IsPrefix(heard, told) /\ Len(told) <= Len(heard) + 1
        BY DEF IInv, UpInv, AttachmentsMeet
    <2>1. heard \in Seq(Messages) /\ told \in Seq(Messages) /\ Len(heard) \in Nat
        BY LenProperties DEF Hearing
    <2>2. CASE told = heard
        BY <2>1, <2>2 DEF IsPrefix
    <2>3. CASE theirs.on
        <3> DEFINE m == theirs.text.of.message
        <3>1. m \in Messages
            BY <2>3, OnIsDue, PacketIs DEF Hearing
        <3>2. told = Append(heard, m)
            BY <2>3 DEF Hearing
        <3> HIDE DEF m
        <3>3. /\ Len(told) = Len(heard) + 1
              /\ \A i \in 1..Len(heard) : told[i] = heard[i]
            BY <2>1, <3>1, <3>2, AppendProperties
        <3>4. SubSeq(heard, 1, Len(heard)) = SubSeq(told, 1, Len(heard))
            BY <2>1, <3>3
        <3> QED
            BY <2>1, <3>3, <3>4 DEF IsPrefix
    <2> QED
        BY <2>2, <2>3 DEF Hearing
<1> QED
    BY <1>1, Invariance, PTL

(* The client decodes on a link what the server says on it, in order, and  *)
(* all of it when nothing is on its way; what the last link left behind is *)
(* gone (put_payload and parse_buffer, sio_packet.cpp:247-265, 476-517;    *)
(* reset_states, sio_client_impl.cpp:620).                                 *)
THEOREM HearsWhatIsSaid == Spec => []DecodesAsSaid
<1>1. IInv => DecodesAsSaid
    <2> SUFFICES ASSUME DownInv PROVE DecodesAsSaid
        BY DEF IInv
    <2>1. /\ got \in Seq(Messages) /\ said \in Seq(Messages) /\ Len(got) \in Nat
          /\ Len(got) <= Len(said) /\ \A i \in 1..Len(got) : got[i] = said[i]
        BY LenProperties DEF DownInv
    <2>2. IsPrefix(got, said)
        <3>1. SubSeq(got, 1, Len(got)) = SubSeq(said, 1, Len(got))
            BY <2>1
        <3> QED
            BY <2>1, <3>1 DEF IsPrefix
    <2>3. ASSUME opened, down = <<>> PROVE got = said
        <3>1. ~Due(Ahead(partial)) /\ Reached = Len(said)
            BY <2>3 DEF DownInv, Chain, Numbered
        <3>2. Len(got) = Len(said)
            BY <3>1, OnIsDue DEF DownInv, Reached
        <3> QED
            BY <2>1, <3>2, SeqEqual
    <2> QED
        BY <2>2, <2>3 DEF DecodesAsSaid
<1> QED
    BY <1>1, Invariance, PTL

=============================================================================
