-------------------------- MODULE SioSocketProofs --------------------------
(***************************************************************************)
(* The socket's invariants, for any number of links, messages and events   *)
(* in the loop, and every set of circumstances.                            *)
(***************************************************************************)
EXTENDS SioSocket, SequenceTheorems, TLAPS

Sendable == [id : Nat \ {0}, kind : {"params", "other"}]
Loopable == Sendable \cup {Join, Answer, Leave, Timeout, Stale}
States == {"none", "asked", "joined", "again"}

Typed ==
    /\ con \in {"closed", "opened", "closing"}
    /\ nsp \in States
    /\ timer \in {"none", "join", "leave"}
    /\ there \in BOOLEAN /\ connected \in BOOLEAN
    /\ draining \in BOOLEAN /\ listening \in BOOLEAN
    /\ inEmit \in {"no", "drain", "push"}
    /\ wire \in Seq([sent : Sendable, state : States])
    /\ queue \in Seq(Sendable) /\ todo \in Seq(Sendable)
    /\ loop \in Seq(Loopable)
    /\ uiq \in Seq({"open", "close", "params"})
    /\ emitted \in Nat /\ lost \in Nat /\ Len(todo) <= emitted
    /\ inEmit # "no" => todo # <<>>

-----------------------------------------------------------------------------
(* The types.                                                              *)

LEMMA Bounds == MaxLinks \in Nat /\ MaxEmits \in Nat /\ Greetings \in Nat \ {0}
BY SocketAssumption

LEMMA Packets0 == {Join, Answer, Leave, Timeout, Stale} \subseteq Loopable
BY DEF Loopable

LEMMA KindsApart ==
    /\ Join.kind = "join" /\ Answer.kind = "answer" /\ Leave.kind = "leave"
    /\ Timeout.kind = "timeout" /\ Stale.kind = "stale"
    /\ Join.id = 0 /\ Answer.id = 0 /\ Leave.id = 0 /\ Timeout.id = 0 /\ Stale.id = 0
BY DEF Join, Answer, Leave, Timeout, Stale, Message

LEMMA LoopableIs ==
    ASSUME NEW m \in Loopable
    PROVE  /\ m.kind \in {"params", "other", "join", "answer", "leave", "timeout", "stale"}
           /\ m.id \in Nat
           /\ m.kind \in {"params", "other"} <=> m.id # 0
           /\ m.kind \in {"params", "other"} <=> m \in Sendable
           /\ m.kind = "join" <=> m = Join
           /\ m.kind = "answer" <=> m = Answer
           /\ m.kind = "leave" <=> m = Leave
           /\ m.kind = "timeout" <=> m = Timeout
           /\ m.kind = "stale" <=> m = Stale
<1>1. CASE m \in Sendable
    BY <1>1, KindsApart DEF Sendable
<1>2. CASE m \in {Join, Answer, Leave, Timeout, Stale}
    BY <1>2, KindsApart DEF Sendable
<1> QED
    BY <1>1, <1>2 DEF Loopable

(* A sequence loses its head, or gets an element more.                     *)
LEMMA TailTyped ==
    ASSUME NEW S, NEW s \in Seq(S), s # <<>>
    PROVE  /\ Tail(s) \in Seq(S) /\ Head(s) \in S /\ Head(s) = s[1] /\ Len(s) \in Nat \ {0}
           /\ Len(Tail(s)) = Len(s) - 1
           /\ \A i \in 1..(Len(s) - 1) : Tail(s)[i] = s[i + 1]
<1>1. Len(s) \in Nat /\ Len(s) # 0
    BY LenProperties, EmptySeq
<1>2. s[1] \in S
    BY <1>1, ElementOfSeq
<1> QED
    BY <1>1, <1>2, HeadTailProperties

LEMMA GreetingTyped ==
    ASSUME emitted \in Nat
    PROVE  /\ Greeting \in Seq(Sendable) /\ Len(Greeting) = Greetings
           /\ \A k \in 1..Greetings : Greeting[k].id = emitted + k
<1>1. ASSUME NEW k \in 1..Greetings
      PROVE  /\ Message(emitted + k, IF k = 1 THEN "params" ELSE "other") \in Sendable
             /\ Message(emitted + k, IF k = 1 THEN "params" ELSE "other").id = emitted + k
    <2>1. emitted + k \in Nat \ {0}
        BY Bounds
    <2> QED
        BY <2>1 DEF Message, Sendable
<1>2. Greetings \in Nat
    BY Bounds
<1>3. \A k \in 1..Greetings : Greeting[k] = Message(emitted + k, IF k = 1 THEN "params" ELSE "other")
    BY DEF Greeting
<1>4. Greeting \in Seq(Sendable) /\ Len(Greeting) = Greetings
    BY <1>1, <1>2, IsASeq DEF Greeting
<1> QED
    BY <1>1, <1>3, <1>4

LEMMA LookupTyped ==
    ASSUME Typed, Lookup
    PROVE  /\ there' = TRUE /\ connected' \in BOOLEAN /\ timer' \in {"none", "join", "leave"}
           /\ queue' \in Seq(Sendable) /\ loop' \in Seq(Loopable)
<1>1. Append(loop, Join) \in Seq(Loopable)
    BY Packets0, AppendProperties DEF Typed
<1> QED
    BY <1>1, EmptySeq DEF Typed, Lookup

(* What on_close leaves of the loop.                                       *)
Left(rest) == [i \in DOMAIN rest |-> IF rest[i] = Timeout THEN Stale ELSE rest[i]]

LEMMA LeftTyped ==
    ASSUME NEW rest \in Seq(Loopable)
    PROVE  /\ Left(rest) \in Seq(Loopable) /\ Len(Left(rest)) = Len(rest)
           /\ \A i \in 1..Len(rest) : Left(rest)[i] = IF rest[i] = Timeout THEN Stale ELSE rest[i]
<1>1. Len(rest) \in Nat /\ DOMAIN rest = 1..Len(rest) /\ \A i \in 1..Len(rest) : rest[i] \in Loopable
    BY LenProperties, ElementOfSeq
<1>2. Left(rest) = [i \in 1..Len(rest) |-> IF rest[i] = Timeout THEN Stale ELSE rest[i]]
    BY <1>1 DEF Left
<1>3. \A i \in 1..Len(rest) : (IF rest[i] = Timeout THEN Stale ELSE rest[i]) \in Loopable
    BY <1>1, Packets0
<1> QED
    BY <1>1, <1>2, <1>3, IsASeq

LEMMA ClosedTyped ==
    ASSUME Typed, NEW rest \in Seq(Loopable), Closed(rest)
    PROVE  /\ there' = FALSE /\ connected' = FALSE /\ listening' = FALSE
           /\ timer' = "none" /\ queue' = <<>> /\ queue' \in Seq(Sendable)
           /\ loop' \in Seq(Loopable)
           /\ uiq' = Append(uiq, "close") /\ uiq' \in Seq({"open", "close", "params"})
           /\ loop' = IF timer = "leave" THEN Append(Left(rest), Stale) ELSE Left(rest)
           /\ lost' = Dropped
<1>1. Append(Left(rest), Stale) \in Seq(Loopable)
    BY LeftTyped, Packets0, AppendProperties
<1>2. loop' = IF timer = "leave" THEN Append(Left(rest), Stale) ELSE Left(rest)
    BY DEF Closed, Left
<1>3. uiq' \in Seq({"open", "close", "params"})
    BY AppendProperties DEF Closed, Typed
<1> QED
    BY <1>1, <1>2, <1>3, LeftTyped, EmptySeq DEF Closed

LEMMA DroppedNat == Typed => Len(todo) \in Nat /\ Dropped \in Nat /\ Dropped <= emitted
BY LenProperties DEF Typed, Dropped

LEMMA TypedInit == Init => Typed
<1> SUFFICES ASSUME Init PROVE Typed
    OBVIOUS
<1>1. Len(todo) = 0 /\ emitted = 0 /\ Len(todo) <= emitted
    BY DEF Init
<1>2. /\ wire \in Seq([sent : Sendable, state : States]) /\ queue \in Seq(Sendable)
      /\ todo \in Seq(Sendable) /\ loop \in Seq(Loopable)
      /\ uiq \in Seq({"open", "close", "params"})
    BY EmptySeq DEF Init
<1>3. /\ con \in {"closed", "opened", "closing"} /\ nsp \in States
      /\ timer \in {"none", "join", "leave"} /\ inEmit = "no" /\ lost \in Nat
    BY DEF Init, States
<1>4. /\ there \in BOOLEAN /\ connected \in BOOLEAN
      /\ draining \in BOOLEAN /\ listening \in BOOLEAN
    BY DEF Init
<1> QED
    BY <1>1, <1>2, <1>3, <1>4 DEF Typed

LEMMA TypedMain == Typed /\ (Main \/ User) => Typed'
<1> SUFFICES ASSUME Typed, Main \/ User PROVE Typed'
    OBVIOUS
<1> USE Bounds
<1>1. ASSUME uiq # <<>>, uiq' = Tail(uiq) PROVE uiq' \in Seq({"open", "close", "params"})
    BY <1>1, TailTyped DEF Typed
<1>2. ASSUME todo # <<>>, todo' = Tail(todo), emitted' = emitted
      PROVE  todo' \in Seq(Sendable) /\ Head(todo) \in Sendable /\ Len(todo') <= emitted'
    BY <1>2, TailTyped DEF Typed
<1>3. CASE OnSocketOpen
    <2>1. uiq' \in Seq({"open", "close", "params"})
        BY <1>1, <1>3 DEF OnSocketOpen, Signalled
    <2>2. todo' \in Seq(Sendable) /\ emitted' \in Nat /\ Len(todo') <= emitted'
        BY <1>3, GreetingTyped DEF OnSocketOpen, Typed
    <2>3. Lookup
        BY <1>3 DEF OnSocketOpen
    <2> QED
        BY <1>3, <2>1, <2>2, <2>3, LookupTyped DEF OnSocketOpen, Typed, conVars, serverVars, Signalled, Idle
<1>4. CASE OnSocketClose
    <2>1. uiq' \in Seq({"open", "close", "params"})
        BY <1>1, <1>4 DEF OnSocketClose, Signalled
    <2>2. Lookup /\ listening' \in BOOLEAN
        BY <1>4 DEF OnSocketClose
    <2> QED
        BY <1>4, <2>1, <2>2, LookupTyped DEF OnSocketClose, Typed, conVars, serverVars, mainVars, Signalled
<1>5. CASE OnParams
    <2>1. uiq' \in Seq({"open", "close", "params"})
        BY <1>1, <1>5 DEF OnParams, Signalled
    <2> QED
        BY <1>5, <2>1 DEF OnParams, Typed, conVars, serverVars, socketVars
<1>6. CASE Emit
    <2>1. Lookup /\ listening' \in BOOLEAN /\ inEmit' \in {"drain", "push"}
        BY <1>6 DEF Emit
    <2> QED
        BY <1>6, <2>1, LookupTyped DEF Emit, Typed, conVars, serverVars
<1>7. CASE EmitDrain
    <2>1. queue # <<>> /\ queue' = Tail(queue) /\ loop' = Append(loop, Head(queue))
        BY <1>7 DEF EmitDrain
    <2>2. queue' \in Seq(Sendable) /\ Head(queue) \in Sendable
        BY <2>1, TailTyped DEF Typed
    <2>3. loop' \in Seq(Loopable)
        BY <2>1, <2>2, AppendProperties DEF Typed, Loopable
    <2> QED
        BY <1>7, <2>2, <2>3 DEF EmitDrain, Typed, conVars, serverVars, mainVars
<1>8. CASE EmitSend
    <2>1. todo # <<>> /\ todo' = Tail(todo) /\ emitted' = emitted /\ loop' = Append(loop, Head(todo))
        BY <1>8 DEF EmitSend, Typed
    <2>2. todo' \in Seq(Sendable) /\ Head(todo) \in Sendable /\ Len(todo') <= emitted'
        BY <1>2, <2>1
    <2>3. loop' \in Seq(Loopable)
        BY <2>1, <2>2, AppendProperties DEF Typed, Loopable
    <2> QED
        BY <1>8, <2>2, <2>3 DEF EmitSend, Typed, conVars, serverVars, socketVars
<1>9. CASE EmitPush
    <2>1. todo # <<>> /\ todo' = Tail(todo) /\ emitted' = emitted /\ queue' = Append(queue, Head(todo))
        BY <1>9 DEF EmitPush, Typed
    <2>2. todo' \in Seq(Sendable) /\ Head(todo) \in Sendable /\ Len(todo') <= emitted'
        BY <1>2, <2>1
    <2>3. queue' \in Seq(Sendable)
        BY <2>1, <2>2, AppendProperties DEF Typed
    <2> QED
        BY <1>9, <2>2, <2>3 DEF EmitPush, Typed, conVars, serverVars
<1>10. CASE Use
    <2>1. Message(emitted + 1, "other") \in Sendable
        BY DEF Typed, Message, Sendable
    <2>2. todo' \in Seq(Sendable) /\ Len(todo') = 1 /\ emitted' = emitted + 1
        BY <1>10, <2>1 DEF Use
    <2> QED
        BY <1>10, <2>2 DEF Use, Typed, conVars, serverVars, socketVars
<1>11. CASE Close
    <2>1. queue \in Seq(Loopable)
        BY SeqMonotonic DEF Typed, Loopable
    <2>2. loop \o queue \in Seq(Loopable)
        BY <2>1, ConcatProperties DEF Typed
    <2>3. /\ con' = "closing" /\ listening' \in BOOLEAN /\ lost' = emitted
          /\ UNCHANGED <<nsp, wire, draining, uiq, todo, inEmit, emitted>>
        BY <1>11 DEF Close, serverVars
    <2>4. CASE loop' = loop \o queue /\ queue' = <<>> /\ timer' = "leave" /\ UNCHANGED <<there, connected>>
        BY <2>2, <2>3, <2>4, EmptySeq DEF Typed
    <2>5. CASE Lookup
        BY <2>3, <2>5, LookupTyped DEF Typed
    <2> QED
        BY <1>11, <2>4, <2>5 DEF Close
<1>12. CASE GiveUp
    BY <1>12 DEF GiveUp, Typed, serverVars, socketVars
<1> QED
    BY <1>3, <1>4, <1>5, <1>6, <1>7, <1>8, <1>9, <1>10, <1>11, <1>12 DEF Main, User

LEMMA TypedNetwork == Typed /\ Network => Typed'
<1> SUFFICES ASSUME Typed, Network PROVE Typed'
    OBVIOUS
<1>1. \A m \in {Join, Answer, Leave, Timeout, Stale} : Append(loop, m) \in Seq(Loopable)
    BY Packets0, AppendProperties DEF Typed
<1>2. CASE ServerAnswers
    BY <1>1, <1>2 DEF ServerAnswers, Arrives, Typed, States, conVars, socketVars, mainVars
<1>3. CASE ServerLeaves
    BY <1>1, <1>3 DEF ServerLeaves, Arrives, Typed, States, conVars, socketVars, mainVars
<1>4. CASE JoinExpires
    BY <1>1, <1>4 DEF JoinExpires, Arrives, Typed, conVars, serverVars, mainVars
<1>5. CASE ServerParams
    <2>1. uiq' \in Seq({"open", "close", "params"})
        BY <1>5, AppendProperties DEF ServerParams, Typed
    <2> QED
        BY <1>5, <2>1 DEF ServerParams, Typed, conVars, serverVars, socketVars, mainVars
<1>6. CASE LinkOpens
    BY <1>6, EmptySeq DEF LinkOpens, Typed, States, mainVars
<1>7. CASE LinkEnds
    <2>1. queue' \in Seq(Sendable)
        BY <1>7, EmptySeq DEF LinkEnds, Disconnected, Typed
    <2> QED
        BY <1>7, <2>1, DroppedNat DEF LinkEnds, Disconnected, Typed, States, mainVars
<1> QED
    BY <1>2, <1>3, <1>4, <1>5, <1>6, <1>7 DEF Network

LEMMA TypedRun == Typed /\ Run => Typed'
<1> SUFFICES ASSUME Typed, Run PROVE Typed'
    OBVIOUS
<1>1. ASSUME loop # <<>>
      PROVE  Tail(loop) \in Seq(Loopable) /\ Head(loop) \in Loopable
    BY <1>1, TailTyped DEF Typed
<1>2. ASSUME NEW m \in Sendable
      PROVE  Append(wire, [sent |-> m, state |-> nsp]) \in Seq([sent : Sendable, state : States])
    BY AppendProperties DEF Typed
<1>3. CASE RunTask
    <2>1. loop' \in Seq(Loopable) /\ Head(loop) \in Loopable /\ Head(loop).kind \in {"join", "params", "other"}
        BY <1>1, <1>3 DEF RunTask, Runs
    <2>2. Head(loop).id \in Nat /\ (Head(loop) # Join => Head(loop) \in Sendable)
        BY <2>1, LoopableIs
    <2>3. nsp' \in States /\ wire' \in Seq([sent : Sendable, state : States]) /\ lost' \in Nat
        <3>1. CASE con # "opened"
            BY <1>3, <2>2, <3>1 DEF RunTask, serverVars, Typed
        <3>2. CASE con = "opened" /\ Head(loop) = Join
            BY <1>3, <3>2 DEF RunTask, Typed, States
        <3>3. CASE con = "opened" /\ Head(loop) # Join
            BY <1>2, <1>3, <2>2, <3>3 DEF RunTask, Typed
        <3> QED
            BY <3>1, <3>2, <3>3
    <2> QED
        BY <1>3, <2>1, <2>3 DEF RunTask, Typed, conVars, socketVars, mainVars
<1>4. CASE Joined
    <2>1. loop' \in Seq(Loopable)
        BY <1>1, <1>4 DEF Joined, Runs
    <2>2. uiq' \in Seq({"open", "close", "params"})
        <3>1. uiq' = uiq \/ uiq' = Append(uiq, "open")
            BY <1>4 DEF Joined
        <3> QED
            BY <3>1, AppendProperties DEF Typed
    <2>3. timer' \in {"none", "join", "leave"} /\ connected' \in BOOLEAN /\ draining' \in BOOLEAN
        BY <1>4 DEF Joined, Typed
    <2> QED
        BY <1>4, <2>1, <2>2, <2>3 DEF Joined, Typed, conVars, serverVars, mainVars
<1>5. CASE JoinedDrain
    <2>1. queue' \in Seq(Sendable) /\ wire' \in Seq([sent : Sendable, state : States]) /\ draining' \in BOOLEAN
        <3>1. CASE queue = <<>>
            BY <1>5, <3>1 DEF JoinedDrain, Typed
        <3>2. CASE queue # <<>>
            <4>1. Tail(queue) \in Seq(Sendable) /\ Head(queue) \in Sendable
                BY <3>2, TailTyped DEF Typed
            <4> QED
                BY <1>2, <1>5, <3>2, <4>1 DEF JoinedDrain, Typed
        <3> QED
            BY <3>1, <3>2
    <2> QED
        BY <1>5, <2>1 DEF JoinedDrain, Typed, conVars, mainVars
<1>6. CASE SocketCloses
    <2>1. Tail(loop) \in Seq(Loopable) /\ UNCHANGED <<con, nsp, wire, draining, todo, inEmit, emitted>>
        BY <1>1, <1>6 DEF SocketCloses, Runs, conVars, serverVars, mainVars
    <2>2. CASE Closed(Tail(loop))
        BY <2>1, <2>2, ClosedTyped, DroppedNat DEF Typed
    <2>3. CASE loop' = Tail(loop) /\ UNCHANGED <<socketVars, lost, uiq>>
        BY <2>1, <2>3 DEF Typed, socketVars
    <2> QED
        BY <1>6, <2>2, <2>3 DEF SocketCloses
<1>7. CASE LeaveExpires
    <2>1. uiq' \in Seq({"open", "close", "params"})
        BY <1>7, AppendProperties DEF LeaveExpires, Typed
    <2> QED
        BY <1>7, <2>1, EmptySeq, DroppedNat DEF LeaveExpires, Typed, conVars, serverVars, mainVars
<1>8. CASE RunStale
    <2>1. Tail(loop) \in Seq(Loopable) /\ UNCHANGED <<con, nsp, wire, draining, todo, inEmit, emitted>>
        BY <1>1, <1>8 DEF RunStale, Runs, conVars, serverVars, mainVars
    <2>2. CASE Closed(Tail(loop))
        BY <2>1, <2>2, ClosedTyped, DroppedNat DEF Typed
    <2>3. CASE loop' = Tail(loop) /\ UNCHANGED <<socketVars, lost, uiq>>
        BY <2>1, <2>3 DEF Typed, socketVars
    <2> QED
        BY <1>8, <2>2, <2>3 DEF RunStale
<1> QED
    BY <1>3, <1>4, <1>5, <1>6, <1>7, <1>8 DEF Run

LEMMA TypedStep == Typed /\ [Next]_vars => Typed'
<1>1. Typed /\ UNCHANGED vars => Typed'
    BY DEF Typed, vars, conVars, serverVars, socketVars, mainVars
<1> QED
    BY <1>1, TypedMain, TypedNetwork, TypedRun DEF Next

-----------------------------------------------------------------------------
(* The socket's own state, and what the window hears.                      *)

Basics ==
    /\ connected => there
    /\ con = "closed" => ~connected /\ ~draining
    /\ ~there => queue = <<>> /\ inEmit = "no"
    /\ con = "opened" => timer # "leave"

(* A socket that is joined has its listener, or the window is still to be  *)
(* told that it is open.                                                   *)
Listens == connected => listening \/ \E i \in 1..Len(uiq) : uiq[i] = "open"

LEMMA BasicsInit == Init => Basics /\ Listens
BY DEF Init, Basics, Listens

LEMMA BasicsStep == Typed /\ Basics /\ [Next]_vars => Basics'
<1> SUFFICES ASSUME Typed, Basics, [Next]_vars PROVE Basics'
    OBVIOUS
<1> USE DEF Basics
<1>1. CASE OnSocketOpen
    BY <1>1 DEF OnSocketOpen, Lookup, conVars, serverVars, Signalled, Idle
<1>2. CASE OnSocketClose
    BY <1>2 DEF OnSocketClose, Lookup, conVars, serverVars, mainVars
<1>3. CASE OnParams
    BY <1>3 DEF OnParams, conVars, serverVars, socketVars
<1>4. CASE Emit
    BY <1>4 DEF Emit, Lookup, conVars, serverVars
<1>5. CASE EmitDrain
    BY <1>5 DEF EmitDrain, conVars, serverVars, mainVars
<1>6. CASE EmitSend
    BY <1>6 DEF EmitSend, conVars, serverVars, socketVars
<1>7. CASE EmitPush
    BY <1>7 DEF EmitPush, conVars, serverVars
<1>8. CASE Use
    BY <1>8 DEF Use, Idle, conVars, serverVars, socketVars
<1>9. CASE Close
    BY <1>9 DEF Close, Lookup, Idle, serverVars
<1>10. CASE GiveUp
    BY <1>10 DEF GiveUp, serverVars, socketVars
<1>11. CASE ServerAnswers
    BY <1>11 DEF ServerAnswers, conVars, socketVars, mainVars
<1>12. CASE ServerLeaves
    BY <1>12 DEF ServerLeaves, conVars, socketVars, mainVars
<1>13. CASE JoinExpires
    BY <1>13 DEF JoinExpires, conVars, serverVars, mainVars
<1>14. CASE ServerParams
    BY <1>14 DEF ServerParams, conVars, serverVars, socketVars, mainVars
<1>15. CASE LinkOpens
    BY <1>15 DEF LinkOpens, mainVars
<1>16. CASE LinkEnds
    BY <1>16 DEF LinkEnds, Disconnected, MainRests, mainVars
<1>17. CASE RunTask
    BY <1>17 DEF RunTask, conVars, socketVars, mainVars
<1>18. CASE Joined
    BY <1>18 DEF Joined, conVars, serverVars, mainVars
<1>19. CASE JoinedDrain
    BY <1>19 DEF JoinedDrain, conVars, mainVars
<1>20. CASE SocketCloses
    BY <1>20 DEF SocketCloses, Closed, conVars, serverVars, socketVars, mainVars
<1>21. CASE LeaveExpires
    BY <1>21 DEF LeaveExpires, conVars, serverVars, mainVars
<1>22. CASE RunStale
    BY <1>22 DEF RunStale, Closed, conVars, serverVars, socketVars, mainVars
<1>23. CASE UNCHANGED vars
    BY <1>23 DEF vars, conVars, serverVars, socketVars, mainVars
<1> QED
    BY <1>1, <1>2, <1>3, <1>4, <1>5, <1>6, <1>7, <1>8, <1>9, <1>10, <1>11, <1>12, <1>13,
       <1>14, <1>15, <1>16, <1>17, <1>18, <1>19, <1>20, <1>21, <1>22, <1>23
       DEF Next, Main, User, Network, Run

LEMMA ListensStep == Typed /\ Basics /\ Listens /\ [Next]_vars => Listens'
<1> SUFFICES ASSUME Typed, Basics, Listens, [Next]_vars, connected'
             PROVE  listening' \/ \E i \in 1..Len(uiq') : uiq'[i] = "open"
    BY DEF Listens
<1>1. ASSUME connected, listening' = listening \/ listening' = TRUE, uiq' = uiq
      PROVE  listening' \/ \E i \in 1..Len(uiq') : uiq'[i] = "open"
    BY <1>1 DEF Listens
<1>2. ASSUME connected, listening' = listening, NEW e, e # "open", uiq # <<>>, Head(uiq) = e, uiq' = Tail(uiq)
      PROVE  listening' \/ \E i \in 1..Len(uiq') : uiq'[i] = "open"
    <2>1. CASE listening
        BY <1>2, <2>1
    <2>2. CASE ~listening
        <3>1. PICK i \in 1..Len(uiq) : uiq[i] = "open"
            BY <1>2, <2>2 DEF Listens
        <3>2. /\ Len(uiq) \in Nat /\ uiq[1] # "open"
              /\ Len(uiq') = Len(uiq) - 1 /\ \A j \in 1..(Len(uiq) - 1) : uiq'[j] = uiq[j + 1]
            BY <1>2, TailTyped DEF Typed
        <3>3. i # 1 /\ i - 1 \in 1..Len(uiq') /\ uiq'[i - 1] = uiq[(i - 1) + 1] /\ (i - 1) + 1 = i
            BY <3>1, <3>2
        <3> QED
            BY <3>1, <3>3
    <2> QED
        BY <2>1, <2>2
<1>3. ASSUME connected, listening' = listening, NEW e \in {"open", "close", "params"}, uiq' = Append(uiq, e)
      PROVE  listening' \/ \E i \in 1..Len(uiq') : uiq'[i] = "open"
    <2>1. CASE listening
        BY <1>3, <2>1
    <2>2. CASE ~listening
        <3>1. PICK i \in 1..Len(uiq) : uiq[i] = "open"
            BY <1>3, <2>2 DEF Listens
        <3>2. i \in 1..Len(uiq') /\ uiq'[i] = uiq[i]
            BY <1>3, <3>1, LenProperties DEF Typed
        <3> QED
            BY <3>1, <3>2
    <2> QED
        BY <2>1, <2>2
<1>4. CASE OnSocketOpen
    BY <1>4 DEF OnSocketOpen
<1>5. CASE OnSocketClose
    <2>1. there
        BY <1>5 DEF OnSocketClose, Lookup
    <2>2. connected /\ listening' = listening
        BY <1>5, <2>1 DEF OnSocketClose, Lookup, Typed
    <2>3. uiq # <<>> /\ Head(uiq) = "close" /\ uiq' = Tail(uiq)
        BY <1>5 DEF OnSocketClose, Signalled
    <2> QED
        BY <1>2, <2>2, <2>3
<1>6. CASE OnParams
    <2>1. connected /\ listening' = listening
        BY <1>6 DEF OnParams, socketVars
    <2>2. uiq # <<>> /\ Head(uiq) = "params" /\ uiq' = Tail(uiq)
        BY <1>6 DEF OnParams, Signalled
    <2> QED
        BY <1>2, <2>1, <2>2
<1>7. CASE Emit
    <2>1. there
        BY <1>7 DEF Emit, Lookup
    <2>2. connected /\ listening' = listening /\ uiq' = uiq
        BY <1>7, <2>1 DEF Emit, Lookup, Typed
    <2> QED
        BY <1>1, <2>2
<1>8. CASE Close
    <2>1. there
        BY <1>8 DEF Close, Lookup, Basics
    <2>2. connected /\ listening' = listening /\ uiq' = uiq
        BY <1>8, <2>1 DEF Close, Lookup, Typed
    <2> QED
        BY <1>1, <2>2
<1>9. CASE Joined
    <2>1. CASE connected
        <3>1. listening' = listening /\ uiq' = uiq
            BY <1>9, <2>1 DEF Joined
        <3> QED
            BY <1>1, <2>1, <3>1
    <2>2. CASE ~connected
        <3>1. uiq' = Append(uiq, "open")
            BY <1>9, <2>2 DEF Joined
        <3>2. Len(uiq) \in Nat /\ Len(uiq') = Len(uiq) + 1 /\ uiq'[Len(uiq) + 1] = "open"
            BY <3>1, LenProperties, AppendProperties DEF Typed
        <3> QED
            BY <3>2
    <2> QED
        BY <2>1, <2>2
<1>10. CASE ServerParams
    BY <1>3, <1>10 DEF ServerParams, socketVars
<1>11. CASE SocketCloses \/ RunStale
    <2>1. connected /\ listening' = listening /\ uiq' = uiq
        BY <1>11 DEF SocketCloses, RunStale, Closed, socketVars
    <2> QED
        BY <1>1, <2>1
<1>12. CASE LeaveExpires
    BY <1>12 DEF LeaveExpires
<1>13. CASE LinkEnds
    BY <1>13 DEF LinkEnds, Disconnected
<1>14. CASE EmitDrain \/ EmitSend \/ EmitPush \/ Use \/ GiveUp
    BY <1>1, <1>14 DEF EmitDrain, EmitSend, EmitPush, Use, GiveUp, socketVars
<1>15. CASE ServerAnswers \/ ServerLeaves \/ JoinExpires \/ LinkOpens
    BY <1>1, <1>15 DEF ServerAnswers, ServerLeaves, JoinExpires, LinkOpens, socketVars
<1>16. CASE RunTask \/ JoinedDrain
    BY <1>1, <1>16 DEF RunTask, JoinedDrain, socketVars
<1>17. CASE UNCHANGED vars
    BY <1>1, <1>17 DEF vars, socketVars
<1> QED
    BY <1>4, <1>5, <1>6, <1>7, <1>8, <1>9, <1>10, <1>11, <1>12, <1>13, <1>14, <1>15, <1>16,
       <1>17 DEF Next, Main, User, Network, Run

LEMMA BasicsInductive == Spec => [](Typed /\ Basics /\ Listens)
<1>1. Init => Typed /\ Basics /\ Listens
    BY TypedInit, BasicsInit
<1>2. Typed /\ Basics /\ Listens /\ [Next]_vars => (Typed /\ Basics /\ Listens)'
    BY TypedStep, BasicsStep, ListensStep
<1> QED
    BY <1>1, <1>2, PTL DEF Spec

(* The window hears the server: a socket that is joined has its listener.  *)
THEOREM WindowHears == Spec => []Heard
<1>1. Typed /\ Basics /\ Listens => Heard
    <2> SUFFICES ASSUME Typed, Listens, connected, uiq = <<>> PROVE listening
        BY DEF Heard
    <2>1. Len(uiq) = 0
        OBVIOUS
    <2> QED
        BY <2>1 DEF Listens
<1> QED
    BY <1>1, BasicsInductive, PTL

-----------------------------------------------------------------------------
(* Nothing is sent before the namespace is joined.                         *)

Msgs == {"params", "other"}
OnlyIn(s, kinds) == \A i \in 1..Len(s) : s[i].kind \in kinds

(* Someone may send what waits, or what is emitted, without asking again.  *)
Reaches == connected \/ draining \/ inEmit = "drain"

(* If the server does not leave, the namespace stays joined until the link *)
(* ends: what may be sent, or the answer, is found only in a joined one.   *)
Stays ==
    /\ OnlyIn(loop, Msgs \cup {"join", "answer", "timeout", "stale"})
    /\ Belongs \/ (~Reaches /\ OnlyIn(loop, {"join", "timeout", "stale"}))

(* If no timer expires on a link that stands, asking, answering and        *)
(* leaving take turns.                                                     *)
Asked == nsp = "asked" /\ ~Reaches /\ there /\ Len(loop) = 0
Answered == nsp = "joined" /\ ~Reaches /\ there /\ Len(loop) = 1 /\ loop[1] = Answer
In == nsp = "joined" /\ connected /\ there /\ OnlyIn(loop, Msgs)
Leaving ==
    /\ nsp = "none" /\ connected /\ there
    /\ \E k \in 1..Len(loop) : /\ loop[k] = Leave
                               /\ \A i \in 1..Len(loop) : i # k => loop[i].kind \in Msgs
CutOff ==
    nsp = "none" /\ ~Reaches /\ there /\ Len(loop) = 2 /\ loop[1] = Answer /\ loop[2] = Leave
Out == nsp = "none" /\ ~Reaches /\ ~there /\ OnlyIn(loop, Msgs)
Asking ==
    /\ nsp = "none" /\ ~Reaches /\ there
    /\ Len(loop) > 0 /\ loop[Len(loop)] = Join
    /\ \A i \in 1..(Len(loop) - 1) : loop[i].kind \in Msgs

Punctual == Asked \/ Answered \/ In \/ ("leave" \in cases /\ (Leaving \/ CutOff \/ Out \/ Asking))

StaysInv == "leave" \notin cases /\ con = "opened" => Stays
PunctualInv == "slow" \notin cases /\ con = "opened" => Punctual

LEMMA AppendLoop ==
    ASSUME Typed, NEW m \in Loopable, loop' = Append(loop, m)
    PROVE  /\ Len(loop) \in Nat /\ Len(loop') = Len(loop) + 1 /\ loop'[Len(loop) + 1] = m
           /\ \A j \in 1..Len(loop) : loop'[j] = loop[j]
BY AppendProperties, LenProperties DEF Typed

LEMMA TailLoop ==
    ASSUME Typed, loop # <<>>, loop' = Tail(loop)
    PROVE  /\ Len(loop) \in Nat \ {0} /\ Len(loop') = Len(loop) - 1 /\ Head(loop) = loop[1]
           /\ loop[1] \in Loopable
           /\ \A j \in 1..(Len(loop) - 1) : loop'[j] = loop[j + 1]
BY TailTyped DEF Typed

LEMMA AppendOnly ==
    ASSUME Typed, NEW kinds, OnlyIn(loop, kinds), NEW m \in Loopable, m.kind \in kinds,
           loop' = Append(loop, m)
    PROVE  OnlyIn(loop', kinds)
BY AppendLoop DEF OnlyIn

LEMMA TailOnly ==
    ASSUME Typed, NEW kinds, OnlyIn(loop, kinds), loop # <<>>, loop' = Tail(loop)
    PROVE  OnlyIn(loop', kinds)
<1>1. /\ Len(loop) \in Nat \ {0} /\ Len(loop') = Len(loop) - 1
      /\ \A j \in 1..(Len(loop) - 1) : loop'[j] = loop[j + 1]
    BY TailLoop
<1> SUFFICES ASSUME NEW i \in 1..Len(loop') PROVE loop'[i].kind \in kinds
    BY DEF OnlyIn
<1>2. i + 1 \in 1..Len(loop) /\ loop'[i] = loop[i + 1]
    BY <1>1
<1> QED
    BY <1>2 DEF OnlyIn

LEMMA ClosedOnly ==
    ASSUME Typed, NEW kinds, OnlyIn(loop, kinds), "timeout" \in kinds => "stale" \in kinds,
           timer = "leave" => "stale" \in kinds,
           loop # <<>>, Closed(Tail(loop))
    PROVE  OnlyIn(loop', kinds)
<1> DEFINE rest == Tail(loop)
<1>1. /\ Len(loop) \in Nat \ {0} /\ rest \in Seq(Loopable) /\ Len(rest) = Len(loop) - 1
      /\ \A j \in 1..(Len(loop) - 1) : rest[j] = loop[j + 1]
    BY TailTyped DEF Typed
<1> HIDE DEF rest
<1>2. OnlyIn(rest, kinds)
    <2> SUFFICES ASSUME NEW i \in 1..Len(rest) PROVE rest[i].kind \in kinds
        BY DEF OnlyIn
    <2>1. i + 1 \in 1..Len(loop) /\ rest[i] = loop[i + 1]
        BY <1>1
    <2> QED
        BY <2>1 DEF OnlyIn
<1>3. /\ Left(rest) \in Seq(Loopable) /\ Len(Left(rest)) = Len(rest)
      /\ \A i \in 1..Len(rest) : Left(rest)[i] = IF rest[i] = Timeout THEN Stale ELSE rest[i]
    BY <1>1, LeftTyped
<1>4. OnlyIn(Left(rest), kinds)
    BY <1>2, <1>3, KindsApart DEF OnlyIn
<1>5. loop' = IF timer = "leave" THEN Append(Left(rest), Stale) ELSE Left(rest)
    BY <1>1, ClosedTyped DEF rest
<1>6. CASE timer = "leave"
    <2>1. /\ Len(Append(Left(rest), Stale)) = Len(rest) + 1
          /\ Append(Left(rest), Stale)[Len(rest) + 1] = Stale
          /\ \A i \in 1..Len(rest) : Append(Left(rest), Stale)[i] = Left(rest)[i]
        BY <1>1, <1>3, Packets0, AppendProperties
    <2> QED
        BY <1>1, <1>3, <1>4, <1>5, <1>6, <2>1, KindsApart DEF OnlyIn
<1>7. CASE timer # "leave"
    BY <1>4, <1>5, <1>7
<1> QED
    BY <1>6, <1>7

LEMMA CasesKept == [Next]_vars => cases' = cases
BY DEF Next, Main, User, Network, Run, vars, OnSocketOpen, OnSocketClose, OnParams, Emit,
       EmitDrain, EmitSend, EmitPush, Use, Close, GiveUp, ServerAnswers, ServerLeaves,
       JoinExpires, ServerParams, LinkOpens, LinkEnds, RunTask, Joined, JoinedDrain,
       SocketCloses, LeaveExpires, RunStale

LEMMA StaysStep ==
    Typed /\ Basics /\ StaysInv /\ [Next]_vars => StaysInv'
<1> SUFFICES ASSUME Typed, Basics, StaysInv, [Next]_vars, "leave" \notin cases, con' = "opened"
             PROVE  Stays'
    BY CasesKept DEF StaysInv
<1> DEFINE Kinds == Msgs \cup {"join", "answer", "timeout", "stale"}
           Idling == {"join", "timeout", "stale"}
<1>1. con = "opened" => Stays
    BY DEF StaysInv
<1>2. ASSUME con = "opened", UNCHANGED <<loop, nsp>>, Reaches' => Reaches PROVE Stays'
    BY <1>1, <1>2 DEF Stays, Belongs, OnlyIn
<1>3. ASSUME con = "opened", Lookup, nsp' = nsp, Reaches' => Reaches PROVE Stays'
    <2>1. CASE there
        BY <1>2, <1>3, <2>1 DEF Lookup
    <2>2. CASE ~there
        <3>1. loop' = Append(loop, Join) /\ Join \in Loopable /\ Join.kind = "join"
            BY <1>3, <2>2, Packets0, KindsApart DEF Lookup
        <3>2. OnlyIn(loop, Kinds) => OnlyIn(loop', Kinds)
            BY <3>1, AppendOnly
        <3>3. OnlyIn(loop, Idling) => OnlyIn(loop', Idling)
            BY <3>1, AppendOnly
        <3> QED
            BY <1>1, <1>3, <3>2, <3>3 DEF Stays, Belongs
    <2> QED
        BY <2>1, <2>2
<1>4. ASSUME con = "opened", Belongs, Belongs', NEW m \in Sendable \cup {Answer}, loop' = Append(loop, m)
      PROVE  Stays'
    <2>1. m \in Loopable /\ m.kind \in Kinds
        BY KindsApart DEF Loopable, Sendable, Msgs
    <2> HIDE DEF Kinds
    <2>2. OnlyIn(loop', Kinds)
        BY <1>1, <1>4, <2>1, AppendOnly DEF Stays, Kinds
    <2> QED
        BY <1>4, <2>2 DEF Stays, Kinds
<1>5. ASSUME con = "opened", loop # <<>>, loop' = Tail(loop), Belongs => Belongs',
             Reaches' => Reaches \/ Belongs'
      PROVE  Stays'
    <2>1. OnlyIn(loop, Kinds) => OnlyIn(loop', Kinds)
        BY <1>5, TailOnly
    <2>2. OnlyIn(loop, Idling) => OnlyIn(loop', Idling)
        BY <1>5, TailOnly
    <2> QED
        BY <1>1, <1>5, <2>1, <2>2 DEF Stays
<1>6. CASE OnSocketOpen
    BY <1>3, <1>6 DEF OnSocketOpen, Lookup, conVars, serverVars, Reaches
<1>7. CASE OnSocketClose
    BY <1>3, <1>7 DEF OnSocketClose, Lookup, conVars, serverVars, mainVars, Reaches
<1>8. CASE Emit
    <2>1. con = "opened" /\ Lookup /\ nsp' = nsp /\ draining' = draining
        BY <1>8 DEF Emit, conVars, serverVars
    <2>2. inEmit' = "drain" => connected
        BY <1>8 DEF Emit
    <2>3. connected' => connected
        BY <2>1 DEF Lookup
    <2> QED
        BY <1>3, <2>1, <2>2, <2>3 DEF Reaches
<1>9. CASE EmitDrain
    <2>1. Head(queue) \in Sendable
        BY <1>9, TailTyped DEF EmitDrain, Typed
    <2>2. con = "opened" /\ nsp' = nsp /\ Reaches
        BY <1>9 DEF EmitDrain, conVars, serverVars, Reaches
    <2>3. Belongs /\ Belongs'
        BY <1>1, <2>2 DEF Stays, Belongs
    <2> QED
        BY <1>4, <1>9, <2>1, <2>2, <2>3 DEF EmitDrain
<1>10. CASE EmitSend
    <2>1. Head(todo) \in Sendable
        BY <1>10, TailTyped DEF EmitSend, Typed
    <2>2. con = "opened" /\ nsp' = nsp /\ Reaches
        BY <1>10 DEF EmitSend, conVars, serverVars, Reaches
    <2>3. Belongs /\ Belongs'
        BY <1>1, <2>2 DEF Stays, Belongs
    <2> QED
        BY <1>4, <1>10, <2>1, <2>2, <2>3 DEF EmitSend
<1>11. CASE EmitPush
    BY <1>2, <1>11 DEF EmitPush, conVars, serverVars, Reaches
<1>12. CASE OnParams \/ Use \/ GiveUp \/ ServerParams \/ UNCHANGED vars
    BY <1>2, <1>12 DEF OnParams, Use, GiveUp, ServerParams, vars, conVars, serverVars, socketVars,
                       mainVars, Reaches
<1>13. CASE Close
    BY <1>13 DEF Close
<1>14. CASE ServerAnswers
    <2>1. con = "opened" /\ nsp' = "joined" /\ loop' = Append(loop, Answer)
        BY <1>14 DEF ServerAnswers, Arrives
    <2>2. Answer \in Loopable /\ Answer.kind \in Kinds
        BY Packets0, KindsApart
    <2>3. OnlyIn(loop', Kinds)
        BY <1>1, <2>1, <2>2, AppendOnly DEF Stays
    <2> QED
        BY <2>1, <2>3 DEF Stays, Belongs
<1>15. CASE ServerLeaves
    BY <1>15 DEF ServerLeaves
<1>16. CASE JoinExpires
    <2>1. /\ con = "opened" /\ nsp' = nsp /\ loop' = Append(loop, Timeout)
          /\ UNCHANGED <<connected, draining, inEmit>>
        BY <1>16 DEF JoinExpires, Arrives, conVars, serverVars, mainVars
    <2>2. Timeout \in Loopable /\ Timeout.kind = "timeout"
        BY Packets0, KindsApart
    <2>3. OnlyIn(loop, Kinds) => OnlyIn(loop', Kinds)
        BY <2>1, <2>2, AppendOnly
    <2>4. OnlyIn(loop, Idling) => OnlyIn(loop', Idling)
        BY <2>1, <2>2, AppendOnly
    <2> QED
        BY <1>1, <2>1, <2>3, <2>4 DEF Stays, Belongs, Reaches
<1>17. CASE LinkOpens
    <2>1. Len(loop') = 0
        BY <1>17 DEF LinkOpens
    <2>2. ~Reaches'
        BY <1>17 DEF LinkOpens, Basics, mainVars, Reaches
    <2> QED
        BY <2>1, <2>2 DEF Stays, OnlyIn
<1>18. CASE LinkEnds
    BY <1>18 DEF LinkEnds
<1>19. CASE RunTask
    <2>1. /\ con = "opened" /\ loop # <<>> /\ loop' = Tail(loop)
          /\ UNCHANGED <<connected, draining, inEmit>>
        BY <1>19 DEF RunTask, Runs, conVars, socketVars, mainVars
    <2>2. Belongs => Belongs'
        BY <1>19, <2>1 DEF RunTask, Belongs
    <2> QED
        BY <1>5, <2>1, <2>2 DEF Reaches
<1>20. CASE Joined
    <2>1. con = "opened" /\ loop # <<>> /\ loop' = Tail(loop) /\ Head(loop).kind = "answer" /\ nsp' = nsp
        BY <1>20 DEF Joined, Runs, conVars, serverVars
    <2>2. 1 \in 1..Len(loop) /\ loop[1].kind = "answer"
        BY <2>1, TailLoop
    <2>3. Belongs /\ Belongs'
        BY <1>1, <2>1, <2>2 DEF Stays, OnlyIn, Belongs
    <2> QED
        BY <1>5, <2>1, <2>3
<1>21. CASE JoinedDrain
    BY <1>2, <1>21 DEF JoinedDrain, conVars, mainVars, Reaches
<1>22. ASSUME con = "opened", loop # <<>>, Closed(Tail(loop)), UNCHANGED <<nsp, draining, inEmit>>
       PROVE  Stays'
    <2>1. OnlyIn(loop, Kinds) => OnlyIn(loop', Kinds)
        BY <1>22, ClosedOnly
    <2>2. OnlyIn(loop, Idling) => OnlyIn(loop', Idling)
        BY <1>22, ClosedOnly
    <2>3. ~connected'
        BY <1>22 DEF Closed
    <2> QED
        BY <1>1, <1>22, <2>1, <2>2, <2>3 DEF Stays, Belongs, Reaches
<1>23. CASE SocketCloses
    <2>1. con = "opened" /\ loop # <<>> /\ UNCHANGED <<nsp, draining, inEmit>>
        BY <1>23 DEF SocketCloses, Runs, conVars, serverVars, mainVars
    <2>2. CASE loop' = Tail(loop) /\ UNCHANGED <<socketVars, lost, uiq>>
        BY <1>5, <2>1, <2>2 DEF socketVars, Reaches, Belongs
    <2> QED
        BY <1>22, <1>23, <2>1, <2>2 DEF SocketCloses
<1>24. CASE LeaveExpires
    BY <1>2, <1>24 DEF LeaveExpires, conVars, serverVars, mainVars, Reaches
<1>25. CASE RunStale
    <2>1. con = "opened" /\ loop # <<>> /\ UNCHANGED <<nsp, draining, inEmit>>
        BY <1>25 DEF RunStale, Runs, conVars, serverVars, mainVars
    <2>2. CASE loop' = Tail(loop) /\ UNCHANGED <<socketVars, lost, uiq>>
        BY <1>5, <2>1, <2>2 DEF socketVars, Reaches, Belongs
    <2> QED
        BY <1>22, <1>25, <2>1, <2>2 DEF RunStale
<1> QED
    BY <1>6, <1>7, <1>8, <1>9, <1>10, <1>11, <1>12, <1>13, <1>14, <1>15, <1>16, <1>17, <1>18,
       <1>19, <1>20, <1>21, <1>23, <1>24, <1>25 DEF Next, Main, User, Network, Run

LEMMA PunctualStep ==
    Typed /\ Basics /\ PunctualInv /\ [Next]_vars => PunctualInv'
<1> SUFFICES ASSUME Typed, Basics, PunctualInv, [Next]_vars, "slow" \notin cases, con' = "opened"
             PROVE  Punctual'
    BY CasesKept DEF PunctualInv
<1>1. con = "opened" => Punctual
    BY DEF PunctualInv
<1>2. cases' = cases
    BY CasesKept
<1>3. /\ Join \in Loopable /\ Answer \in Loopable /\ Leave \in Loopable /\ Stale \in Loopable
      /\ Join.kind = "join" /\ Answer.kind = "answer" /\ Leave.kind = "leave"
    BY Packets0, KindsApart
<1>4. Len(loop) \in Nat /\ (loop = <<>> <=> Len(loop) = 0)
    BY LenProperties, EmptySeq DEF Typed
<1>5. ASSUME con = "opened", UNCHANGED <<loop, nsp, there, connected>>, Reaches' => Reaches
      PROVE  Punctual'
    BY <1>1, <1>2, <1>5
       DEF Punctual, Asked, Answered, In, Leaving, CutOff, Out, Asking, OnlyIn
<1>6. ASSUME con = "opened", Lookup, nsp' = nsp, Reaches' => Reaches PROVE Punctual'
    <2>1. CASE there
        BY <1>5, <1>6, <2>1 DEF Lookup
    <2>2. CASE ~there
        <3>1. loop' = Append(loop, Join) /\ there'
            BY <1>6, <2>2 DEF Lookup
        <3>2. Out /\ "leave" \in cases
            BY <1>1, <1>6, <2>2 DEF Punctual, Asked, Answered, In, Leaving, CutOff, Asking
        <3>3. /\ Len(loop') = Len(loop) + 1 /\ loop'[Len(loop) + 1] = Join
              /\ \A j \in 1..Len(loop) : loop'[j] = loop[j]
            BY <1>3, <3>1, AppendLoop
        <3>4. Asking'
            BY <1>4, <1>6, <3>1, <3>2, <3>3 DEF Asking, Out, OnlyIn
        <3> QED
            BY <1>2, <3>2, <3>4 DEF Punctual
    <2> QED
        BY <2>1, <2>2
<1>7. ASSUME con = "opened", connected, UNCHANGED <<nsp, there, connected>>,
             NEW m \in Sendable, loop' = Append(loop, m)
      PROVE  Punctual'
    <2>1. m.kind \in Msgs /\ m \in Loopable
        BY DEF Sendable, Msgs, Loopable
    <2>2. /\ Len(loop') = Len(loop) + 1 /\ loop'[Len(loop) + 1] = m
          /\ \A j \in 1..Len(loop) : loop'[j] = loop[j]
        BY <1>7, <2>1, AppendLoop
    <2>3. CASE In
        <3>1. OnlyIn(loop', Msgs)
            BY <1>7, <2>1, <2>3, AppendOnly DEF In
        <3> QED
            BY <1>7, <2>3, <3>1 DEF In, Punctual
    <2>4. CASE "leave" \in cases /\ Leaving
        <3>1. PICK k \in 1..Len(loop) : /\ loop[k] = Leave
                                        /\ \A i \in 1..Len(loop) : i # k => loop[i].kind \in Msgs
            BY <2>4 DEF Leaving
        <3>2. k \in 1..Len(loop') /\ loop'[k] = Leave
            BY <1>4, <2>2, <3>1
        <3>3. \A i \in 1..Len(loop') : i # k => loop'[i].kind \in Msgs
            BY <1>4, <2>1, <2>2, <3>1
        <3> QED
            BY <1>2, <1>7, <2>4, <3>2, <3>3 DEF Leaving, Punctual
    <2> QED
        BY <1>1, <1>7, <2>3, <2>4 DEF Punctual, Asked, Answered, CutOff, Out, Asking, Reaches
<1>8. CASE OnSocketOpen
    BY <1>6, <1>8 DEF OnSocketOpen, Lookup, conVars, serverVars, Reaches
<1>9. CASE OnSocketClose
    BY <1>6, <1>9 DEF OnSocketClose, Lookup, conVars, serverVars, mainVars, Reaches
<1>10. CASE Emit
    <2>1. con = "opened" /\ Lookup /\ nsp' = nsp /\ draining' = draining
        BY <1>10 DEF Emit, conVars, serverVars
    <2>2. inEmit' = "drain" => connected
        BY <1>10 DEF Emit
    <2>3. connected' => connected
        BY <2>1 DEF Lookup
    <2> QED
        BY <1>6, <2>1, <2>2, <2>3 DEF Reaches
<1>11. ASSUME con = "opened", inEmit = "drain" PROVE connected
    BY <1>1, <1>11 DEF Punctual, Asked, Answered, In, Leaving, CutOff, Out, Asking, Reaches
<1>12. CASE EmitDrain
    <2>1. Head(queue) \in Sendable
        BY <1>12, TailTyped DEF EmitDrain, Typed
    <2> QED
        BY <1>7, <1>11, <1>12, <2>1 DEF EmitDrain, conVars, serverVars
<1>13. CASE EmitSend
    <2>1. Head(todo) \in Sendable
        BY <1>13, TailTyped DEF EmitSend, Typed
    <2> QED
        BY <1>7, <1>11, <1>13, <2>1 DEF EmitSend, conVars, serverVars, socketVars
<1>14. CASE EmitPush
    BY <1>5, <1>14 DEF EmitPush, conVars, serverVars, Reaches
<1>15. CASE OnParams \/ Use \/ GiveUp \/ ServerParams \/ UNCHANGED vars
    BY <1>5, <1>15 DEF OnParams, Use, GiveUp, ServerParams, vars, conVars, serverVars, socketVars,
                       mainVars, Reaches
<1>16. CASE Close
    BY <1>16 DEF Close
<1>17. CASE ServerAnswers
    <2>1. /\ con = "opened" /\ nsp \in {"asked", "again"} /\ nsp' = "joined"
          /\ loop' = Append(loop, Answer) /\ UNCHANGED <<there, connected, draining, inEmit>>
        BY <1>17 DEF ServerAnswers, Arrives, conVars, socketVars, mainVars
    <2>2. Asked
        BY <1>1, <2>1 DEF Punctual, Answered, In, Leaving, CutOff, Out, Asking
    <2>3. Len(loop') = 1 /\ loop'[1] = Answer
        BY <1>3, <2>1, <2>2, AppendLoop DEF Asked
    <2>4. Answered'
        BY <2>1, <2>2, <2>3 DEF Asked, Answered, Reaches
    <2> QED
        BY <2>4 DEF Punctual
<1>18. CASE ServerLeaves
    <2>1. /\ con = "opened" /\ nsp \in {"joined", "again"} /\ nsp' = "none" /\ "leave" \in cases
          /\ loop' = Append(loop, Leave) /\ UNCHANGED <<there, connected, draining, inEmit>>
        BY <1>18 DEF ServerLeaves, Arrives, Belongs, conVars, socketVars, mainVars
    <2>2. /\ Len(loop') = Len(loop) + 1 /\ loop'[Len(loop) + 1] = Leave
          /\ \A j \in 1..Len(loop) : loop'[j] = loop[j]
        BY <1>3, <2>1, AppendLoop
    <2>3. CASE In
        <3>1. Len(loop) + 1 \in 1..Len(loop')
            BY <1>4, <2>2
        <3>2. \A i \in 1..Len(loop') : i # Len(loop) + 1 => loop'[i].kind \in Msgs
            BY <1>4, <2>2, <2>3 DEF In, OnlyIn
        <3>3. \E k \in 1..Len(loop') : /\ loop'[k] = Leave
                                       /\ \A i \in 1..Len(loop') : i # k => loop'[i].kind \in Msgs
            BY <2>2, <3>1, <3>2
        <3>4. Leaving'
            BY <2>1, <2>3, <3>3 DEF In, Leaving
        <3> QED
            BY <1>2, <2>1, <3>4 DEF Punctual
    <2>4. CASE Answered
        <3>1. CutOff'
            BY <2>1, <2>2, <2>4 DEF Answered, CutOff, Reaches
        <3> QED
            BY <1>2, <2>1, <3>1 DEF Punctual
    <2> QED
        BY <1>1, <2>1, <2>3, <2>4 DEF Punctual, Asked, Leaving, CutOff, Out, Asking
<1>19. CASE JoinExpires
    BY <1>19 DEF JoinExpires, conVars
<1>20. CASE LinkOpens
    <2>1. Asked'
        BY <1>20 DEF LinkOpens, Basics, mainVars, Reaches, Asked
    <2> QED
        BY <2>1 DEF Punctual
<1>21. CASE LinkEnds
    BY <1>21 DEF LinkEnds
<1>22. ASSUME con = "opened", loop # <<>>, loop' = Tail(loop), loop[1].kind \in Msgs,
              UNCHANGED <<nsp, there, connected, draining, inEmit>>
       PROVE  Punctual'
    <2>1. /\ Len(loop) \in Nat \ {0} /\ Len(loop') = Len(loop) - 1
          /\ \A j \in 1..(Len(loop) - 1) : loop'[j] = loop[j + 1]
        BY <1>22, TailLoop
    <2>2. loop[1] # Leave /\ loop[1] # Join /\ loop[1] # Answer
        BY <1>3, <1>22 DEF Msgs
    <2>3. OnlyIn(loop, Msgs) => OnlyIn(loop', Msgs)
        BY <1>22, TailOnly
    <2>4. Reaches' = Reaches
        BY <1>22 DEF Reaches
    <2>5. CASE In
        BY <1>22, <2>3, <2>5 DEF In, Punctual
    <2>6. CASE "leave" \in cases /\ Leaving
        <3>1. PICK k \in 1..Len(loop) : /\ loop[k] = Leave
                                        /\ \A i \in 1..Len(loop) : i # k => loop[i].kind \in Msgs
            BY <2>6 DEF Leaving
        <3>2. k - 1 \in 1..Len(loop') /\ loop'[k - 1] = Leave
            <4>1. k # 1
                BY <2>2, <3>1
            <4>2. k - 1 \in 1..(Len(loop) - 1) /\ (k - 1) + 1 = k
                BY <2>1, <4>1
            <4> QED
                BY <2>1, <3>1, <4>2
        <3>3. ASSUME NEW i \in 1..Len(loop'), i # k - 1 PROVE loop'[i].kind \in Msgs
            <4>1. loop'[i] = loop[i + 1] /\ i + 1 \in 1..Len(loop) /\ i + 1 # k
                BY <2>1, <3>1, <3>3
            <4> QED
                BY <3>1, <4>1
        <3>4. Leaving'
            BY <1>22, <2>6, <3>2, <3>3 DEF Leaving
        <3> QED
            BY <1>2, <2>6, <3>4 DEF Punctual
    <2>7. CASE "leave" \in cases /\ Out
        BY <1>2, <1>22, <2>3, <2>4, <2>7 DEF Out, Punctual
    <2>8. CASE "leave" \in cases /\ Asking
        <3>1. Len(loop) # 1
            BY <2>2, <2>8 DEF Asking
        <3>2. Len(loop') > 0 /\ loop'[Len(loop')] = Join
            <4>1. Len(loop') \in 1..(Len(loop) - 1) /\ Len(loop') + 1 = Len(loop)
                BY <2>1, <3>1
            <4>2. loop'[Len(loop')] = loop[Len(loop') + 1]
                BY <2>1, <4>1
            <4> QED
                BY <2>8, <4>1, <4>2 DEF Asking
        <3>3. ASSUME NEW i \in 1..(Len(loop') - 1) PROVE loop'[i].kind \in Msgs
            <4>1. i \in 1..(Len(loop) - 1) /\ i + 1 \in 1..(Len(loop) - 1)
                BY <2>1
            <4>2. loop'[i] = loop[i + 1]
                BY <2>1, <4>1
            <4> QED
                BY <2>8, <4>1, <4>2 DEF Asking
        <3>4. Asking'
            BY <1>22, <2>4, <2>8, <3>2, <3>3 DEF Asking
        <3> QED
            BY <1>2, <2>8, <3>4 DEF Punctual
    <2> QED
        BY <1>1, <1>22, <2>1, <2>2, <2>5, <2>6, <2>7, <2>8 DEF Punctual, Asked, Answered, CutOff
<1>23. CASE RunTask
    <2>1. /\ con = "opened" /\ loop # <<>> /\ loop' = Tail(loop)
          /\ Head(loop).kind \in {"join", "params", "other"}
          /\ UNCHANGED <<there, connected, draining, inEmit>>
        BY <1>23 DEF RunTask, Runs, conVars, socketVars, mainVars
    <2>2. /\ Len(loop) \in Nat \ {0} /\ Head(loop) = loop[1] /\ loop[1] \in Loopable
          /\ Len(loop') = Len(loop) - 1
        BY <2>1, TailLoop
    <2>3. CASE loop[1] = Join
        <3>1. Asking
            BY <1>1, <1>3, <2>1, <2>2, <2>3
               DEF Punctual, Asked, Answered, In, Leaving, CutOff, Out, OnlyIn, Msgs
        <3>2. Len(loop) = 1
            BY <1>3, <2>2, <2>3, <3>1 DEF Asking, Msgs
        <3>3. nsp' = "asked"
            BY <1>23, <2>1, <2>2, <2>3, <3>1 DEF RunTask, Asking, Belongs
        <3>4. Asked'
            BY <2>1, <2>2, <3>1, <3>2, <3>3 DEF Asking, Asked, Reaches
        <3> QED
            BY <3>4 DEF Punctual
    <2>4. CASE loop[1] # Join
        <3>1. loop[1].kind \in Msgs
            BY <2>1, <2>2, <2>4, LoopableIs DEF Msgs
        <3>2. nsp' = nsp
            BY <1>23, <2>1, <2>2, <2>4 DEF RunTask
        <3> QED
            BY <1>22, <2>1, <3>1, <3>2
    <2> QED
        BY <2>3, <2>4
<1>24. CASE Joined
    <2>1. /\ con = "opened" /\ loop # <<>> /\ loop' = Tail(loop) /\ Head(loop).kind = "answer"
          /\ UNCHANGED <<nsp, there, inEmit>>
        BY <1>24 DEF Joined, Runs, conVars, serverVars, mainVars
    <2>2. /\ Len(loop) \in Nat \ {0} /\ loop[1].kind = "answer" /\ Len(loop') = Len(loop) - 1
          /\ \A j \in 1..(Len(loop) - 1) : loop'[j] = loop[j + 1]
        BY <2>1, TailLoop
    <2>3. Answered \/ ("leave" \in cases /\ CutOff)
        BY <1>1, <1>3, <2>1, <2>2 DEF Punctual, Asked, In, Leaving, Out, Asking, OnlyIn, Msgs
    <2>4. there' /\ connected'
        BY <1>24, <2>1, <2>3 DEF Joined, Answered, CutOff
    <2>5. CASE Answered
        <3>1. OnlyIn(loop', Msgs)
            BY <2>2, <2>5 DEF Answered, OnlyIn
        <3>2. nsp' = "joined"
            BY <2>1, <2>5 DEF Answered
        <3>3. In'
            BY <2>4, <3>1, <3>2 DEF In
        <3> QED
            BY <3>3 DEF Punctual
    <2>6. CASE "leave" \in cases /\ CutOff
        <3>1. Len(loop') = 1 /\ loop'[1] = Leave
            BY <2>2, <2>6 DEF CutOff
        <3>2. \E k \in 1..Len(loop') : /\ loop'[k] = Leave
                                       /\ \A i \in 1..Len(loop') : i # k => loop'[i].kind \in Msgs
            BY <3>1
        <3>3. nsp' = "none"
            BY <2>1, <2>6 DEF CutOff
        <3>4. Leaving'
            BY <2>4, <3>2, <3>3 DEF Leaving
        <3> QED
            BY <1>2, <2>6, <3>4 DEF Punctual
    <2> QED
        BY <2>3, <2>5, <2>6
<1>25. CASE JoinedDrain
    BY <1>5, <1>25 DEF JoinedDrain, conVars, mainVars, Reaches
<1>26. CASE SocketCloses
    <2>1. /\ con = "opened" /\ loop # <<>> /\ Head(loop).kind \in {"leave", "timeout"}
          /\ inEmit = "no" /\ ~draining /\ UNCHANGED <<nsp, draining, inEmit>>
        BY <1>26 DEF SocketCloses, Runs, MainRests, conVars, serverVars, mainVars
    <2>2. /\ Len(loop) \in Nat \ {0} /\ Head(loop) = loop[1] /\ loop[1] \in Loopable
          /\ loop[1].kind \in {"leave", "timeout"}
        BY <2>1, TailTyped DEF Typed
    <2>3. "leave" \in cases /\ Leaving /\ loop[1] = Leave
        BY <1>1, <1>3, <2>1, <2>2 DEF Punctual, Asked, Answered, In, Leaving, CutOff, Out, Asking, OnlyIn, Msgs
    <2>4. Closed(Tail(loop))
        BY <1>26, <2>1, <2>3 DEF SocketCloses, Leaving
    <2>5. timer # "leave"
        BY <2>1 DEF Basics
    <2> DEFINE rest == Tail(loop)
    <2>6. /\ rest \in Seq(Loopable) /\ Len(rest) = Len(loop) - 1
          /\ \A j \in 1..(Len(loop) - 1) : rest[j] = loop[j + 1]
        BY <2>1, TailTyped DEF Typed
    <2>7. loop' = Left(rest) /\ ~there' /\ ~connected'
        BY <2>4, <2>5, <2>6, ClosedTyped
    <2> HIDE DEF rest
    <2>8. OnlyIn(rest, Msgs)
        <3> SUFFICES ASSUME NEW i \in 1..Len(rest) PROVE rest[i].kind \in Msgs
            BY DEF OnlyIn
        <3>1. rest[i] = loop[i + 1] /\ i + 1 \in 1..Len(loop) /\ i + 1 # 1
            BY <2>2, <2>6
        <3>2. \A j \in 1..Len(loop) : j # 1 => loop[j].kind \in Msgs
            BY <1>3, <2>2, <2>3 DEF Leaving, Msgs
        <3> QED
            BY <3>1, <3>2
    <2>9. OnlyIn(loop', Msgs)
        <3>1. /\ Len(Left(rest)) = Len(rest)
              /\ \A i \in 1..Len(rest) : Left(rest)[i] = IF rest[i] = Timeout THEN Stale ELSE rest[i]
            BY <2>6, LeftTyped
        <3>2. \A i \in 1..Len(rest) : rest[i] # Timeout
            BY <2>8, KindsApart DEF OnlyIn, Msgs
        <3> QED
            BY <2>7, <2>8, <3>1, <3>2 DEF OnlyIn
    <2>10. Out'
        BY <2>1, <2>3, <2>7, <2>9 DEF Out, Leaving, Reaches
    <2> QED
        BY <1>2, <2>3, <2>10 DEF Punctual
<1>27. CASE LeaveExpires
    BY <1>27 DEF LeaveExpires, Basics, conVars
<1>28. CASE RunStale
    <2>1. con = "opened" /\ loop # <<>> /\ Head(loop).kind = "stale"
        BY <1>28 DEF RunStale, Runs, conVars
    <2>2. Len(loop) \in Nat \ {0} /\ loop[1].kind = "stale"
        BY <2>1, TailTyped DEF Typed
    <2> QED
        BY <1>1, <1>3, <2>1, <2>2 DEF Punctual, Asked, Answered, In, Leaving, CutOff, Out, Asking, OnlyIn, Msgs
<1> QED
    BY <1>8, <1>9, <1>10, <1>12, <1>13, <1>14, <1>15, <1>16, <1>17, <1>18, <1>19, <1>20, <1>21,
       <1>23, <1>24, <1>25, <1>26, <1>27, <1>28 DEF Next, Main, User, Network, Run

(* Whoever may send now, sends to a namespace that is joined, or was when  *)
(* the server left it.                                                     *)
Served(state) == state \in {"joined", "again"} \/ ("leave" \in cases /\ state = "none")

LEMMA SentServed ==
    ASSUME StaysInv, PunctualInv, con = "opened", ~({"slow", "leave"} \subseteq cases),
           Reaches \/ (Len(loop) > 0 /\ loop[1].kind \in Msgs), Len(loop) \in Nat
    PROVE  Served(nsp)
<1>1. CASE "leave" \notin cases
    <2>1. Belongs \/ (~Reaches /\ OnlyIn(loop, {"join", "timeout", "stale"}))
        BY <1>1 DEF StaysInv, Stays
    <2> QED
        BY <2>1 DEF Served, Belongs, OnlyIn, Msgs
<1>2. CASE "slow" \notin cases
    <2>1. Punctual
        BY <1>2 DEF PunctualInv
    <2>2. CASE Asked \/ Answered
        BY <2>2, KindsApart DEF Asked, Answered, Msgs
    <2> QED
        BY <2>1, <2>2 DEF Punctual, In, Leaving, CutOff, Out, Asking, Served
<1> QED
    BY <1>1, <1>2

ServedInv == ~({"slow", "leave"} \subseteq cases) => \A i \in 1..Len(wire) : Served(wire[i].state)

LEMMA ServedStep ==
    Typed /\ Basics /\ StaysInv /\ PunctualInv /\ ServedInv /\ [Next]_vars => ServedInv'
<1> SUFFICES ASSUME Typed, Basics, StaysInv, PunctualInv, ServedInv, [Next]_vars,
                    ~({"slow", "leave"} \subseteq cases), cases' = cases
             PROVE  \A i \in 1..Len(wire') : Served(wire'[i].state)
    BY CasesKept DEF ServedInv, Served
<1>1. Len(loop) \in Nat /\ \A i \in 1..Len(wire) : Served(wire[i].state)
    BY LenProperties DEF ServedInv, Typed
<1>2. CASE wire' = wire
    BY <1>1, <1>2
<1>3. ASSUME con = "opened", Reaches \/ (Len(loop) > 0 /\ loop[1].kind \in Msgs),
             NEW m \in Sendable, wire' = Append(wire, [sent |-> m, state |-> nsp])
      PROVE  \A i \in 1..Len(wire') : Served(wire'[i].state)
    <2>1. Served(nsp)
        BY <1>1, <1>3, SentServed
    <2> DEFINE e == [sent |-> m, state |-> nsp]
    <2>2. e.state = nsp /\ e \in [sent : Sendable, state : States]
        BY DEF Typed
    <2> HIDE DEF e
    <2>3. /\ Len(wire) \in Nat /\ Len(wire') = Len(wire) + 1 /\ wire'[Len(wire) + 1] = e
          /\ \A i \in 1..Len(wire) : wire'[i] = wire[i]
        BY <1>3, <2>2, AppendProperties, LenProperties DEF Typed, e
    <2> QED
        BY <1>1, <2>1, <2>2, <2>3
<1>4. CASE RunTask
    <2>1. CASE con = "opened" /\ Head(loop) # Join
        <3>1. loop # <<>> /\ Head(loop).kind \in {"join", "params", "other"}
            BY <1>4 DEF RunTask, Runs
        <3>2. Len(loop) > 0 /\ Head(loop) = loop[1] /\ loop[1] \in Loopable
            BY <3>1, TailTyped DEF Typed
        <3>3. loop[1].kind \in Msgs /\ loop[1] \in Sendable
            BY <2>1, <3>1, <3>2, LoopableIs DEF Msgs
        <3> QED
            BY <1>3, <1>4, <2>1, <3>2, <3>3 DEF RunTask
    <2>2. CASE ~(con = "opened" /\ Head(loop) # Join)
        BY <1>2, <1>4, <2>2 DEF RunTask, serverVars
    <2> QED
        BY <2>1, <2>2
<1>5. CASE JoinedDrain
    <2>1. CASE queue # <<>> /\ con = "opened"
        <3>1. Head(queue) \in Sendable
            BY <2>1, TailTyped DEF Typed
        <3> QED
            BY <1>3, <1>5, <2>1, <3>1 DEF JoinedDrain, Reaches
    <2>2. CASE ~(queue # <<>> /\ con = "opened")
        BY <1>2, <1>5, <2>2 DEF JoinedDrain
    <2> QED
        BY <2>1, <2>2
<1>6. CASE LinkOpens
    <2>1. Len(wire') = 0
        BY <1>6 DEF LinkOpens
    <2> QED
        BY <2>1
<1>7. CASE Main \/ User \/ UNCHANGED vars
    BY <1>2, <1>7 DEF Main, User, vars, serverVars, OnSocketOpen, OnSocketClose, OnParams, Emit,
       EmitDrain, EmitSend, EmitPush, Use, Close, GiveUp
<1>8. CASE ServerAnswers \/ ServerLeaves \/ JoinExpires \/ ServerParams \/ LinkEnds
    BY <1>2, <1>8 DEF ServerAnswers, ServerLeaves, JoinExpires, ServerParams, LinkEnds, serverVars
<1>9. CASE Joined \/ SocketCloses \/ LeaveExpires \/ RunStale
    BY <1>2, <1>9 DEF Joined, SocketCloses, LeaveExpires, RunStale, serverVars
<1> QED
    BY <1>4, <1>5, <1>6, <1>7, <1>8, <1>9 DEF Next, Network, Run

SocketInv == Typed /\ Basics /\ StaysInv /\ PunctualInv

LEMMA SocketInvInductive == Spec => [](SocketInv /\ ServedInv)
<1>1. Init => SocketInv /\ ServedInv
    <2>1. Init => Len(wire) = 0 /\ con = "closed"
        BY DEF Init
    <2> QED
        BY <2>1, TypedInit, BasicsInit DEF SocketInv, StaysInv, PunctualInv, ServedInv
<1>2. SocketInv /\ ServedInv /\ [Next]_vars => (SocketInv /\ ServedInv)'
    BY TypedStep, BasicsStep, StaysStep, PunctualStep, ServedStep DEF SocketInv
<1> QED
    BY <1>1, <1>2, PTL DEF Spec

(* Nothing is sent before the namespace is joined.                         *)
THEOREM JoinedBefore == Spec => []JoinedFirst
<1>1. SocketInv /\ ServedInv => JoinedFirst
    <2> SUFFICES ASSUME Typed, ServedInv PROVE JoinedFirst
        BY DEF SocketInv
    <2>1. DOMAIN wire = 1..Len(wire)
        BY LenProperties DEF Typed
    <2> QED
        BY <2>1 DEF ServedInv, Served, JoinedFirst
<1> QED
    BY <1>1, SocketInvInductive, PTL

-----------------------------------------------------------------------------
(* Which messages a sequence holds.                                        *)

Holds(s, id) == \E i \in 1..Len(s) : s[i].id = id
OnceIn(s) == \A i, j \in 1..Len(s) : s[i].id # 0 /\ s[i].id = s[j].id => i = j
Rising(s) == \A i, j \in 1..Len(s) : i < j /\ s[i].id # 0 /\ s[j].id # 0 => s[i].id < s[j].id

LEMMA HoldsNone ==
    ASSUME NEW s, Len(s) = 0
    PROVE  OnceIn(s) /\ Rising(s) /\ \A id : ~Holds(s, id)
BY DEF OnceIn, Rising, Holds

LEMMA HoldsTail ==
    ASSUME NEW S, NEW s \in Seq(S), s # <<>>
    PROVE  /\ \A id : Holds(s, id) <=> Holds(Tail(s), id) \/ id = Head(s).id
           /\ OnceIn(s) => OnceIn(Tail(s))
           /\ OnceIn(s) /\ Head(s).id # 0 => ~Holds(Tail(s), Head(s).id)
           /\ Rising(s) => Rising(Tail(s))
           /\ Rising(s) /\ Head(s).id # 0 => \A id : id # 0 /\ Holds(Tail(s), id) => Head(s).id < id
<1> DEFINE t == Tail(s)
           h == Head(s)
<1>1. /\ Len(s) \in Nat \ {0} /\ h = s[1] /\ Len(t) = Len(s) - 1
      /\ \A i \in 1..(Len(s) - 1) : t[i] = s[i + 1]
    BY TailTyped
<1> HIDE DEF t, h
<1>2. \A i \in 1..Len(t) : i + 1 \in 1..Len(s) /\ t[i] = s[i + 1]
    BY <1>1
<1>3. ASSUME NEW id PROVE Holds(s, id) <=> Holds(t, id) \/ id = h.id
    <2>1. ASSUME Holds(s, id), id # h.id PROVE Holds(t, id)
        <3>1. PICK i \in 1..Len(s) : s[i].id = id
            BY <2>1 DEF Holds
        <3>2. i # 1
            BY <1>1, <2>1, <3>1
        <3>3. i - 1 \in 1..Len(t) /\ t[i - 1] = s[(i - 1) + 1] /\ (i - 1) + 1 = i
            BY <1>1, <3>2
        <3> QED
            BY <3>1, <3>3 DEF Holds
    <2>2. Holds(t, id) => Holds(s, id)
        BY <1>2 DEF Holds
    <2>3. Holds(s, h.id)
        BY <1>1 DEF Holds
    <2> QED
        BY <2>1, <2>2, <2>3
<1>4. OnceIn(s) => OnceIn(t)
    <2> SUFFICES ASSUME OnceIn(s), NEW i \in 1..Len(t), NEW j \in 1..Len(t),
                        t[i].id # 0, t[i].id = t[j].id
                 PROVE  i = j
        BY DEF OnceIn
    <2>1. i + 1 = j + 1
        BY <1>2 DEF OnceIn
    <2> QED
        BY <1>1, <2>1
<1>5. OnceIn(s) /\ h.id # 0 => ~Holds(t, h.id)
    <2> SUFFICES ASSUME OnceIn(s), h.id # 0, NEW i \in 1..Len(t), t[i].id = h.id PROVE FALSE
        BY DEF Holds
    <2>1. i + 1 = 1
        BY <1>1, <1>2 DEF OnceIn
    <2> QED
        BY <1>1, <2>1
<1>6. Rising(s) => Rising(t)
    <2> SUFFICES ASSUME Rising(s), NEW i \in 1..Len(t), NEW j \in 1..Len(t), i < j,
                        t[i].id # 0, t[j].id # 0
                 PROVE  t[i].id < t[j].id
        BY DEF Rising
    <2>1. i + 1 < j + 1 /\ t[i] = s[i + 1] /\ t[j] = s[j + 1] /\ i + 1 \in 1..Len(s) /\ j + 1 \in 1..Len(s)
        BY <1>1, <1>2
    <2> QED
        BY <2>1 DEF Rising
<1>7. Rising(s) /\ h.id # 0 => \A id : id # 0 /\ Holds(t, id) => h.id < id
    <2> SUFFICES ASSUME Rising(s), h.id # 0, NEW i \in 1..Len(t), t[i].id # 0 PROVE h.id < t[i].id
        BY DEF Holds
    <2>1. 1 < i + 1 /\ t[i] = s[i + 1] /\ i + 1 \in 1..Len(s) /\ 1 \in 1..Len(s)
        BY <1>1, <1>2
    <2> QED
        BY <1>1, <2>1 DEF Rising
<1> QED
    BY <1>3, <1>4, <1>5, <1>6, <1>7 DEF t, h

LEMMA HoldsAppend ==
    ASSUME NEW S, NEW s \in Seq(S), NEW m \in S
    PROVE  /\ \A id : Holds(Append(s, m), id) <=> Holds(s, id) \/ id = m.id
           /\ OnceIn(s) /\ (m.id # 0 => ~Holds(s, m.id)) => OnceIn(Append(s, m))
           /\ Rising(s) /\ (m.id # 0 => \A id : id # 0 /\ Holds(s, id) => id < m.id)
                  => Rising(Append(s, m))
<1> DEFINE t == Append(s, m)
<1>1. /\ Len(s) \in Nat /\ Len(t) = Len(s) + 1 /\ t[Len(s) + 1] = m
      /\ \A i \in 1..Len(s) : t[i] = s[i]
    BY AppendProperties, LenProperties
<1> HIDE DEF t
<1>2. \A i \in 1..Len(t) : (i \in 1..Len(s) /\ t[i] = s[i]) \/ (i = Len(s) + 1 /\ t[i] = m)
    BY <1>1
<1>3. ASSUME NEW id PROVE Holds(t, id) <=> Holds(s, id) \/ id = m.id
    <2>1. Len(s) + 1 \in 1..Len(t) /\ \A i \in 1..Len(s) : i \in 1..Len(t)
        BY <1>1
    <2> QED
        BY <1>1, <1>2, <2>1 DEF Holds
<1>4. OnceIn(s) /\ (m.id # 0 => ~Holds(s, m.id)) => OnceIn(t)
    <2> SUFFICES ASSUME OnceIn(s), m.id # 0 => ~Holds(s, m.id), NEW i \in 1..Len(t), NEW j \in 1..Len(t),
                        t[i].id # 0, t[i].id = t[j].id
                 PROVE  i = j
        BY DEF OnceIn
    <2> QED
        BY <1>2 DEF OnceIn, Holds
<1>5. ASSUME Rising(s), m.id # 0 => \A id : id # 0 /\ Holds(s, id) => id < m.id PROVE Rising(t)
    <2> SUFFICES ASSUME NEW i \in 1..Len(t), NEW j \in 1..Len(t), i < j,
                        t[i].id # 0, t[j].id # 0
                 PROVE  t[i].id < t[j].id
        BY DEF Rising
    <2>1. i \in 1..Len(s) /\ t[i] = s[i]
        BY <1>1
    <2>2. CASE j \in 1..Len(s) /\ t[j] = s[j]
        BY <1>5, <2>1, <2>2 DEF Rising
    <2>3. CASE t[j] = m
        BY <1>5, <2>1, <2>3 DEF Holds
    <2> QED
        BY <1>2, <2>2, <2>3
<1> QED
    BY <1>3, <1>4, <1>5 DEF t

LEMMA HoldsConcat ==
    ASSUME NEW S, NEW s \in Seq(S), NEW t \in Seq(S)
    PROVE  /\ \A id : Holds(s \o t, id) <=> Holds(s, id) \/ Holds(t, id)
           /\ OnceIn(s) /\ OnceIn(t) /\ (\A id : id # 0 => ~(Holds(s, id) /\ Holds(t, id)))
                  => OnceIn(s \o t)
           /\ Rising(s) /\ Rising(t)
                  /\ (\A a, b : a # 0 /\ b # 0 /\ Holds(s, a) /\ Holds(t, b) => a < b)
                  => Rising(s \o t)
<1> DEFINE u == s \o t
<1>1. /\ Len(s) \in Nat /\ Len(t) \in Nat /\ Len(u) = Len(s) + Len(t)
      /\ \A i \in 1..(Len(s) + Len(t)) : u[i] = IF i <= Len(s) THEN s[i] ELSE t[i - Len(s)]
    BY ConcatProperties, LenProperties
<1> HIDE DEF u
<1>2. \A i \in 1..Len(u) : \/ i \in 1..Len(s) /\ u[i] = s[i]
                           \/ i > Len(s) /\ i - Len(s) \in 1..Len(t) /\ u[i] = t[i - Len(s)]
    BY <1>1
<1>3. ASSUME NEW id PROVE Holds(u, id) <=> Holds(s, id) \/ Holds(t, id)
    <2>1. Holds(u, id) => Holds(s, id) \/ Holds(t, id)
        BY <1>2 DEF Holds
    <2>2. Holds(s, id) => Holds(u, id)
        BY <1>1 DEF Holds
    <2>3. ASSUME Holds(t, id) PROVE Holds(u, id)
        <3>1. PICK i \in 1..Len(t) : t[i].id = id
            BY <2>3 DEF Holds
        <3>2. Len(s) + i \in 1..Len(u) /\ (Len(s) + i) - Len(s) = i /\ ~(Len(s) + i <= Len(s))
            BY <1>1
        <3>3. u[Len(s) + i] = t[i]
            BY <1>1, <3>2
        <3> QED
            BY <3>1, <3>2, <3>3 DEF Holds
    <2> QED
        BY <2>1, <2>2, <2>3
<1>4. ASSUME OnceIn(s), OnceIn(t), \A id : id # 0 => ~(Holds(s, id) /\ Holds(t, id)) PROVE OnceIn(u)
    <2> SUFFICES ASSUME NEW i \in 1..Len(u), NEW j \in 1..Len(u), u[i].id # 0, u[i].id = u[j].id
                 PROVE  i = j
        BY DEF OnceIn
    <2>1. CASE i \in 1..Len(s) /\ u[i] = s[i]
        <3>1. Holds(s, u[i].id)
            BY <2>1 DEF Holds
        <3>2. ~Holds(t, u[i].id)
            BY <1>4, <3>1
        <3>3. j \in 1..Len(s) /\ u[j] = s[j]
            BY <1>2, <3>2 DEF Holds
        <3> QED
            BY <1>4, <2>1, <3>3 DEF OnceIn
    <2>2. CASE i > Len(s) /\ i - Len(s) \in 1..Len(t) /\ u[i] = t[i - Len(s)]
        <3>1. Holds(t, u[i].id)
            BY <2>2 DEF Holds
        <3>2. ~Holds(s, u[i].id)
            BY <1>4, <3>1
        <3>3. j > Len(s) /\ j - Len(s) \in 1..Len(t) /\ u[j] = t[j - Len(s)]
            BY <1>2, <3>2 DEF Holds
        <3>4. i - Len(s) = j - Len(s)
            BY <1>4, <2>2, <3>3 DEF OnceIn
        <3> QED
            BY <1>1, <3>4
    <2> QED
        BY <1>2, <2>1, <2>2
<1>5. ASSUME Rising(s), Rising(t), \A a, b : a # 0 /\ b # 0 /\ Holds(s, a) /\ Holds(t, b) => a < b
      PROVE  Rising(u)
    <2> SUFFICES ASSUME NEW i \in 1..Len(u), NEW j \in 1..Len(u), i < j, u[i].id # 0, u[j].id # 0
                 PROVE  u[i].id < u[j].id
        BY DEF Rising
    <2>1. CASE j \in 1..Len(s) /\ u[j] = s[j]
        <3>1. i \in 1..Len(s) /\ u[i] = s[i]
            BY <1>1, <1>2, <2>1
        <3> QED
            BY <1>5, <2>1, <3>1 DEF Rising
    <2>2. CASE j > Len(s) /\ j - Len(s) \in 1..Len(t) /\ u[j] = t[j - Len(s)]
        <3>1. Holds(t, u[j].id)
            BY <2>2 DEF Holds
        <3>2. CASE i \in 1..Len(s) /\ u[i] = s[i]
            <4>1. Holds(s, u[i].id)
                BY <3>2 DEF Holds
            <4> QED
                BY <1>5, <3>1, <4>1
        <3>3. CASE i > Len(s) /\ i - Len(s) \in 1..Len(t) /\ u[i] = t[i - Len(s)]
            <4>1. i - Len(s) < j - Len(s)
                BY <1>1
            <4> QED
                BY <1>5, <2>2, <3>3, <4>1 DEF Rising
        <3> QED
            BY <1>2, <3>2, <3>3
    <2> QED
        BY <1>2, <2>1, <2>2
<1> QED
    BY <1>3, <1>4, <1>5 DEF u

(* Two sequences hold the same messages, once each and in order if the     *)
(* first does.                                                             *)
Same(s, t) ==
    /\ \A id : id # 0 => (Holds(t, id) <=> Holds(s, id))
    /\ OnceIn(s) => OnceIn(t)
    /\ Rising(s) => Rising(t)

LEMMA SameAppend ==
    ASSUME NEW S, NEW s \in Seq(S), NEW m \in S, m.id = 0
    PROVE  Same(s, Append(s, m))
BY HoldsAppend DEF Same

LEMMA SameTail ==
    ASSUME NEW S, NEW s \in Seq(S), s # <<>>, Head(s).id = 0
    PROVE  Same(s, Tail(s))
BY HoldsTail DEF Same

LEMMA SameLeft ==
    ASSUME NEW rest \in Seq(Loopable)
    PROVE  Same(rest, Left(rest))
<1>1. /\ Len(Left(rest)) = Len(rest)
      /\ \A i \in 1..Len(rest) : Left(rest)[i].id = rest[i].id
    BY LeftTyped, KindsApart
<1> QED
    BY <1>1 DEF Same, Holds, OnceIn, Rising

LEMMA SameTrans ==
    ASSUME NEW s, NEW t, NEW u, Same(s, t), Same(t, u)
    PROVE  Same(s, u)
BY DEF Same

LEMMA WireIs ==
    Typed => /\ OnWire \in Seq(Sendable) /\ Len(OnWire) = Len(wire)
             /\ \A i \in 1..Len(wire) : OnWire[i] = wire[i].sent
<1> SUFFICES ASSUME Typed
             PROVE  /\ OnWire \in Seq(Sendable) /\ Len(OnWire) = Len(wire)
                    /\ \A i \in 1..Len(wire) : OnWire[i] = wire[i].sent
    OBVIOUS
<1>0. wire \in Seq([sent : Sendable, state : States])
    BY DEF Typed
<1>1. /\ Len(wire) \in Nat /\ DOMAIN wire = 1..Len(wire)
      /\ \A i \in 1..Len(wire) : wire[i] \in [sent : Sendable, state : States]
    BY <1>0, LenProperties, ElementOfSeq
<1>2. OnWire = [i \in 1..Len(wire) |-> wire[i].sent]
    BY <1>1 DEF OnWire
<1>3. \A i \in 1..Len(wire) : wire[i].sent \in Sendable
    BY <1>1
<1> QED
    BY <1>1, <1>2, <1>3, IsASeq

LEMMA WireGrows ==
    ASSUME Typed, Typed', NEW m \in Sendable, wire' = Append(wire, [sent |-> m, state |-> nsp])
    PROVE  OnWire' = Append(OnWire, m)
<1> DEFINE e == [sent |-> m, state |-> nsp]
           o == Append(OnWire, m)
<1>1. e.sent = m /\ e \in [sent : Sendable, state : States]
    BY DEF Typed
<1> HIDE DEF e
<1>2. /\ Len(wire) \in Nat /\ Len(wire') = Len(wire) + 1 /\ wire'[Len(wire) + 1] = e
      /\ \A i \in 1..Len(wire) : wire'[i] = wire[i]
    BY <1>1, AppendProperties, LenProperties DEF Typed, e
<1>3. /\ OnWire \in Seq(Sendable) /\ Len(OnWire) = Len(wire)
      /\ \A i \in 1..Len(wire) : OnWire[i] = wire[i].sent
    BY WireIs
<1>4. /\ o \in Seq(Sendable) /\ Len(o) = Len(OnWire) + 1 /\ o[Len(OnWire) + 1] = m
      /\ \A i \in 1..Len(OnWire) : o[i] = OnWire[i]
    BY <1>3, AppendProperties
<1> HIDE DEF o
<1>5. /\ OnWire' \in Seq(Sendable) /\ Len(OnWire') = Len(wire')
      /\ \A i \in 1..Len(wire') : OnWire'[i] = wire'[i].sent
    <2>1. (Typed => /\ OnWire \in Seq(Sendable) /\ Len(OnWire) = Len(wire)
                    /\ \A i \in 1..Len(wire) : OnWire[i] = wire[i].sent)'
        BY WireIs, PTL
    <2> QED
        BY <2>1
<1>6. ASSUME NEW i \in 1..Len(o) PROVE OnWire'[i] = o[i]
    <2>1. CASE i \in 1..Len(wire)
        BY <1>2, <1>3, <1>4, <1>5, <2>1
    <2>2. CASE i = Len(wire) + 1
        <3>1. OnWire'[i] = e.sent
            BY <1>2, <1>5, <2>2
        <3>2. o[i] = m
            BY <1>3, <1>4, <2>2
        <3> QED
            BY <1>1, <3>1, <3>2
    <2> QED
        BY <1>2, <1>3, <1>4, <2>1, <2>2
<1>7. Len(OnWire') = Len(o)
    BY <1>2, <1>3, <1>4, <1>5
<1>8. OnWire' = o
    <2> DEFINE v == OnWire'
    <2> HIDE DEF v
    <2>1. v \in Seq(Sendable) /\ Len(v) = Len(o) /\ \A i \in 1..Len(o) : v[i] = o[i]
        BY <1>5, <1>6, <1>7 DEF v
    <2>2. v = o
        BY <1>4, <2>1, SeqEqual
    <2> QED
        BY <2>2 DEF v
<1> QED
    BY <1>8 DEF o

-----------------------------------------------------------------------------
(* What a step may do to the messages: whatever the action, they stay      *)
(* where they are, or some are lost with a link or a socket, or new ones   *)
(* are emitted, or the first of one place becomes the last of another.     *)

Stills ==
    /\ OnWire' = OnWire /\ Same(loop, loop')
    /\ UNCHANGED <<queue, todo, emitted, con, lost>>
Drops ==
    /\ OnWire' = OnWire /\ Same(loop, loop')
    /\ queue' = queue \/ queue' = <<>>
    /\ UNCHANGED <<todo, emitted>>
    /\ con' = "closing" \/ lost' = Dropped
    /\ con' = "opened" => con = "opened"
Opens ==
    /\ con = "closed" /\ con' = "opened" /\ Len(OnWire') = 0
    /\ UNCHANGED <<loop, queue, todo, emitted, lost>>
News ==
    /\ OnWire' = OnWire /\ Same(loop, loop')
    /\ todo = <<>> /\ emitted' = emitted + Len(todo')
    /\ Len(todo') \in 1..Greetings
    /\ \A i \in 1..Len(todo') : todo'[i].id = emitted + i
    /\ UNCHANGED <<queue, con, lost>>
Posts ==
    /\ inEmit = "drain"
    /\ queue # <<>> /\ loop' = Append(loop, Head(queue)) /\ queue' = Tail(queue)
    /\ OnWire' = OnWire /\ UNCHANGED <<todo, emitted, con, lost>>
Sends ==
    /\ queue = <<>>
    /\ todo # <<>> /\ loop' = Append(loop, Head(todo)) /\ todo' = Tail(todo)
    /\ OnWire' = OnWire /\ UNCHANGED <<queue, emitted, con, lost>>
Pushes ==
    /\ todo # <<>> /\ queue' = Append(queue, Head(todo)) /\ todo' = Tail(todo)
    /\ OnWire' = OnWire /\ UNCHANGED <<loop, emitted, con, lost>>
Leaves ==
    /\ con' = "closing" /\ loop' = loop \o queue /\ queue' = <<>>
    /\ OnWire' = OnWire /\ UNCHANGED <<todo, emitted>>
Loses ==
    /\ con # "opened"
    /\ loop # <<>> /\ loop' = Tail(loop) /\ lost' >= lost /\ lost' >= Head(loop).id
    /\ OnWire' = OnWire /\ UNCHANGED <<queue, todo, emitted, con>>
Goes ==
    /\ con = "opened"
    /\ loop # <<>> /\ Head(loop) \in Sendable
    /\ loop' = Tail(loop) /\ OnWire' = Append(OnWire, Head(loop))
    /\ UNCHANGED <<queue, todo, emitted, con, lost>>
Flushes ==
    /\ draining /\ con = "opened"
    /\ queue # <<>> /\ queue' = Tail(queue) /\ OnWire' = Append(OnWire, Head(queue))
    /\ UNCHANGED <<loop, todo, emitted, con, lost>>
Wastes ==
    /\ con = "closing" /\ queue # <<>> /\ queue' = Tail(queue)
    /\ OnWire' = OnWire /\ UNCHANGED <<loop, todo, emitted, con, lost>>

Shape ==
    Stills \/ Drops \/ Opens \/ News \/ Posts \/ Sends \/ Pushes \/ Leaves \/ Loses \/ Goes
    \/ Flushes \/ Wastes

LEMMA SameRefl == \A s : Same(s, s)
BY DEF Same

LEMMA WireStays == wire' = wire => OnWire' = OnWire
BY DEF OnWire

(* A packet of id 0 comes into the loop, or goes out of it.                *)
LEMMA LoopGains ==
    ASSUME Typed, NEW m \in {Join, Answer, Leave, Timeout, Stale}, loop' = Append(loop, m)
    PROVE  Same(loop, loop')
<1>1. m \in Loopable /\ m.id = 0 /\ loop \in Seq(Loopable)
    BY Packets0, KindsApart DEF Typed
<1> QED
    BY <1>1, SameAppend

LEMMA LoopSheds ==
    ASSUME Typed, loop # <<>>, Head(loop).kind \notin Msgs, loop' = Tail(loop)
    PROVE  Same(loop, loop')
<1>1. Head(loop) \in Loopable /\ loop \in Seq(Loopable)
    BY TailTyped DEF Typed
<1>2. Head(loop).id = 0
    BY <1>1, LoopableIs DEF Msgs
<1> QED
    BY <1>1, <1>2, SameTail

LEMMA LookupStills ==
    ASSUME Typed, Basics, Lookup
    PROVE  Same(loop, loop') /\ queue' = queue
<1>1. CASE there
    BY <1>1, SameRefl DEF Lookup
<1>2. CASE ~there
    <2>1. queue' = queue /\ (loop' = loop \/ loop' = Append(loop, Join))
        BY <1>2 DEF Lookup, Basics
    <2> QED
        BY <2>1, SameRefl, LoopGains
<1> QED
    BY <1>1, <1>2

LEMMA ClosedDrops ==
    ASSUME Typed, loop # <<>>, Head(loop).kind \notin Msgs, Closed(Tail(loop))
    PROVE  Same(loop, loop') /\ queue' = <<>> /\ lost' = Dropped
<1> DEFINE rest == Tail(loop)
           left == Left(rest)
<1>1. /\ Head(loop) \in Loopable /\ loop \in Seq(Loopable) /\ rest \in Seq(Loopable)
    BY TailTyped DEF Typed
<1>2. Head(loop).id = 0
    BY <1>1, LoopableIs DEF Msgs
<1>3. Same(loop, rest)
    BY <1>1, <1>2, SameTail
<1>4. Same(rest, left) /\ left \in Seq(Loopable)
    BY <1>1, SameLeft, LeftTyped
<1>5. loop' = left \/ loop' = Append(left, Stale)
    BY DEF Closed, Left
<1>6. queue' = <<>> /\ lost' = Dropped
    BY DEF Closed
<1> HIDE DEF rest, left
<1>7. Same(loop, left)
    BY <1>3, <1>4, SameTrans
<1>8. Stale \in Loopable /\ Stale.id = 0
    BY Packets0, KindsApart
<1>9. Same(left, Append(left, Stale))
    BY <1>4, <1>8, SameAppend
<1>10. Same(loop, Append(left, Stale))
    BY <1>7, <1>9, SameTrans
<1> QED
    BY <1>5, <1>6, <1>7, <1>10

LEMMA ShapeMain == Typed /\ Typed' /\ Basics /\ (Main \/ User) => Shape
<1> SUFFICES ASSUME Typed, Typed', Basics, Main \/ User PROVE Shape
    OBVIOUS
<1>1. CASE OnSocketOpen
    <2>1. Same(loop, loop') /\ queue' = queue
        BY <1>1, LookupStills DEF OnSocketOpen
    <2>2. OnWire' = OnWire
        BY <1>1, WireStays DEF OnSocketOpen, serverVars
    <2>3. /\ emitted \in Nat /\ Greetings \in Nat /\ emitted' = emitted + Greetings
          /\ todo = <<>> /\ UNCHANGED <<con, lost>> /\ todo' = Greeting
        BY <1>1, Bounds DEF OnSocketOpen, Signalled, Idle, Typed, conVars
    <2>4. Len(todo') = Greetings /\ \A k \in 1..Greetings : todo'[k].id = emitted + k
        BY <2>3, GreetingTyped
    <2>5. emitted' = emitted + Len(todo') /\ Len(todo') \in 1..Greetings
        BY <2>3, <2>4, Bounds
    <2>6. News
        BY <2>1, <2>2, <2>3, <2>4, <2>5 DEF News
    <2> QED
        BY <2>6 DEF Shape
<1>2. CASE OnSocketClose \/ Emit
    <2>1. Same(loop, loop') /\ queue' = queue
        BY <1>2, LookupStills DEF OnSocketClose, Emit
    <2>2. OnWire' = OnWire
        BY <1>2, WireStays DEF OnSocketClose, Emit, serverVars
    <2>3. UNCHANGED <<todo, emitted, con, lost>>
        BY <1>2 DEF OnSocketClose, Emit, mainVars, conVars
    <2> QED
        BY <2>1, <2>2, <2>3 DEF Shape, Stills
<1>3. CASE OnParams \/ GiveUp
    <2>1. wire' = wire /\ loop' = loop /\ UNCHANGED <<queue, todo, emitted, con, lost>>
        BY <1>3 DEF OnParams, GiveUp, serverVars, socketVars, mainVars, conVars
    <2>2. OnWire' = OnWire /\ Same(loop, loop')
        BY <2>1, WireStays, SameRefl
    <2> QED
        BY <2>1, <2>2 DEF Shape, Stills
<1>4. CASE Use
    <2>1. /\ wire' = wire /\ loop' = loop /\ UNCHANGED <<queue, con, lost>>
          /\ todo = <<>> /\ emitted \in Nat /\ emitted' = emitted + 1
          /\ todo' = <<Message(emitted + 1, "other")>>
        BY <1>4 DEF Use, Idle, serverVars, socketVars, mainVars, conVars, Typed
    <2>2. OnWire' = OnWire /\ Same(loop, loop')
        BY <2>1, WireStays, SameRefl
    <2>3. Len(todo') = 1 /\ todo'[1].id = emitted + 1
        BY <2>1 DEF Message
    <2>4. \A i \in 1..Len(todo') : todo'[i].id = emitted + i
        <3>1. \A i \in 1..1 : i = 1
            OBVIOUS
        <3> QED
            BY <2>3, <3>1
    <2>5. emitted' = emitted + Len(todo') /\ Len(todo') \in 1..Greetings
        BY <2>1, <2>3, Bounds
    <2>6. News
        BY <2>1, <2>2, <2>4, <2>5 DEF News
    <2> QED
        BY <2>6 DEF Shape
<1>5. CASE EmitDrain
    <2>1. OnWire' = OnWire
        BY <1>5, WireStays DEF EmitDrain, serverVars
    <2>2. Posts
        BY <1>5, <2>1 DEF EmitDrain, Posts, mainVars, conVars
    <2> QED
        BY <2>2 DEF Shape
<1>6. CASE EmitSend
    <2>1. OnWire' = OnWire
        BY <1>6, WireStays DEF EmitSend, serverVars
    <2>2. todo # <<>>
        BY <1>6 DEF EmitSend, Typed
    <2>3. Sends
        BY <1>6, <2>1, <2>2 DEF EmitSend, Sends, conVars, socketVars
    <2> QED
        BY <2>3 DEF Shape
<1>7. CASE EmitPush
    <2>1. OnWire' = OnWire
        BY <1>7, WireStays DEF EmitPush, serverVars
    <2>2. todo # <<>>
        BY <1>7 DEF EmitPush, Typed
    <2>3. Pushes
        BY <1>7, <2>1, <2>2 DEF EmitPush, Pushes, conVars
    <2> QED
        BY <2>3 DEF Shape
<1>8. CASE Close
    <2>1. OnWire' = OnWire
        BY <1>8, WireStays DEF Close, serverVars
    <2>2. con' = "closing" /\ UNCHANGED <<todo, emitted>>
        BY <1>8 DEF Close
    <2>3. CASE loop' = loop \o queue /\ queue' = <<>>
        BY <2>1, <2>2, <2>3 DEF Shape, Leaves
    <2>4. CASE Lookup
        <3>1. Same(loop, loop') /\ queue' = queue
            BY <2>4, LookupStills
        <3> QED
            BY <2>1, <2>2, <3>1 DEF Shape, Drops
    <2> QED
        BY <1>8, <2>3, <2>4 DEF Close
<1> QED
    BY <1>1, <1>2, <1>3, <1>4, <1>5, <1>6, <1>7, <1>8 DEF Main, User

LEMMA ShapeNetwork == Typed /\ Typed' /\ Basics /\ Network => Shape
<1> SUFFICES ASSUME Typed, Typed', Basics, Network PROVE Shape
    OBVIOUS
<1>1. CASE ServerAnswers \/ ServerLeaves \/ JoinExpires
    <2>1. wire' = wire /\ UNCHANGED <<queue, todo, emitted, con, lost>>
        BY <1>1 DEF ServerAnswers, ServerLeaves, JoinExpires, serverVars, socketVars, mainVars, conVars
    <2>2. \E m \in {Join, Answer, Leave, Timeout, Stale} : loop' = Append(loop, m)
        BY <1>1 DEF ServerAnswers, ServerLeaves, JoinExpires, Arrives
    <2>3. OnWire' = OnWire /\ Same(loop, loop')
        BY <2>1, <2>2, WireStays, LoopGains
    <2> QED
        BY <2>1, <2>3 DEF Shape, Stills
<1>2. CASE ServerParams
    <2>1. wire' = wire /\ loop' = loop /\ UNCHANGED <<queue, todo, emitted, con, lost>>
        BY <1>2 DEF ServerParams, serverVars, socketVars, mainVars, conVars
    <2>2. OnWire' = OnWire /\ Same(loop, loop')
        BY <2>1, WireStays, SameRefl
    <2> QED
        BY <2>1, <2>2 DEF Shape, Stills
<1>3. CASE LinkOpens
    <2>1. /\ wire' = <<>> /\ con = "closed" /\ con' = "opened"
          /\ UNCHANGED <<loop, queue, todo, emitted, lost>>
        BY <1>3 DEF LinkOpens, mainVars
    <2>2. (Typed => Len(OnWire) = Len(wire))'
        BY WireIs, PTL
    <2>3. Len(OnWire') = 0
        BY <2>1, <2>2
    <2> QED
        BY <2>1, <2>3 DEF Shape, Opens
<1>4. CASE LinkEnds
    <2>1. /\ wire' = wire /\ loop' = loop /\ UNCHANGED <<todo, emitted>> /\ lost' = Dropped
          /\ queue' = queue \/ queue' = <<>>
          /\ con' = "closed"
        BY <1>4 DEF LinkEnds, Disconnected, mainVars
    <2>2. OnWire' = OnWire /\ Same(loop, loop')
        BY <2>1, WireStays, SameRefl
    <2> QED
        BY <2>1, <2>2 DEF Shape, Drops
<1> QED
    BY <1>1, <1>2, <1>3, <1>4 DEF Network

LEMMA ShapeRun == Typed /\ Typed' /\ Basics /\ Run => Shape
<1> SUFFICES ASSUME Typed, Typed', Basics, Run PROVE Shape
    OBVIOUS
<1>1. CASE RunTask
    <2>1. /\ loop # <<>> /\ loop' = Tail(loop) /\ Head(loop).kind \in {"join", "params", "other"}
          /\ UNCHANGED <<queue, todo, emitted, con>>
        BY <1>1 DEF RunTask, Runs, socketVars, mainVars, conVars
    <2>2. Head(loop) \in Loopable
        BY <2>1, TailTyped DEF Typed
    <2>3. Head(loop).id \in Nat /\ lost \in Nat
        BY <2>2, LoopableIs DEF Typed
    <2>4. CASE con # "opened" /\ wire' = wire
               /\ lost' = IF Head(loop).id > lost THEN Head(loop).id ELSE lost
        <3>1. lost' >= lost /\ lost' >= Head(loop).id
            BY <2>3, <2>4
        <3>2. OnWire' = OnWire
            BY <2>4, WireStays
        <3> QED
            BY <2>1, <2>4, <3>1, <3>2 DEF Shape, Loses
    <2>5. CASE Head(loop) = Join /\ wire' = wire /\ lost' = lost
        <3>1. Head(loop).kind \notin Msgs
            BY <2>5, KindsApart DEF Msgs
        <3>2. Same(loop, loop')
            BY <2>1, <3>1, LoopSheds
        <3>3. OnWire' = OnWire
            BY <2>5, WireStays
        <3> QED
            BY <2>1, <2>5, <3>2, <3>3 DEF Shape, Stills
    <2>6. CASE /\ con = "opened" /\ Head(loop) # Join /\ lost' = lost
               /\ wire' = Append(wire, [sent |-> Head(loop), state |-> nsp])
        <3>1. Head(loop) \in Sendable
            BY <2>1, <2>2, <2>6, LoopableIs
        <3>2. OnWire' = Append(OnWire, Head(loop))
            BY <2>6, <3>1, WireGrows
        <3> QED
            BY <2>1, <2>6, <3>1, <3>2 DEF Shape, Goes
    <2> QED
        BY <1>1, <2>4, <2>5, <2>6 DEF RunTask, serverVars
<1>2. CASE Joined
    <2>1. /\ loop # <<>> /\ loop' = Tail(loop) /\ Head(loop).kind = "answer" /\ wire' = wire
          /\ UNCHANGED <<queue, todo, emitted, con, lost>>
        BY <1>2 DEF Joined, Runs, serverVars, mainVars, conVars
    <2>2. OnWire' = OnWire /\ Same(loop, loop')
        BY <2>1, WireStays, LoopSheds DEF Msgs
    <2> QED
        BY <2>1, <2>2 DEF Shape, Stills
<1>3. CASE JoinedDrain
    <2>1. loop' = loop /\ UNCHANGED <<todo, emitted, con, lost>> /\ draining
        BY <1>3 DEF JoinedDrain, mainVars, conVars
    <2>2. Same(loop, loop')
        BY <2>1, SameRefl
    <2>3. CASE queue = <<>>
        <3>1. wire' = wire /\ queue' = queue
            BY <1>3, <2>3 DEF JoinedDrain
        <3> QED
            BY <2>1, <2>2, <3>1, WireStays DEF Shape, Stills
    <2>4. CASE queue # <<>> /\ con = "opened"
        <3>1. wire' = Append(wire, [sent |-> Head(queue), state |-> nsp]) /\ queue' = Tail(queue)
            BY <1>3, <2>4 DEF JoinedDrain
        <3>2. Head(queue) \in Sendable
            BY <2>4, TailTyped DEF Typed
        <3>3. OnWire' = Append(OnWire, Head(queue))
            BY <3>1, <3>2, WireGrows
        <3> QED
            BY <2>1, <2>4, <3>1, <3>3 DEF Shape, Flushes
    <2>5. CASE queue # <<>> /\ con # "opened"
        <3>1. wire' = wire /\ queue' = Tail(queue)
            BY <1>3, <2>5 DEF JoinedDrain
        <3>2. con = "closing"
            BY <2>1, <2>5 DEF Typed, Basics
        <3> QED
            BY <2>1, <2>5, <3>1, <3>2, WireStays DEF Shape, Wastes
    <2> QED
        BY <2>3, <2>4, <2>5
<1>4. CASE SocketCloses \/ RunStale
    <2>1. /\ loop # <<>> /\ Head(loop).kind \notin Msgs /\ wire' = wire
          /\ UNCHANGED <<todo, emitted, con>>
        BY <1>4 DEF SocketCloses, RunStale, Runs, Msgs, serverVars, mainVars, conVars
    <2>2. OnWire' = OnWire
        BY <2>1, WireStays
    <2>3. CASE Closed(Tail(loop))
        BY <2>1, <2>2, <2>3, ClosedDrops DEF Shape, Drops
    <2>4. CASE loop' = Tail(loop) /\ UNCHANGED <<socketVars, lost>>
        <3>1. Same(loop, loop')
            BY <2>1, <2>4, LoopSheds
        <3> QED
            BY <2>1, <2>2, <2>4, <3>1 DEF Shape, Stills, socketVars
    <2> QED
        BY <1>4, <2>3, <2>4 DEF SocketCloses, RunStale
<1>5. CASE LeaveExpires
    <2>1. /\ wire' = wire /\ loop' = loop /\ queue' = <<>> /\ lost' = Dropped
          /\ UNCHANGED <<todo, emitted, con>>
        BY <1>5 DEF LeaveExpires, serverVars, mainVars, conVars
    <2> QED
        BY <2>1, WireStays, SameRefl DEF Shape, Drops
<1> QED
    BY <1>1, <1>2, <1>3, <1>4, <1>5 DEF Run

LEMMA StepShape == Typed /\ Basics /\ [Next]_vars => Shape
<1> SUFFICES ASSUME Typed, Basics, [Next]_vars PROVE Shape
    OBVIOUS
<1>1. Typed'
    BY TypedStep
<1>2. CASE UNCHANGED vars
    <2>1. wire' = wire /\ loop' = loop /\ UNCHANGED <<queue, todo, emitted, con, lost>>
        BY <1>2 DEF vars, serverVars, socketVars, mainVars, conVars
    <2> QED
        BY <2>1, WireStays, SameRefl DEF Shape, Stills
<1> QED
    BY <1>1, <1>2, ShapeMain, ShapeNetwork, ShapeRun DEF Next

-----------------------------------------------------------------------------
(* No message is in two places.                                            *)

Ids == Nat \ {0}

(* What is still to be emitted are the last of the messages.               *)
TodoIs == \A i \in 1..Len(todo) : todo[i].id = Dropped + i

Alone(id) ==
    /\ Holds(OnWire, id) => ~Holds(loop, id) /\ ~Holds(queue, id) /\ ~Holds(todo, id)
    /\ Holds(loop, id) => ~Holds(queue, id) /\ ~Holds(todo, id)
    /\ Holds(queue, id) => ~Holds(todo, id)
Numbered(id) ==
    Holds(OnWire, id) \/ Holds(loop, id) \/ Holds(queue, id) \/ Holds(todo, id) => id <= emitted

Single ==
    /\ OnceIn(OnWire) /\ OnceIn(loop) /\ OnceIn(queue) /\ OnceIn(todo)
    /\ \A id \in Ids : Alone(id) /\ Numbered(id)

LEMMA TodoHolds ==
    Typed /\ TodoIs =>
        /\ OnceIn(todo) /\ Rising(todo)
        /\ \A x \in Ids : Holds(todo, x) <=> x > Dropped /\ x <= emitted
<1> SUFFICES ASSUME Typed, TodoIs
             PROVE  /\ OnceIn(todo) /\ Rising(todo)
                    /\ \A x \in Ids : Holds(todo, x) <=> x > Dropped /\ x <= emitted
    OBVIOUS
<1>1. Len(todo) \in Nat /\ Dropped \in Nat /\ emitted \in Nat /\ emitted = Dropped + Len(todo)
    BY DroppedNat DEF Typed, Dropped
<1>2. OnceIn(todo)
    <2> SUFFICES ASSUME NEW i \in 1..Len(todo), NEW j \in 1..Len(todo), todo[i].id = todo[j].id
                 PROVE  i = j
        BY DEF OnceIn
    <2>1. Dropped + i = Dropped + j
        BY DEF TodoIs
    <2> QED
        BY <1>1, <2>1
<1>3. Rising(todo)
    <2> SUFFICES ASSUME NEW i \in 1..Len(todo), NEW j \in 1..Len(todo), i < j
                 PROVE  todo[i].id < todo[j].id
        BY DEF Rising
    <2>1. Dropped + i < Dropped + j
        BY <1>1
    <2> QED
        BY <2>1 DEF TodoIs
<1>4. ASSUME NEW id \in Ids PROVE Holds(todo, id) <=> id > Dropped /\ id <= emitted
    <2>1. ASSUME NEW i \in 1..Len(todo), todo[i].id = id PROVE id > Dropped /\ id <= emitted
        <3>1. id = Dropped + i
            BY <2>1 DEF TodoIs
        <3> QED
            BY <1>1, <3>1
    <2>2. ASSUME id > Dropped, id <= emitted PROVE Holds(todo, id)
        <3>1. id - Dropped \in 1..Len(todo) /\ Dropped + (id - Dropped) = id
            BY <1>1, <2>2 DEF Ids
        <3>2. todo[id - Dropped].id = id
            BY <3>1 DEF TodoIs
        <3> QED
            BY <3>1, <3>2 DEF Holds
    <2> QED
        BY <2>1, <2>2 DEF Holds
<1> QED
    BY <1>2, <1>3, <1>4

LEMMA TodoHoldsNext ==
    Typed' /\ TodoIs' => \A x \in Ids : Holds(todo', x) <=> x > Dropped' /\ x <= emitted'
<1>1. (Typed /\ TodoIs => \A x \in Ids : Holds(todo, x) <=> x > Dropped /\ x <= emitted)'
    <2>1. Typed /\ TodoIs => \A x \in Ids : Holds(todo, x) <=> x > Dropped /\ x <= emitted
        BY TodoHolds
    <2> QED
        BY <2>1, PTL
<1> QED
    BY <1>1

LEMMA TodoStep == Typed /\ Typed' /\ TodoIs /\ Shape => TodoIs'
<1> SUFFICES ASSUME Typed, Typed', TodoIs, Shape PROVE TodoIs'
    OBVIOUS
<1>1. Len(todo) \in Nat /\ emitted \in Nat /\ todo \in Seq(Sendable)
    BY LenProperties DEF Typed
<1>2. CASE todo' = todo /\ emitted' = emitted
    BY <1>2 DEF TodoIs, Dropped
<1>3. CASE News
    <2>1. emitted' = emitted + Len(todo') /\ \A i \in 1..Len(todo') : todo'[i].id = emitted + i
        BY <1>3 DEF News
    <2>2. Dropped' = emitted' - Len(todo')
        BY DEF Dropped
    <2>3. Len(todo') \in Nat
        BY LenProperties DEF Typed
    <2>4. Dropped' = emitted
        BY <1>1, <2>1, <2>2, <2>3
    <2> QED
        BY <2>1, <2>4 DEF TodoIs
<1>4. CASE todo # <<>> /\ todo' = Tail(todo) /\ emitted' = emitted
    <2>1. /\ Len(todo) \in Nat \ {0} /\ Len(todo') = Len(todo) - 1
          /\ \A i \in 1..(Len(todo) - 1) : todo'[i] = todo[i + 1]
        BY <1>1, <1>4, TailTyped
    <2>2. Dropped' = Dropped + 1 /\ Dropped \in Int
        BY <1>1, <1>4, <2>1 DEF Dropped
    <2> SUFFICES ASSUME NEW i \in 1..Len(todo') PROVE todo'[i].id = Dropped' + i
        BY DEF TodoIs
    <2>3. i + 1 \in 1..Len(todo) /\ todo'[i] = todo[i + 1] /\ i \in Nat
        BY <2>1
    <2>4. todo[i + 1].id = Dropped + (i + 1)
        BY <2>3 DEF TodoIs
    <2>5. Dropped + (i + 1) = Dropped' + i
        BY <2>2, <2>3
    <2> QED
        BY <2>3, <2>4, <2>5
<1> QED
    BY <1>2, <1>3, <1>4 DEF Shape, Stills, Drops, Opens, Posts, Sends, Pushes, Leaves, Loses, Goes,
       Flushes, Wastes

(* The first of one place becomes the last of another.                     *)
LEMMA HeadMoves ==
    ASSUME NEW S, NEW s \in Seq(S), NEW T, NEW t \in Seq(T),
           s # <<>>, Head(s) \in T, Head(s).id \in Ids,
           \A id \in Ids : ~(Holds(s, id) /\ Holds(t, id))
    PROVE  /\ OnceIn(s) => OnceIn(Tail(s)) /\ ~Holds(Tail(s), Head(s).id)
           /\ OnceIn(t) => OnceIn(Append(t, Head(s)))
           /\ \A id : Holds(s, id) <=> Holds(Tail(s), id) \/ id = Head(s).id
           /\ \A id : Holds(Append(t, Head(s)), id) <=> Holds(t, id) \/ id = Head(s).id
<1> DEFINE h == Head(s)
<1>1. h.id # 0
    BY DEF Ids
<1>2. /\ OnceIn(s) => OnceIn(Tail(s)) /\ ~Holds(Tail(s), h.id)
      /\ \A id : Holds(s, id) <=> Holds(Tail(s), id) \/ id = h.id
    BY <1>1, HoldsTail
<1>3. ~Holds(t, h.id)
    BY <1>2
<1>4. h \in T
    OBVIOUS
<1> HIDE DEF h
<1>5. /\ OnceIn(t) => OnceIn(Append(t, h))
      /\ \A id : Holds(Append(t, h), id) <=> Holds(t, id) \/ id = h.id
    BY <1>3, <1>4, HoldsAppend
<1> QED
    BY <1>2, <1>5 DEF h

(* What holds the places' heads.                                           *)
LEMMA Heads ==
    ASSUME Typed
    PROVE  /\ OnWire \in Seq(Sendable) /\ loop \in Seq(Loopable)
           /\ queue \in Seq(Sendable) /\ todo \in Seq(Sendable)
           /\ queue # <<>> => Head(queue) \in Sendable /\ Head(queue) \in Loopable /\ Head(queue).id \in Ids
           /\ todo # <<>> => Head(todo) \in Sendable /\ Head(todo) \in Loopable /\ Head(todo).id \in Ids
           /\ \A m \in Sendable : m.id \in Ids
<1>1. OnWire \in Seq(Sendable)
    BY WireIs
<1>2. \A m \in Sendable : m.id \in Ids
    BY DEF Sendable, Ids
<1>3. queue # <<>> => Head(queue) \in Sendable
    BY TailTyped DEF Typed
<1>4. todo # <<>> => Head(todo) \in Sendable
    BY TailTyped DEF Typed
<1>5. Sendable \subseteq Loopable
    BY DEF Loopable
<1> QED
    BY <1>1, <1>2, <1>3, <1>4, <1>5 DEF Typed

LEMMA SingleStep == Typed /\ Typed' /\ TodoIs /\ TodoIs' /\ Single /\ Shape => Single'
<1> SUFFICES ASSUME Typed, Typed', TodoIs, TodoIs', Single, Shape PROVE Single'
    OBVIOUS
<1> DEFINE W(id) == Holds(OnWire, id)
           L(id) == Holds(loop, id)
           Q(id) == Holds(queue, id)
           T(id) == Holds(todo, id)
<1>1. /\ OnWire \in Seq(Sendable) /\ loop \in Seq(Loopable)
      /\ queue \in Seq(Sendable) /\ todo \in Seq(Sendable)
    BY Heads
<1>2. OnceIn(OnWire) /\ OnceIn(loop) /\ OnceIn(queue) /\ OnceIn(todo)
    BY DEF Single
<1>3. \A id \in Ids : Alone(id) /\ Numbered(id)
    BY DEF Single
<1>4. OnceIn(todo)'
    BY TodoHolds, PTL
<1>5. emitted \in Nat /\ emitted' \in Nat /\ OnceIn(<<>>) /\ \A id : ~Holds(<<>>, id)
    BY HoldsNone DEF Typed
<1>6. \A id \in Ids : id # 0 /\ id \in Nat
    BY DEF Ids
<1>7. CASE Stills \/ Drops
    <2>1. /\ OnWire' = OnWire /\ Same(loop, loop') /\ todo' = todo /\ emitted' = emitted
          /\ queue' = queue \/ queue' = <<>>
        BY <1>7 DEF Stills, Drops
    <2>2. OnceIn(OnWire') /\ OnceIn(loop') /\ OnceIn(queue') /\ OnceIn(todo')
        BY <1>2, <1>5, <2>1 DEF Same
    <2>3. \A id \in Ids : Holds(loop', id) <=> L(id)
        BY <1>6, <2>1 DEF Same
    <2>4. \A id \in Ids : Holds(queue', id) => Q(id)
        BY <1>5, <2>1
    <2>5. ASSUME NEW id \in Ids PROVE Alone(id)' /\ Numbered(id)'
        BY <1>3, <2>1, <2>3, <2>4 DEF Alone, Numbered
    <2> QED
        BY <2>2, <2>5 DEF Single
<1>8. CASE Opens
    <2>1. UNCHANGED <<loop, queue, todo, emitted>> /\ Len(OnWire') = 0
        BY <1>8 DEF Opens
    <2>2. OnceIn(OnWire') /\ \A id : ~Holds(OnWire', id)
        BY <2>1, HoldsNone
    <2>3. ASSUME NEW id \in Ids PROVE Alone(id)' /\ Numbered(id)'
        BY <1>3, <2>1, <2>2 DEF Alone, Numbered
    <2> QED
        BY <1>2, <2>1, <2>2, <2>3 DEF Single
<1>9. CASE News
    <2>1. /\ OnWire' = OnWire /\ Same(loop, loop') /\ queue' = queue /\ todo = <<>>
          /\ emitted' = emitted + Len(todo')
        BY <1>9 DEF News
    <2>2. OnceIn(OnWire') /\ OnceIn(loop') /\ OnceIn(queue')
        BY <1>2, <2>1 DEF Same
    <2>3. \A id \in Ids : Holds(loop', id) <=> L(id)
        BY <1>6, <2>1 DEF Same
    <2>4. \A x \in Ids : Holds(todo', x) <=> x > Dropped' /\ x <= emitted'
        BY TodoHoldsNext
    <2>5. Dropped' = emitted
        <3>1. Len(todo') \in Nat
            BY LenProperties DEF Typed
        <3> QED
            BY <1>5, <2>1, <3>1 DEF Dropped
    <2>6. ASSUME NEW id \in Ids PROVE Alone(id)' /\ Numbered(id)'
        <3>1. /\ ~(id > emitted /\ id <= emitted)
              /\ id <= emitted => id <= emitted'
            <4>1. Len(todo') \in Nat
                BY LenProperties DEF Typed
            <4> QED
                BY <1>5, <1>6, <2>1, <4>1
        <3>2. Holds(todo', id) <=> id > emitted /\ id <= emitted'
            BY <2>4, <2>5
        <3>3. Numbered(id) /\ Alone(id)
            BY <1>3
        <3> QED
            BY <2>1, <2>3, <3>1, <3>2, <3>3, Zenon DEF Alone, Numbered
    <2> QED
        BY <1>4, <2>2, <2>6 DEF Single
<1>10. CASE Posts
    <2>1. /\ queue # <<>> /\ loop' = Append(loop, Head(queue)) /\ queue' = Tail(queue)
          /\ OnWire' = OnWire /\ UNCHANGED <<todo, emitted>>
        BY <1>10 DEF Posts
    <2>2. Head(queue) \in Loopable /\ Head(queue).id \in Ids
        BY <2>1, Heads
    <2>3. \A id \in Ids : ~(Holds(queue, id) /\ Holds(loop, id))
        BY <1>3 DEF Alone
    <2>4. /\ OnceIn(queue') /\ ~Holds(queue', Head(queue).id) /\ OnceIn(loop')
          /\ \A id : Q(id) <=> Holds(queue', id) \/ id = Head(queue).id
          /\ \A id : Holds(loop', id) <=> L(id) \/ id = Head(queue).id
        BY <1>1, <1>2, <2>1, <2>2, <2>3, HeadMoves
    <2>5. ASSUME NEW id \in Ids PROVE Alone(id)' /\ Numbered(id)'
        BY <1>3, <2>1, <2>4 DEF Alone, Numbered
    <2> QED
        BY <1>2, <2>1, <2>4, <2>5 DEF Single
<1>11. CASE Sends
    <2>1. /\ todo # <<>> /\ loop' = Append(loop, Head(todo)) /\ todo' = Tail(todo)
          /\ OnWire' = OnWire /\ UNCHANGED <<queue, emitted>>
        BY <1>11 DEF Sends
    <2>2. Head(todo) \in Loopable /\ Head(todo).id \in Ids
        BY <2>1, Heads
    <2>3. \A id \in Ids : ~(Holds(todo, id) /\ Holds(loop, id))
        BY <1>3 DEF Alone
    <2>4. /\ OnceIn(todo') /\ ~Holds(todo', Head(todo).id) /\ OnceIn(loop')
          /\ \A id : T(id) <=> Holds(todo', id) \/ id = Head(todo).id
          /\ \A id : Holds(loop', id) <=> L(id) \/ id = Head(todo).id
        BY <1>1, <1>2, <2>1, <2>2, <2>3, HeadMoves
    <2>5. ASSUME NEW id \in Ids PROVE Alone(id)' /\ Numbered(id)'
        BY <1>3, <2>1, <2>4 DEF Alone, Numbered
    <2> QED
        BY <1>2, <2>1, <2>4, <2>5 DEF Single
<1>12. CASE Pushes
    <2>1. /\ todo # <<>> /\ queue' = Append(queue, Head(todo)) /\ todo' = Tail(todo)
          /\ OnWire' = OnWire /\ UNCHANGED <<loop, emitted>>
        BY <1>12 DEF Pushes
    <2>2. Head(todo) \in Sendable /\ Head(todo).id \in Ids
        BY <2>1, Heads
    <2>3. \A id \in Ids : ~(Holds(todo, id) /\ Holds(queue, id))
        BY <1>3 DEF Alone
    <2>4. /\ OnceIn(todo') /\ ~Holds(todo', Head(todo).id) /\ OnceIn(queue')
          /\ \A id : T(id) <=> Holds(todo', id) \/ id = Head(todo).id
          /\ \A id : Holds(queue', id) <=> Q(id) \/ id = Head(todo).id
        BY <1>1, <1>2, <2>1, <2>2, <2>3, HeadMoves
    <2>5. ASSUME NEW id \in Ids PROVE Alone(id)' /\ Numbered(id)'
        BY <1>3, <2>1, <2>4 DEF Alone, Numbered
    <2> QED
        BY <1>2, <2>1, <2>4, <2>5 DEF Single
<1>13. CASE Leaves
    <2>1. /\ loop' = loop \o queue /\ queue' = <<>> /\ OnWire' = OnWire
          /\ UNCHANGED <<todo, emitted>>
        BY <1>13 DEF Leaves
    <2>2. queue \in Seq(Loopable)
        BY <1>1 DEF Loopable
    <2>3. \A id : id # 0 => ~(Holds(loop, id) /\ Holds(queue, id))
        <3>1. ASSUME NEW id, id # 0, Holds(queue, id) PROVE id \in Ids
            BY <1>1, <3>1, Heads, ElementOfSeq DEF Holds
        <3> QED
            BY <1>3, <3>1 DEF Alone
    <2>4. OnceIn(loop') /\ \A id : Holds(loop', id) <=> L(id) \/ Q(id)
        BY <1>1, <1>2, <2>1, <2>2, <2>3, HoldsConcat
    <2>5. OnceIn(queue') /\ \A id : ~Holds(queue', id)
        BY <1>5, <2>1
    <2>6. ASSUME NEW id \in Ids PROVE Alone(id)' /\ Numbered(id)'
        BY <1>3, <2>1, <2>4, <2>5 DEF Alone, Numbered
    <2> QED
        BY <1>2, <2>1, <2>4, <2>5, <2>6 DEF Single
<1>14. CASE Loses
    <2>1. /\ loop # <<>> /\ loop' = Tail(loop) /\ OnWire' = OnWire
          /\ UNCHANGED <<queue, todo, emitted>>
        BY <1>14 DEF Loses
    <2>2. OnceIn(loop') /\ \A id : Holds(loop', id) => L(id)
        BY <1>1, <1>2, <2>1, HoldsTail
    <2>3. ASSUME NEW id \in Ids PROVE Alone(id)' /\ Numbered(id)'
        BY <1>3, <2>1, <2>2 DEF Alone, Numbered
    <2> QED
        BY <1>2, <2>1, <2>2, <2>3 DEF Single
<1>15. CASE Wastes
    <2>1. /\ queue # <<>> /\ queue' = Tail(queue) /\ OnWire' = OnWire
          /\ UNCHANGED <<loop, todo, emitted>>
        BY <1>15 DEF Wastes
    <2>2. OnceIn(queue') /\ \A id : Holds(queue', id) => Q(id)
        BY <1>1, <1>2, <2>1, HoldsTail
    <2>3. ASSUME NEW id \in Ids PROVE Alone(id)' /\ Numbered(id)'
        BY <1>3, <2>1, <2>2 DEF Alone, Numbered
    <2> QED
        BY <1>2, <2>1, <2>2, <2>3 DEF Single
<1>16. CASE Goes
    <2>1. /\ loop # <<>> /\ Head(loop) \in Sendable
          /\ loop' = Tail(loop) /\ OnWire' = Append(OnWire, Head(loop))
          /\ UNCHANGED <<queue, todo, emitted>>
        BY <1>16 DEF Goes
    <2>2. Head(loop).id \in Ids
        BY <2>1, Heads
    <2>3. \A id \in Ids : ~(Holds(loop, id) /\ Holds(OnWire, id))
        BY <1>3 DEF Alone
    <2>4. /\ OnceIn(loop') /\ ~Holds(loop', Head(loop).id) /\ OnceIn(OnWire')
          /\ \A id : L(id) <=> Holds(loop', id) \/ id = Head(loop).id
          /\ \A id : Holds(OnWire', id) <=> W(id) \/ id = Head(loop).id
        BY <1>1, <1>2, <2>1, <2>2, <2>3, HeadMoves
    <2>5. ASSUME NEW id \in Ids PROVE Alone(id)' /\ Numbered(id)'
        BY <1>3, <2>1, <2>4 DEF Alone, Numbered
    <2> QED
        BY <1>2, <2>1, <2>4, <2>5 DEF Single
<1>17. CASE Flushes
    <2>1. /\ queue # <<>> /\ queue' = Tail(queue) /\ OnWire' = Append(OnWire, Head(queue))
          /\ UNCHANGED <<loop, todo, emitted>>
        BY <1>17 DEF Flushes
    <2>2. Head(queue) \in Sendable /\ Head(queue).id \in Ids
        BY <2>1, Heads
    <2>3. \A id \in Ids : ~(Holds(queue, id) /\ Holds(OnWire, id))
        BY <1>3 DEF Alone
    <2>4. /\ OnceIn(queue') /\ ~Holds(queue', Head(queue).id) /\ OnceIn(OnWire')
          /\ \A id : Q(id) <=> Holds(queue', id) \/ id = Head(queue).id
          /\ \A id : Holds(OnWire', id) <=> W(id) \/ id = Head(queue).id
        BY <1>1, <1>2, <2>1, <2>2, <2>3, HeadMoves
    <2>5. ASSUME NEW id \in Ids PROVE Alone(id)' /\ Numbered(id)'
        BY <1>3, <2>1, <2>4 DEF Alone, Numbered
    <2> QED
        BY <1>2, <2>1, <2>4, <2>5 DEF Single
<1> QED
    BY <1>7, <1>8, <1>9, <1>10, <1>11, <1>12, <1>13, <1>14, <1>15, <1>16, <1>17 DEF Shape

(* No message is missing: those that are not lost are on their way, and on *)
(* a new link, which starts with an empty wire, they still are.            *)
Waits(id) == Holds(loop, id) \/ Holds(queue, id) \/ Holds(todo, id)
Kept ==
    \A id \in Ids : id > lost /\ id <= emitted =>
        /\ con = "opened" => Holds(OnWire, id) \/ Waits(id)
        /\ con = "closed" => Waits(id)

LEMMA KeptStep ==
    Typed /\ Typed' /\ TodoIs /\ TodoIs' /\ Single /\ Kept /\ Shape => Kept'
<1> SUFFICES ASSUME Typed, Typed', TodoIs, TodoIs', Single, Kept, Shape,
                    NEW id \in Ids, id > lost', id <= emitted'
             PROVE  /\ con' = "opened" => Holds(OnWire', id) \/ Waits(id)'
                    /\ con' = "closed" => Waits(id)'
    BY DEF Kept
<1>1. /\ OnWire \in Seq(Sendable) /\ loop \in Seq(Loopable)
      /\ queue \in Seq(Sendable) /\ todo \in Seq(Sendable)
    BY Heads
<1>2. id # 0 /\ id \in Nat /\ emitted \in Nat /\ emitted' \in Nat /\ lost \in Nat /\ lost' \in Nat
    BY DEF Ids, Typed
<1>3. id > lost /\ id <= emitted => /\ con = "opened" => Holds(OnWire, id) \/ Waits(id)
                                    /\ con = "closed" => Waits(id)
    BY DEF Kept
<1>4. CASE Stills
    BY <1>2, <1>3, <1>4 DEF Stills, Same, Waits
<1>5. CASE Drops
    <2>1. CASE con' = "closing"
        BY <2>1
    <2>2. CASE lost' = Dropped
        <3>1. Holds(todo, id)
            BY <1>5, <2>2, TodoHolds DEF Drops
        <3>2. Holds(todo', id)
            BY <1>5, <3>1 DEF Drops
        <3> QED
            BY <3>2 DEF Waits
    <2> QED
        BY <1>5, <2>1, <2>2 DEF Drops
<1>6. CASE Opens
    BY <1>3, <1>6 DEF Opens, Waits
<1>7. CASE News
    <2>1. /\ OnWire' = OnWire /\ Same(loop, loop') /\ queue' = queue /\ con' = con /\ lost' = lost
          /\ todo = <<>> /\ emitted' = emitted + Len(todo') /\ Len(todo') \in Nat
        BY <1>7, LenProperties DEF News, Typed
    <2>2. CASE id <= emitted
        <3>1. ~Holds(todo, id)
            BY <2>1, HoldsNone
        <3>2. Waits(id) => Waits(id)'
            BY <1>2, <2>1, <3>1 DEF Waits, Same
        <3> QED
            BY <1>3, <2>1, <2>2, <3>2
    <2>3. CASE id > emitted
        <3>1. \A x \in Ids : Holds(todo', x) <=> x > Dropped' /\ x <= emitted'
            BY TodoHoldsNext
        <3>2. Dropped' = emitted
            BY <1>2, <2>1 DEF Dropped
        <3>3. Holds(todo', id)
            BY <2>3, <3>1, <3>2
        <3> QED
            BY <3>3 DEF Waits
    <2> QED
        BY <1>2, <2>2, <2>3
<1>8. CASE Posts \/ Flushes
    <2>1. /\ queue # <<>> /\ queue' = Tail(queue) /\ todo' = todo /\ con' = con
          /\ lost' = lost /\ emitted' = emitted
        BY <1>8 DEF Posts, Flushes
    <2>2. Holds(queue, id) <=> Holds(queue', id) \/ id = Head(queue).id
        BY <1>1, <2>1, HoldsTail
    <2>3. CASE Posts
        <3>1. Holds(loop', id) <=> Holds(loop, id) \/ id = Head(queue).id
            BY <1>1, <2>1, <2>3, Heads, HoldsAppend DEF Posts
        <3> QED
            BY <1>3, <2>1, <2>2, <2>3, <3>1 DEF Posts, Waits
    <2>4. CASE Flushes
        <3>1. Holds(OnWire', id) <=> Holds(OnWire, id) \/ id = Head(queue).id
            BY <1>1, <2>1, <2>4, Heads, HoldsAppend DEF Flushes
        <3> QED
            BY <1>3, <2>1, <2>2, <2>4, <3>1 DEF Flushes, Waits
    <2> QED
        BY <1>8, <2>3, <2>4
<1>9. CASE Sends \/ Pushes
    <2>1. /\ todo # <<>> /\ todo' = Tail(todo) /\ OnWire' = OnWire /\ con' = con
          /\ lost' = lost /\ emitted' = emitted
        BY <1>9 DEF Sends, Pushes
    <2>2. Holds(todo, id) <=> Holds(todo', id) \/ id = Head(todo).id
        BY <1>1, <2>1, HoldsTail
    <2>3. CASE Sends
        <3>1. Holds(loop', id) <=> Holds(loop, id) \/ id = Head(todo).id
            BY <1>1, <2>1, <2>3, Heads, HoldsAppend DEF Sends
        <3> QED
            BY <1>3, <2>1, <2>2, <2>3, <3>1 DEF Sends, Waits
    <2>4. CASE Pushes
        <3>1. Holds(queue', id) <=> Holds(queue, id) \/ id = Head(todo).id
            BY <1>1, <2>1, <2>4, Heads, HoldsAppend DEF Pushes
        <3> QED
            BY <1>3, <2>1, <2>2, <2>4, <3>1 DEF Pushes, Waits
    <2> QED
        BY <1>9, <2>3, <2>4
<1>10. CASE Leaves
    BY <1>10 DEF Leaves
<1>11. CASE Loses \/ Goes
    <2>1. /\ loop # <<>> /\ loop' = Tail(loop) /\ queue' = queue /\ todo' = todo /\ con' = con
          /\ emitted' = emitted
        BY <1>11 DEF Loses, Goes
    <2>2. Holds(loop, id) <=> Holds(loop', id) \/ id = Head(loop).id
        BY <1>1, <2>1, HoldsTail
    <2>3. CASE Loses
        <3>1. Head(loop).id \in Nat
            BY <1>1, <2>1, TailTyped, LoopableIs
        <3>2. id > lost /\ id # Head(loop).id
            BY <1>2, <2>3, <3>1 DEF Loses
        <3> QED
            BY <1>3, <2>1, <2>2, <2>3, <3>2 DEF Loses, Waits
    <2>4. CASE Goes
        <3>1. Holds(OnWire', id) <=> Holds(OnWire, id) \/ id = Head(loop).id
            BY <1>1, <2>1, <2>4, HoldsAppend DEF Goes
        <3>2. Waits(id) => Waits(id)' \/ id = Head(loop).id
            BY <2>1, <2>2 DEF Waits
        <3> QED
            BY <1>3, <2>1, <2>2, <2>4, <3>1, <3>2 DEF Goes
    <2> QED
        BY <1>11, <2>3, <2>4
<1>12. CASE Wastes
    BY <1>12 DEF Wastes
<1> QED
    BY <1>4, <1>5, <1>6, <1>7, <1>8, <1>9, <1>10, <1>11, <1>12 DEF Shape

OnceInv == Typed /\ Basics /\ TodoIs /\ Single /\ Kept

LEMMA OnceInvInductive == Spec => []OnceInv
<1>1. Init => OnceInv
    <2> SUFFICES ASSUME Init PROVE TodoIs /\ Single /\ Kept
        BY TypedInit, BasicsInit DEF OnceInv
    <2>1. Typed
        BY TypedInit
    <2>2. /\ Len(loop) = 0 /\ Len(queue) = 0 /\ Len(todo) = 0 /\ Len(wire) = 0
          /\ emitted = 0 /\ lost = 0
        BY DEF Init
    <2>3. Len(OnWire) = 0
        BY <2>1, <2>2, WireIs
    <2>4. TodoIs
        BY <2>2 DEF TodoIs
    <2>5. /\ OnceIn(OnWire) /\ OnceIn(loop) /\ OnceIn(queue) /\ OnceIn(todo)
          /\ \A id : ~Holds(OnWire, id) /\ ~Holds(loop, id) /\ ~Holds(queue, id) /\ ~Holds(todo, id)
        BY <2>2, <2>3, HoldsNone
    <2>6. Single
        BY <2>5 DEF Single, Alone, Numbered
    <2>7. Kept
        BY <2>2 DEF Kept, Ids
    <2> QED
        BY <2>4, <2>6, <2>7
<1>2. OnceInv /\ [Next]_vars => OnceInv'
    BY TypedStep, BasicsStep, StepShape, TodoStep, SingleStep, KeptStep DEF OnceInv
<1> QED
    BY <1>1, <1>2, PTL DEF Spec

(* A place of the module's, and what it holds.                             *)
LEMMA PlacesAre ==
    ASSUME Typed
    PROVE  /\ DOMAIN Places = 1..4 /\ Places[1] = OnWire /\ Places[2] = loop
           /\ Places[3] = queue /\ Places[4] = todo
           /\ \A p \in 1..4 : DOMAIN Places[p] = 1..Len(Places[p])
<1>1. /\ DOMAIN Places = 1..4 /\ Places[1] = OnWire /\ Places[2] = loop
      /\ Places[3] = queue /\ Places[4] = todo
    BY DEF Places
<1>2. /\ DOMAIN OnWire = 1..Len(OnWire) /\ DOMAIN loop = 1..Len(loop)
      /\ DOMAIN queue = 1..Len(queue) /\ DOMAIN todo = 1..Len(todo)
    BY Heads, LenProperties
<1>3. ASSUME NEW p \in 1..4 PROVE DOMAIN Places[p] = 1..Len(Places[p])
    <2>1. p = 1 \/ p = 2 \/ p = 3 \/ p = 4
        OBVIOUS
    <2> QED
        BY <1>1, <1>2, <2>1
<1> QED
    BY <1>1, <1>3

LEMMA PositionIs ==
    ASSUME Typed, NEW a \in Positions
    PROVE  \E p \in 1..4 : \E i \in 1..Len(Places[p]) : a = <<p, i>> /\ IdAt(a) = Places[p][i].id
<1>1. PICK p \in 1..4 : a \in {p} \X DOMAIN Places[p]
    BY PlacesAre DEF Positions
<1>2. PICK i \in 1..Len(Places[p]) : a = <<p, i>>
    BY <1>1, PlacesAre
<1>3. a[1] = p /\ a[2] = i
    BY <1>2
<1>4. IdAt(a) = Places[p][i].id
    BY <1>3 DEF IdAt
<1> QED
    BY <1>2, <1>4

LEMMA PositionOf ==
    ASSUME Typed, NEW p \in 1..4, NEW id, Holds(Places[p], id)
    PROVE  \E at \in Positions : IdAt(at) = id
<1>1. PICK i \in 1..Len(Places[p]) : Places[p][i].id = id
    BY DEF Holds
<1>2. <<p, i>> \in {p} \X DOMAIN Places[p]
    BY PlacesAre
<1>3. <<p, i>> \in Positions
    BY <1>2, PlacesAre DEF Positions
<1>4. <<p, i>>[1] = p /\ <<p, i>>[2] = i
    OBVIOUS
<1>5. IdAt(<<p, i>>) = id
    BY <1>1, <1>4 DEF IdAt
<1> QED
    BY <1>3, <1>5

(* No message is in two places or twice in one, and as long as the link    *)
(* stands none is missing that was not lost with an earlier link or socket *)
(* (send_packet, on_connected).                                            *)
THEOREM NoneTwiceNoneMissing == Spec => []OnceEach
<1>1. OnceInv => OnceEach
    <2> SUFFICES ASSUME Typed, Single, Kept PROVE OnceEach
        BY DEF OnceInv
    <2>1. /\ OnceIn(OnWire) /\ OnceIn(loop) /\ OnceIn(queue) /\ OnceIn(todo)
          /\ \A id \in Ids : Alone(id)
        BY DEF Single
    <2>2. \A p \in 1..4 : OnceIn(Places[p])
        <3> SUFFICES ASSUME NEW p \in 1..4 PROVE OnceIn(Places[p])
            OBVIOUS
        <3>1. p = 1 \/ p = 2 \/ p = 3 \/ p = 4
            OBVIOUS
        <3> QED
            BY <2>1, <3>1, PlacesAre
    <2>3. ASSUME NEW p \in 1..4, NEW q \in 1..4, NEW id \in Ids, p # q,
                 Holds(Places[p], id), Holds(Places[q], id)
          PROVE  FALSE
        <3>1. (p = 1 \/ p = 2 \/ p = 3 \/ p = 4) /\ (q = 1 \/ q = 2 \/ q = 3 \/ q = 4)
            OBVIOUS
        <3>2. Alone(id)
            BY <2>1
        <3> QED
            BY <2>3, <3>1, <3>2, PlacesAre DEF Alone
    <2>4. \A p \in 1..4 : \A i \in 1..Len(Places[p]) : Places[p][i].id # 0 => Places[p][i].id \in Ids
        <3> SUFFICES ASSUME NEW p \in 1..4, NEW i \in 1..Len(Places[p])
                     PROVE  Places[p][i].id \in Nat
            BY DEF Ids
        <3>1. p = 1 \/ p = 2 \/ p = 3 \/ p = 4
            OBVIOUS
        <3>2. /\ OnWire \in Seq(Loopable) /\ loop \in Seq(Loopable)
              /\ queue \in Seq(Loopable) /\ todo \in Seq(Loopable)
            BY Heads DEF Loopable
        <3>3. Places[p] \in Seq(Loopable)
            BY <3>1, <3>2, PlacesAre
        <3>4. Places[p][i] \in Loopable
            BY <3>3, ElementOfSeq
        <3> QED
            BY <3>4, LoopableIs
    <2>5. ASSUME NEW a \in Positions, NEW b \in Positions, IdAt(a) # 0, IdAt(a) = IdAt(b)
          PROVE  a = b
        <3>1. PICK p \in 1..4 : \E i \in 1..Len(Places[p]) : a = <<p, i>> /\ IdAt(a) = Places[p][i].id
            BY PositionIs
        <3>2. PICK i \in 1..Len(Places[p]) : a = <<p, i>> /\ IdAt(a) = Places[p][i].id
            BY <3>1
        <3>3. PICK q \in 1..4 : \E j \in 1..Len(Places[q]) : b = <<q, j>> /\ IdAt(b) = Places[q][j].id
            BY PositionIs
        <3>4. PICK j \in 1..Len(Places[q]) : b = <<q, j>> /\ IdAt(b) = Places[q][j].id
            BY <3>3
        <3>5. Holds(Places[p], IdAt(a)) /\ Holds(Places[q], IdAt(a)) /\ IdAt(a) \in Ids
            BY <2>4, <2>5, <3>2, <3>4 DEF Holds
        <3>6. p = q
            BY <2>3, <3>5
        <3>7. i = j
            BY <2>2, <2>5, <3>2, <3>4, <3>6 DEF OnceIn
        <3> QED
            BY <3>2, <3>4, <3>6, <3>7
    <2>6. ASSUME NEW id \in (lost + 1)..emitted, con = "opened"
          PROVE  \E at \in Positions : IdAt(at) = id
        <3>1. id \in Ids /\ id > lost /\ id <= emitted
            BY DEF Ids, Typed
        <3>2. Holds(OnWire, id) \/ Holds(loop, id) \/ Holds(queue, id) \/ Holds(todo, id)
            BY <2>6, <3>1 DEF Kept, Waits
        <3>3. \E p \in 1..4 : Holds(Places[p], id)
            BY <3>2, PlacesAre
        <3> QED
            BY <3>3, PositionOf
    <2> QED
        BY <2>5, <2>6 DEF OnceEach
<1> QED
    BY <1>1, OnceInvInductive, PTL

-----------------------------------------------------------------------------
(* The order of the messages.                                              *)

Calm == "slow" \notin cases /\ "races" \notin cases

(* While the network thread sends what has waited nothing else is to be    *)
(* sent: the main thread is not in send_packet, and the loop holds no      *)
(* packet.                                                                 *)
DrainInv == Calm /\ con = "opened" /\ draining => inEmit = "no" /\ OnlyIn(loop, {"leave"})

LEMMA DrainStep ==
    Typed /\ Basics /\ PunctualInv /\ DrainInv /\ [Next]_vars => DrainInv'
<1> SUFFICES ASSUME Typed, Basics, PunctualInv, DrainInv, [Next]_vars,
                    Calm', con' = "opened", draining'
             PROVE  inEmit' = "no" /\ OnlyIn(loop', {"leave"})
    BY DEF DrainInv
<1>1. Calm /\ "slow" \notin cases /\ ~Races
    BY CasesKept DEF Calm, Races
<1>2. CASE UNCHANGED vars
    <2>1. /\ con' = con /\ draining' = draining /\ inEmit' = inEmit /\ loop' = loop
        BY <1>2 DEF vars, conVars, mainVars
    <2> QED
        BY <1>1, <2>1 DEF DrainInv
<1>3. CASE Main \/ User
    <2>1. draining' = draining
        BY <1>3 DEF Main, User, OnSocketOpen, OnSocketClose, OnParams, Emit, EmitDrain, EmitSend,
           EmitPush, Use, Close, GiveUp
    <2>2. con = "opened"
        BY <1>3 DEF Main, User, OnSocketOpen, OnSocketClose, OnParams, Emit, EmitDrain, EmitSend,
           EmitPush, Use, Close, GiveUp, conVars
    <2>3. inEmit = "no" /\ OnlyIn(loop, {"leave"})
        BY <1>1, <2>1, <2>2 DEF DrainInv
    <2>4. OnParams \/ Use
        <3>1. ~OnSocketOpen /\ ~OnSocketClose /\ ~Emit /\ ~Close
            BY <1>1, <2>1 DEF OnSocketOpen, OnSocketClose, Emit, Close, Signalled, NetworkRests
        <3>2. ~EmitDrain /\ ~EmitSend /\ ~EmitPush
            BY <2>3 DEF EmitDrain, EmitSend, EmitPush
        <3>3. ~GiveUp
            BY <2>2 DEF GiveUp
        <3> QED
            BY <1>3, <3>1, <3>2, <3>3 DEF Main, User
    <2>5. loop' = loop /\ inEmit' = inEmit
        BY <2>4 DEF OnParams, Use
    <2> QED
        BY <2>3, <2>5
<1>4. CASE Network
    <2>1. CASE LinkOpens
        BY <2>1 DEF LinkOpens, Basics
    <2>2. CASE LinkEnds
        BY <2>2 DEF LinkEnds
    <2>3. ASSUME con' = con, draining' = draining, inEmit' = inEmit
          PROVE  inEmit' = "no" /\ OnlyIn(loop, {"leave"})
        BY <1>1, <2>3 DEF DrainInv
    <2>4. CASE ServerAnswers
        <3>1. con' = con /\ draining' = draining /\ nsp \in {"asked", "again"}
            BY <2>4 DEF ServerAnswers, conVars
        <3>2. Punctual /\ Reaches
            BY <1>1, <3>1 DEF PunctualInv, Reaches
        <3> QED
            BY <3>1, <3>2 DEF Punctual, Asked, Answered, In, Leaving, CutOff, Out, Asking
    <2>5. CASE ServerLeaves
        <3>1. /\ con' = con /\ draining' = draining /\ inEmit' = inEmit
              /\ loop' = Append(loop, Leave)
            BY <2>5 DEF ServerLeaves, Arrives, conVars, mainVars
        <3>2. inEmit' = "no" /\ OnlyIn(loop, {"leave"})
            BY <2>3, <3>1
        <3>3. Leave \in Loopable /\ Leave.kind \in {"leave"}
            BY Packets0, KindsApart
        <3> QED
            BY <3>1, <3>2, <3>3, AppendOnly
    <2>6. CASE JoinExpires
        BY <1>1, <2>6 DEF JoinExpires, conVars
    <2>7. CASE ServerParams
        <3>1. con' = con /\ draining' = draining /\ inEmit' = inEmit /\ loop' = loop
            BY <2>7 DEF ServerParams, conVars, mainVars
        <3> QED
            BY <2>3, <3>1
    <2> QED
        BY <1>4, <2>1, <2>2, <2>4, <2>5, <2>6, <2>7 DEF Network
<1>5. CASE JoinedDrain
    <2>1. con' = con /\ draining /\ inEmit' = inEmit /\ loop' = loop
        BY <1>5 DEF JoinedDrain, conVars, mainVars
    <2> QED
        BY <1>1, <2>1 DEF DrainInv
<1>6. CASE Joined
    <2>1. /\ ~draining /\ inEmit = "no" /\ inEmit' = inEmit /\ con' = con
          /\ loop # <<>> /\ loop' = Tail(loop) /\ Head(loop).kind = "answer"
        BY <1>1, <1>6 DEF Joined, Runs, MainRests, conVars, mainVars
    <2>2. /\ Len(loop) \in Nat \ {0} /\ Len(loop') = Len(loop) - 1 /\ loop[1].kind = "answer"
          /\ \A j \in 1..(Len(loop) - 1) : loop'[j] = loop[j + 1]
        BY <2>1, TailLoop
    <2>3. Punctual
        BY <1>1, <2>1 DEF PunctualInv
    <2>4. ~Asked /\ ~In /\ ~Out
        BY <2>2 DEF Asked, In, Out, OnlyIn, Msgs
    <2>5. ~Leaving
        <3> SUFFICES ASSUME NEW k \in 1..Len(loop), loop[k] = Leave,
                            \A i \in 1..Len(loop) : i # k => loop[i].kind \in Msgs
                     PROVE  FALSE
            BY DEF Leaving
        <3>1. k = 1
            BY <2>2 DEF Msgs
        <3> QED
            BY <2>2, <3>1, KindsApart
    <2>6. ~Asking
        <3> SUFFICES ASSUME Len(loop) > 0, loop[Len(loop)] = Join,
                            \A i \in 1..(Len(loop) - 1) : loop[i].kind \in Msgs
                     PROVE  FALSE
            BY DEF Asking
        <3>1. Len(loop) = 1
            BY <2>2 DEF Msgs
        <3> QED
            BY <2>2, <3>1, KindsApart
    <2>7. CASE Answered
        <3>1. Len(loop') = 0
            BY <2>2, <2>7 DEF Answered
        <3>2. OnlyIn(loop', {"leave"})
            BY <3>1 DEF OnlyIn
        <3> QED
            BY <2>1, <3>2
    <2>8. CASE CutOff
        <3>1. Len(loop') = 1 /\ loop'[1] = Leave
            BY <2>2, <2>8 DEF CutOff
        <3>2. \A i \in 1..Len(loop') : i = 1
            BY <3>1
        <3> QED
            BY <2>1, <3>1, <3>2, KindsApart DEF OnlyIn
    <2> QED
        BY <2>3, <2>4, <2>5, <2>6, <2>7, <2>8 DEF Punctual
<1>7. CASE RunTask \/ SocketCloses \/ LeaveExpires \/ RunStale
    BY <1>7 DEF RunTask, SocketCloses, LeaveExpires, RunStale, Runs, MainRests
<1> QED
    BY <1>2, <1>3, <1>4, <1>5, <1>6, <1>7 DEF Next, Run

(* The messages rise along the way: the wire, the loop, the queue, and     *)
(* what is still to be emitted.                                            *)
Before(a, b) ==
    /\ Holds(OnWire, a) /\ (Holds(loop, b) \/ Holds(queue, b) \/ Holds(todo, b)) => a < b
    /\ Holds(loop, a) /\ (Holds(queue, b) \/ Holds(todo, b)) => a < b
    /\ Holds(queue, a) /\ Holds(todo, b) => a < b
Ordered ==
    /\ Rising(OnWire) /\ Rising(loop) /\ Rising(queue) /\ Rising(todo)
    /\ \A a, b \in Ids : Before(a, b)

LEMMA HeldIsId ==
    ASSUME NEW s \in Seq(Loopable), NEW id, id # 0, Holds(s, id)
    PROVE  id \in Ids
<1>1. PICK i \in 1..Len(s) : s[i].id = id
    BY DEF Holds
<1>2. s[i] \in Loopable
    BY ElementOfSeq
<1> QED
    BY <1>1, <1>2, LoopableIs DEF Ids

LEMMA OrderMoves ==
    ASSUME NEW s \in Seq(Loopable), NEW t \in Seq(Loopable), s # <<>>, Head(s).id \in Ids,
           Rising(s), Rising(t), \A a, b \in Ids : Holds(t, a) /\ Holds(s, b) => a < b
    PROVE  /\ Rising(Tail(s)) /\ Rising(Append(t, Head(s)))
           /\ \A b \in Ids : Holds(Tail(s), b) => Head(s).id < b
           /\ \A id : Holds(s, id) <=> Holds(Tail(s), id) \/ id = Head(s).id
           /\ \A id : Holds(Append(t, Head(s)), id) <=> Holds(t, id) \/ id = Head(s).id
<1> DEFINE h == Head(s)
<1>1. h.id # 0 /\ h \in Loopable /\ \A b \in Ids : b # 0
    BY TailTyped DEF Ids
<1>2. /\ Rising(Tail(s))
      /\ \A b : b # 0 /\ Holds(Tail(s), b) => h.id < b
      /\ \A id : Holds(s, id) <=> Holds(Tail(s), id) \/ id = h.id
    BY <1>1, HoldsTail
<1>3. \A a : a # 0 /\ Holds(t, a) => a < h.id
    <2> SUFFICES ASSUME NEW a, a # 0, Holds(t, a) PROVE a < h.id
        OBVIOUS
    <2>1. a \in Ids
        BY HeldIsId
    <2>2. Holds(s, h.id)
        BY <1>2
    <2> QED
        BY <2>1, <2>2
<1> HIDE DEF h
<1>4. /\ Rising(Append(t, h))
      /\ \A id : Holds(Append(t, h), id) <=> Holds(t, id) \/ id = h.id
    BY <1>1, <1>3, HoldsAppend
<1> QED
    BY <1>1, <1>2, <1>4 DEF h

LEMMA OrderedStep ==
    ASSUME Typed, Typed', TodoIs, TodoIs', Single, Ordered, Shape,
           con = "opened" /\ draining => inEmit = "no" /\ OnlyIn(loop, {"leave"})
    PROVE  Ordered'
<1> DEFINE W(id) == Holds(OnWire, id)
           L(id) == Holds(loop, id)
           Q(id) == Holds(queue, id)
           T(id) == Holds(todo, id)
<1>1. /\ OnWire \in Seq(Loopable) /\ loop \in Seq(Loopable)
      /\ queue \in Seq(Loopable) /\ todo \in Seq(Loopable)
    BY Heads DEF Loopable
<1>2. Rising(OnWire) /\ Rising(loop) /\ Rising(queue) /\ Rising(todo)
    BY DEF Ordered
<1>3. \A a, b \in Ids : Before(a, b)
    BY DEF Ordered
<1>4. Rising(todo)'
    BY TodoHolds, PTL
<1>5. Rising(<<>>) /\ \A id : ~Holds(<<>>, id)
    BY HoldsNone
<1>6. \A id \in Ids : id # 0
    BY DEF Ids
<1>7. CASE Stills \/ Drops
    <2>1. /\ OnWire' = OnWire /\ Same(loop, loop') /\ todo' = todo
          /\ queue' = queue \/ queue' = <<>>
        BY <1>7 DEF Stills, Drops
    <2>2. Rising(OnWire') /\ Rising(loop') /\ Rising(queue')
        BY <1>2, <1>5, <2>1 DEF Same
    <2>3. \A id \in Ids : Holds(loop', id) <=> L(id)
        BY <1>6, <2>1 DEF Same
    <2>4. \A id \in Ids : Holds(queue', id) => Q(id)
        BY <1>5, <2>1
    <2>5. ASSUME NEW a \in Ids, NEW b \in Ids PROVE Before(a, b)'
        BY <1>3, <2>1, <2>3, <2>4, Zenon DEF Before
    <2> QED
        BY <1>4, <2>2, <2>5 DEF Ordered
<1>8. CASE Opens
    <2>1. UNCHANGED <<loop, queue, todo>> /\ Len(OnWire') = 0
        BY <1>8 DEF Opens
    <2>2. Rising(OnWire') /\ \A id : ~Holds(OnWire', id)
        BY <2>1, HoldsNone
    <2>3. ASSUME NEW a \in Ids, NEW b \in Ids PROVE Before(a, b)'
        BY <1>3, <2>1, <2>2, Zenon DEF Before
    <2> QED
        BY <1>2, <2>1, <2>2, <2>3 DEF Ordered
<1>9. CASE News
    <2>1. /\ OnWire' = OnWire /\ Same(loop, loop') /\ queue' = queue
          /\ emitted' = emitted + Len(todo') /\ Len(todo') \in Nat /\ emitted \in Nat
        BY <1>9, LenProperties DEF News, Typed
    <2>2. Rising(OnWire') /\ Rising(loop') /\ Rising(queue')
        BY <1>2, <2>1 DEF Same
    <2>3. \A id \in Ids : Holds(loop', id) <=> L(id)
        BY <1>6, <2>1 DEF Same
    <2>4. \A x \in Ids : Holds(todo', x) <=> x > Dropped' /\ x <= emitted'
        BY TodoHoldsNext
    <2>5. Dropped' = emitted
        BY <2>1 DEF Dropped
    <2>6. ASSUME NEW a \in Ids, NEW b \in Ids PROVE Before(a, b)'
        <3>1. Holds(todo', b) => b > emitted
            BY <2>4, <2>5
        <3>2. W(a) \/ L(a) \/ Q(a) => a <= emitted
            BY DEF Single, Numbered
        <3>3. a <= emitted /\ b > emitted => a < b
            BY <2>1 DEF Ids
        <3>4. Before(a, b)
            BY <1>3
        <3>5. Holds(todo', b) /\ (W(a) \/ L(a) \/ Q(a)) => a < b
            BY <3>1, <3>2, <3>3
        <3> QED
            BY <2>1, <2>3, <3>4, <3>5, Zenon DEF Before
    <2> QED
        BY <1>4, <2>2, <2>6 DEF Ordered
<1>10. CASE Posts
    <2>1. /\ queue # <<>> /\ loop' = Append(loop, Head(queue)) /\ queue' = Tail(queue)
          /\ OnWire' = OnWire /\ todo' = todo
        BY <1>10 DEF Posts
    <2>2. Head(queue).id \in Ids
        BY <2>1, Heads
    <2>3. \A a, b \in Ids : L(a) /\ Q(b) => a < b
        BY <1>3 DEF Before
    <2>4. /\ Rising(queue') /\ Rising(loop')
          /\ \A b \in Ids : Holds(queue', b) => Head(queue).id < b
          /\ \A id : Q(id) <=> Holds(queue', id) \/ id = Head(queue).id
          /\ \A id : Holds(loop', id) <=> L(id) \/ id = Head(queue).id
        BY <1>1, <1>2, <2>1, <2>2, <2>3, OrderMoves
    <2>5. ASSUME NEW a \in Ids, NEW b \in Ids PROVE Before(a, b)'
        <3>1. Before(a, b) /\ Before(Head(queue).id, b) /\ Before(a, Head(queue).id)
            BY <1>3, <2>2
        <3> QED
            BY <2>1, <2>4, <3>1, Zenon DEF Before
    <2> QED
        BY <1>2, <1>4, <2>1, <2>4, <2>5 DEF Ordered
<1>11. CASE Sends
    <2>1. /\ todo # <<>> /\ loop' = Append(loop, Head(todo)) /\ todo' = Tail(todo)
          /\ OnWire' = OnWire /\ queue = <<>> /\ queue' = queue
        BY <1>11 DEF Sends
    <2>2. Head(todo).id \in Ids
        BY <2>1, Heads
    <2>3. \A a, b \in Ids : L(a) /\ T(b) => a < b
        BY <1>3 DEF Before
    <2>4. /\ Rising(todo') /\ Rising(loop')
          /\ \A b \in Ids : Holds(todo', b) => Head(todo).id < b
          /\ \A id : T(id) <=> Holds(todo', id) \/ id = Head(todo).id
          /\ \A id : Holds(loop', id) <=> L(id) \/ id = Head(todo).id
        BY <1>1, <1>2, <2>1, <2>2, <2>3, OrderMoves
    <2>5. \A id : ~Holds(queue', id)
        BY <1>5, <2>1
    <2>6. ASSUME NEW a \in Ids, NEW b \in Ids PROVE Before(a, b)'
        <3>1. Before(a, b) /\ Before(Head(todo).id, b) /\ Before(a, Head(todo).id)
            BY <1>3, <2>2
        <3> QED
            BY <2>1, <2>4, <2>5, <3>1, Zenon DEF Before
    <2> QED
        BY <1>2, <2>1, <2>4, <2>6 DEF Ordered
<1>12. CASE Pushes
    <2>1. /\ todo # <<>> /\ queue' = Append(queue, Head(todo)) /\ todo' = Tail(todo)
          /\ OnWire' = OnWire /\ loop' = loop
        BY <1>12 DEF Pushes
    <2>2. Head(todo).id \in Ids
        BY <2>1, Heads
    <2>3. \A a, b \in Ids : Q(a) /\ T(b) => a < b
        BY <1>3 DEF Before
    <2>4. /\ Rising(todo') /\ Rising(queue')
          /\ \A b \in Ids : Holds(todo', b) => Head(todo).id < b
          /\ \A id : T(id) <=> Holds(todo', id) \/ id = Head(todo).id
          /\ \A id : Holds(queue', id) <=> Q(id) \/ id = Head(todo).id
        BY <1>1, <1>2, <2>1, <2>2, <2>3, OrderMoves
    <2>5. ASSUME NEW a \in Ids, NEW b \in Ids PROVE Before(a, b)'
        <3>1. Before(a, b) /\ Before(Head(todo).id, b) /\ Before(a, Head(todo).id)
            BY <1>3, <2>2
        <3> QED
            BY <2>1, <2>4, <3>1, Zenon DEF Before
    <2> QED
        BY <1>2, <2>1, <2>4, <2>5 DEF Ordered
<1>13. CASE Leaves
    <2>1. /\ loop' = loop \o queue /\ queue' = <<>> /\ OnWire' = OnWire /\ todo' = todo
        BY <1>13 DEF Leaves
    <2>2. \A a, b : a # 0 /\ b # 0 /\ Holds(loop, a) /\ Holds(queue, b) => a < b
        <3> SUFFICES ASSUME NEW a, NEW b, a # 0, b # 0, Holds(loop, a), Holds(queue, b) PROVE a < b
            OBVIOUS
        <3>1. a \in Ids /\ b \in Ids
            BY <1>1, HeldIsId
        <3> QED
            BY <1>3, <3>1 DEF Before
    <2>3. Rising(loop') /\ \A id : Holds(loop', id) <=> L(id) \/ Q(id)
        BY <1>1, <1>2, <2>1, <2>2, HoldsConcat
    <2>4. Rising(queue') /\ \A id : ~Holds(queue', id)
        BY <1>5, <2>1
    <2>5. ASSUME NEW a \in Ids, NEW b \in Ids PROVE Before(a, b)'
        BY <1>3, <2>1, <2>3, <2>4, Zenon DEF Before
    <2> QED
        BY <1>2, <2>1, <2>3, <2>4, <2>5 DEF Ordered
<1>14. CASE Loses
    <2>1. loop # <<>> /\ loop' = Tail(loop) /\ OnWire' = OnWire /\ UNCHANGED <<queue, todo>>
        BY <1>14 DEF Loses
    <2>2. Rising(loop') /\ \A id : Holds(loop', id) => L(id)
        BY <1>1, <1>2, <2>1, HoldsTail
    <2>3. ASSUME NEW a \in Ids, NEW b \in Ids PROVE Before(a, b)'
        BY <1>3, <2>1, <2>2, Zenon DEF Before
    <2> QED
        BY <1>2, <2>1, <2>2, <2>3 DEF Ordered
<1>15. CASE Wastes
    <2>1. queue # <<>> /\ queue' = Tail(queue) /\ OnWire' = OnWire /\ UNCHANGED <<loop, todo>>
        BY <1>15 DEF Wastes
    <2>2. Rising(queue') /\ \A id : Holds(queue', id) => Q(id)
        BY <1>1, <1>2, <2>1, HoldsTail
    <2>3. ASSUME NEW a \in Ids, NEW b \in Ids PROVE Before(a, b)'
        BY <1>3, <2>1, <2>2, Zenon DEF Before
    <2> QED
        BY <1>2, <2>1, <2>2, <2>3 DEF Ordered
<1>16. CASE Goes
    <2>1. /\ loop # <<>> /\ Head(loop) \in Sendable
          /\ loop' = Tail(loop) /\ OnWire' = Append(OnWire, Head(loop))
          /\ UNCHANGED <<queue, todo>>
        BY <1>16 DEF Goes
    <2>2. Head(loop).id \in Ids
        BY <2>1, Heads
    <2>3. \A a, b \in Ids : W(a) /\ L(b) => a < b
        BY <1>3 DEF Before
    <2>4. /\ Rising(loop') /\ Rising(OnWire')
          /\ \A b \in Ids : Holds(loop', b) => Head(loop).id < b
          /\ \A id : L(id) <=> Holds(loop', id) \/ id = Head(loop).id
          /\ \A id : Holds(OnWire', id) <=> W(id) \/ id = Head(loop).id
        BY <1>1, <1>2, <2>1, <2>2, <2>3, OrderMoves
    <2>5. ASSUME NEW a \in Ids, NEW b \in Ids PROVE Before(a, b)'
        <3>1. Before(a, b) /\ Before(Head(loop).id, b) /\ Before(a, Head(loop).id)
            BY <1>3, <2>2
        <3> QED
            BY <2>1, <2>4, <3>1, Zenon DEF Before
    <2> QED
        BY <1>2, <2>1, <2>4, <2>5 DEF Ordered
<1>17. CASE Flushes
    <2>1. /\ queue # <<>> /\ queue' = Tail(queue) /\ OnWire' = Append(OnWire, Head(queue))
          /\ UNCHANGED <<loop, todo>>
        BY <1>17 DEF Flushes
    <2>2. Head(queue).id \in Ids
        BY <2>1, Heads
    <2>3. \A a, b \in Ids : W(a) /\ Q(b) => a < b
        BY <1>3 DEF Before
    <2>4. /\ Rising(queue') /\ Rising(OnWire')
          /\ \A b \in Ids : Holds(queue', b) => Head(queue).id < b
          /\ \A id : Q(id) <=> Holds(queue', id) \/ id = Head(queue).id
          /\ \A id : Holds(OnWire', id) <=> W(id) \/ id = Head(queue).id
        BY <1>1, <1>2, <2>1, <2>2, <2>3, OrderMoves
    <2>5. \A id \in Ids : ~L(id)
        <3> SUFFICES ASSUME NEW i \in 1..Len(loop) PROVE loop[i].id = 0
            BY <1>6 DEF Holds
        <3>1. loop[i] \in Loopable
            BY <1>1, ElementOfSeq
        <3>2. loop[i].kind = "leave"
            BY <1>17 DEF Flushes, OnlyIn
        <3> QED
            BY <3>1, <3>2, LoopableIs
    <2>6. ASSUME NEW a \in Ids, NEW b \in Ids PROVE Before(a, b)'
        <3>1. Before(a, b) /\ Before(Head(queue).id, b) /\ Before(a, Head(queue).id)
            BY <1>3, <2>2
        <3> QED
            BY <2>1, <2>4, <2>5, <3>1, Zenon DEF Before
    <2> QED
        BY <1>2, <2>1, <2>4, <2>6 DEF Ordered
<1> QED
    BY <1>7, <1>8, <1>9, <1>10, <1>11, <1>12, <1>13, <1>14, <1>15, <1>16, <1>17 DEF Shape

OrderInv == SocketInv /\ OnceInv /\ DrainInv /\ (Calm => Ordered)

LEMMA OrderInvInductive == Spec => []OrderInv
<1>1. Init => DrainInv /\ Ordered
    <2> SUFFICES ASSUME Init PROVE DrainInv /\ Ordered
        OBVIOUS
    <2>1. /\ Len(loop) = 0 /\ Len(queue) = 0 /\ Len(todo) = 0 /\ Len(wire) = 0 /\ con = "closed"
        BY DEF Init
    <2>2. Len(OnWire) = 0
        BY <2>1, TypedInit, WireIs
    <2>3. /\ Rising(OnWire) /\ Rising(loop) /\ Rising(queue) /\ Rising(todo)
          /\ \A id : ~Holds(OnWire, id) /\ ~Holds(loop, id) /\ ~Holds(queue, id)
        BY <2>1, <2>2, HoldsNone
    <2> QED
        BY <2>1, <2>3 DEF DrainInv, Ordered, Before
<1>2. /\ SocketInv /\ OnceInv /\ SocketInv' /\ OnceInv' /\ DrainInv /\ (Calm => Ordered)
      /\ [Next]_vars
      => DrainInv' /\ (Calm => Ordered)'
    <2> SUFFICES ASSUME SocketInv, OnceInv, SocketInv', OnceInv', DrainInv, Calm => Ordered,
                        [Next]_vars
                 PROVE  DrainInv' /\ (Calm' => Ordered')
        OBVIOUS
    <2>1. /\ Typed /\ Typed' /\ Basics /\ TodoIs /\ TodoIs' /\ Single /\ PunctualInv
        BY DEF SocketInv, OnceInv
    <2>2. DrainInv'
        BY <2>1, DrainStep
    <2>3. ASSUME Calm' PROVE Ordered'
        <3>1. Calm /\ Ordered
            BY <2>3, CasesKept DEF Calm
        <3>2. Shape
            BY <2>1, StepShape
        <3>3. con = "opened" /\ draining => inEmit = "no" /\ OnlyIn(loop, {"leave"})
            BY <3>1 DEF DrainInv
        <3> QED
            BY <2>1, <3>1, <3>2, <3>3, OrderedStep
    <2> QED
        BY <2>2, <2>3
<1> QED
    BY <1>1, <1>2, SocketInvInductive, OnceInvInductive, PTL DEF Spec, OrderInv

(* Messages leave in the order in which they were emitted, unless both     *)
(* threads empty the queue at once or a time-out comes between             *)
(* (send_packet, on_connected; "messages should be processed in order",    *)
(* uwavclient.cpp:562).                                                    *)
THEOREM LeaveInOrder == Spec => []InOrder
<1>1. OrderInv => InOrder
    <2> SUFFICES ASSUME Typed, Calm => Ordered, cases \cap {"races", "slow"} = {},
                        NEW i \in DOMAIN wire, NEW j \in DOMAIN wire, i < j
                 PROVE  wire[i].sent.id < wire[j].sent.id
        BY DEF OrderInv, SocketInv, InOrder
    <2>1. Rising(OnWire)
        BY DEF Calm, Ordered
    <2>2. DOMAIN wire = 1..Len(wire)
        BY LenProperties DEF Typed
    <2>3. /\ OnWire \in Seq(Sendable) /\ Len(OnWire) = Len(wire)
          /\ OnWire[i] = wire[i].sent /\ OnWire[j] = wire[j].sent
        BY <2>2, WireIs
    <2>4. OnWire[i] \in Sendable /\ OnWire[j] \in Sendable
        BY <2>2, <2>3, ElementOfSeq
    <2>5. OnWire[i].id # 0 /\ OnWire[j].id # 0
        BY <2>4 DEF Sendable
    <2> QED
        BY <2>1, <2>2, <2>3, <2>5 DEF Rising
<1> QED
    BY <1>1, OrderInvInductive, PTL

-----------------------------------------------------------------------------
(* The socket is an abstract channel.                                      *)

LEMMA HeldIs ==
    ASSUME NEW S, NEW s \in Seq(S)
    PROVE  \A id : Holds(s, id) <=> \E m \in ToSet(s) : id = m.id
<1>1. DOMAIN s = 1..Len(s)
    BY LenProperties
<1> QED
    BY <1>1 DEF Holds, ToSet

LEMMA MayGoIs ==
    Typed => /\ \A id : id \in MayGo <=> id \in Ids /\ Waits(id)
             /\ MayGo \subseteq Ids
<1> SUFFICES ASSUME Typed, NEW id PROVE id \in MayGo <=> id \in Ids /\ Waits(id)
    OBVIOUS
<1>1. loop \in Seq(Loopable) /\ queue \in Seq(Loopable) /\ todo \in Seq(Loopable)
    BY Heads DEF Loopable
<1>2. id \in MayGo <=> id # 0 /\ Waits(id)
    BY <1>1, HeldIs DEF MayGo, Waits
<1>3. id # 0 /\ Waits(id) => id \in Ids
    BY <1>1, HeldIsId DEF Waits
<1> QED
    BY <1>2, <1>3 DEF Ids

LEMMA MayGoNext == Typed' => \A id : id \in MayGo' <=> id \in Ids /\ Waits(id)'
<1>1. Typed => \A id : id \in MayGo <=> id \in Ids /\ Waits(id)
    BY MayGoIs
<1>2. (Typed => \A id : id \in MayGo <=> id \in Ids /\ Waits(id))'
    BY <1>1, PTL
<1> QED
    BY <1>2

LEMMA GoneStays == OnWire' = OnWire => Gone' = Gone
BY DEF Gone

LEMMA GoneGrows ==
    ASSUME Typed, NEW m \in Sendable, OnWire' = Append(OnWire, m)
    PROVE  Gone' = Append(Gone, m.id)
<1> DEFINE w == OnWire
           x == Append(w, m)
           g == [i \in DOMAIN w |-> w[i].id]
           h == [i \in DOMAIN x |-> x[i].id]
<1>1. w \in Seq(Sendable)
    BY WireIs
<1>2. Gone = g /\ Gone' = h
    BY DEF Gone
<1> HIDE DEF w
<1>3. /\ Len(w) \in Nat /\ DOMAIN w = 1..Len(w)
      /\ \A i \in 1..Len(w) : w[i] \in Sendable
    BY <1>1, LenProperties, ElementOfSeq
<1>4. /\ x \in Seq(Sendable) /\ Len(x) = Len(w) + 1 /\ x[Len(w) + 1] = m
      /\ \A i \in 1..Len(w) : x[i] = w[i]
    BY <1>1, AppendProperties
<1>5. DOMAIN x = 1..(Len(w) + 1)
    BY <1>4, LenProperties
<1> HIDE DEF x
<1>6. m.id \in Nat /\ \A i \in 1..Len(w) : w[i].id \in Nat
    BY <1>3 DEF Sendable
<1>7. g \in Seq(Nat) /\ Len(g) = Len(w) /\ \A i \in 1..Len(w) : g[i] = w[i].id
    <2>1. g = [i \in 1..Len(w) |-> w[i].id]
        BY <1>3
    <2> QED
        BY <1>3, <1>6, <2>1, IsASeq
<1> HIDE DEF g
<1>8. /\ Append(g, m.id) \in Seq(Nat) /\ Len(Append(g, m.id)) = Len(w) + 1
      /\ Append(g, m.id)[Len(w) + 1] = m.id
      /\ \A i \in 1..Len(w) : Append(g, m.id)[i] = w[i].id
    BY <1>6, <1>7, AppendProperties
<1>9. h \in Seq(Nat) /\ Len(h) = Len(w) + 1 /\ \A i \in 1..(Len(w) + 1) : h[i] = x[i].id
    <2>1. h = [i \in 1..(Len(w) + 1) |-> x[i].id]
        BY <1>5
    <2>2. \A i \in 1..(Len(w) + 1) : x[i].id \in Nat
        BY <1>3, <1>4, <1>6
    <2> QED
        BY <1>3, <2>1, <2>2, IsASeq
<1> HIDE DEF h
<1>10. \A i \in 1..(Len(w) + 1) : h[i] = Append(g, m.id)[i]
    BY <1>3, <1>4, <1>8, <1>9
<1>11. h = Append(g, m.id)
    BY <1>8, <1>9, <1>10, SeqEqual
<1> QED
    BY <1>2, <1>11

LEMMA ChannelInits == Init => AbstractChannel!ChannelInit
<1> SUFFICES ASSUME Init PROVE AbstractChannel!ChannelInit
    OBVIOUS
<1>1. Typed /\ Len(wire) = 0 /\ Len(loop) = 0 /\ Len(queue) = 0 /\ Len(todo) = 0
    BY TypedInit DEF Init
<1>2. MayGo = {}
    BY <1>1, MayGoIs, HoldsNone DEF Waits
<1>3. Gone = <<>>
    <2>1. OnWire \in Seq(Sendable) /\ Len(OnWire) = 0
        BY <1>1, WireIs
    <2>2. OnWire = <<>>
        BY <2>1, EmptySeq
    <2> QED
        BY <2>2 DEF Gone
<1>4. emitted = 0 /\ con = "closed"
    BY DEF Init
<1> QED
    BY <1>2, <1>3, <1>4 DEF AbstractChannel!ChannelInit

(* The first of a place is gone from all of them once it has left that     *)
(* one, and if the places follow each other it came before all the rest.   *)
LEMMA HeadGoes ==
    ASSUME Typed, Single, NEW s \in Seq(Loopable), s = loop \/ s = queue,
           s # <<>>, Head(s).id \in Ids
    PROVE  /\ ~Holds(Tail(s), Head(s).id)
           /\ \A id : Holds(s, id) <=> Holds(Tail(s), id) \/ id = Head(s).id
           /\ s = loop => ~Holds(queue, Head(s).id) /\ ~Holds(todo, Head(s).id)
           /\ s = queue => ~Holds(loop, Head(s).id) /\ ~Holds(todo, Head(s).id)
<1>1. /\ OnceIn(s) => OnceIn(Tail(s)) /\ ~Holds(Tail(s), Head(s).id)
      /\ \A id : Holds(s, id) <=> Holds(Tail(s), id) \/ id = Head(s).id
    <2>1. Head(s).id # 0
        BY DEF Ids
    <2> QED
        BY <2>1, HoldsTail
<1>2. OnceIn(s) /\ Alone(Head(s).id) /\ Holds(s, Head(s).id)
    BY <1>1 DEF Single
<1> QED
    BY <1>1, <1>2 DEF Alone

LEMMA LoopFirst ==
    ASSUME Typed, Ordered, loop # <<>>, Head(loop).id \in Ids,
           NEW id \in Ids, Waits(id)
    PROVE  Head(loop).id <= id
<1> DEFINE m == Head(loop).id
<1>1. loop \in Seq(Loopable) /\ m # 0 /\ m \in Nat /\ id # 0 /\ id \in Nat
    BY Heads DEF Ids
<1>2. /\ Holds(loop, m)
      /\ Holds(loop, id) => Holds(Tail(loop), id) \/ id = m
      /\ Holds(Tail(loop), id) => m < id
    BY <1>1, HoldsTail DEF Ordered
<1>3. Holds(queue, id) \/ Holds(todo, id) => m < id
    BY <1>2 DEF Ordered, Before
<1> QED
    BY <1>1, <1>2, <1>3 DEF Waits

LEMMA QueueFirst ==
    ASSUME Typed, Ordered, OnlyIn(loop, {"leave"}), queue # <<>>, Head(queue).id \in Ids,
           NEW id \in Ids, Waits(id)
    PROVE  Head(queue).id <= id
<1> DEFINE m == Head(queue).id
<1>1. /\ queue \in Seq(Sendable) /\ loop \in Seq(Loopable)
      /\ m # 0 /\ m \in Nat /\ id # 0 /\ id \in Nat
    BY Heads DEF Ids
<1>2. /\ Holds(queue, m)
      /\ Holds(queue, id) => Holds(Tail(queue), id) \/ id = m
      /\ Holds(Tail(queue), id) => m < id
    BY <1>1, HoldsTail DEF Ordered
<1>3. ~Holds(loop, id)
    <2> SUFFICES ASSUME NEW i \in 1..Len(loop) PROVE loop[i].id = 0
        BY <1>1 DEF Holds
    <2>1. loop[i] \in Loopable /\ loop[i].kind = "leave"
        BY <1>1, ElementOfSeq DEF OnlyIn
    <2> QED
        BY <2>1, LoopableIs
<1>4. Holds(todo, id) => m < id
    BY <1>2 DEF Ordered, Before
<1> QED
    BY <1>1, <1>2, <1>3, <1>4 DEF Waits

LEMMA ChannelStep ==
    OrderInv /\ OrderInv' /\ [Next]_vars
        => [AbstractChannel!ChannelNext]_(AbstractChannel!channelVars)
<1> SUFFICES ASSUME OrderInv, OrderInv', [Next]_vars
             PROVE  AbstractChannel!ChannelNext \/ UNCHANGED AbstractChannel!channelVars
    OBVIOUS
<1> DEFINE orderly == cases \cap {"races", "slow"} = {}
<1>1. /\ Typed /\ Typed' /\ TodoIs /\ TodoIs' /\ Single /\ DrainInv /\ Shape
      /\ orderly => Ordered
    <2>1. Typed /\ Typed' /\ Basics /\ TodoIs /\ TodoIs' /\ Single /\ DrainInv
        BY DEF OrderInv, OnceInv
    <2>2. orderly => Calm
        BY DEF Calm
    <2> QED
        BY <2>1, <2>2, StepShape DEF OrderInv
<1>2. cases' = cases
    BY CasesKept
<1>3. /\ loop \in Seq(Loopable) /\ queue \in Seq(Sendable) /\ todo \in Seq(Sendable)
      /\ queue \in Seq(Loopable) /\ \A id \in Ids : id # 0
    BY <1>1, Heads DEF Loopable, Ids
<1>4. \A id : id \in MayGo <=> id \in Ids /\ Waits(id)
    BY <1>1, MayGoIs
<1>5. \A id : id \in MayGo' <=> id \in Ids /\ Waits(id)'
    BY <1>1, MayGoNext
<1>6. ASSUME Gone' = Gone, MayGo' = MayGo, emitted' = emitted, con' = con
      PROVE  UNCHANGED AbstractChannel!channelVars
    BY <1>2, <1>6 DEF AbstractChannel!channelVars
<1>7. ASSUME Gone' = Gone, MayGo' \subseteq MayGo, emitted' = emitted,
             con' = "opened" => con = "opened"
      PROVE  AbstractChannel!ChannelNext
    <2>1. AbstractChannel!Drop
        BY <1>2, <1>7 DEF AbstractChannel!Drop
    <2> QED
        BY <2>1 DEF AbstractChannel!ChannelNext
<1>8. ASSUME NEW m \in MayGo, con = "opened", con' = "opened", emitted' = emitted,
             orderly => \A id \in MayGo : m <= id,
             Gone' = Append(Gone, m), MayGo' = MayGo \ {m}
      PROVE  AbstractChannel!ChannelNext
    <2>1. AbstractChannel!Deliver(m)
        BY <1>2, <1>8 DEF AbstractChannel!Deliver
    <2> QED
        BY <2>1 DEF AbstractChannel!ChannelNext
<1>9. CASE Stills
    <2>1. MayGo' = MayGo
        BY <1>3, <1>4, <1>5, <1>9 DEF Stills, Same, Waits
    <2> QED
        BY <1>6, <1>9, <2>1, GoneStays DEF Stills
<1>10. CASE Drops
    <2>1. \A id : ~Holds(<<>>, id)
        BY HoldsNone
    <2>2. MayGo' \subseteq MayGo
        BY <1>3, <1>4, <1>5, <1>10, <2>1 DEF Drops, Same, Waits
    <2> QED
        BY <1>7, <1>10, <2>2, GoneStays DEF Drops
<1>11. CASE Opens
    <2>1. MayGo' = MayGo
        BY <1>4, <1>5, <1>11 DEF Opens, Waits
    <2>2. (Typed => OnWire \in Seq(Sendable))'
        BY WireIs, PTL
    <2>3. OnWire' = <<>>
        BY <1>1, <1>11, <2>2, EmptySeq DEF Opens
    <2>4. Gone' = <<>>
        BY <2>3 DEF Gone
    <2>5. AbstractChannel!NewLink
        BY <1>2, <1>11, <2>1, <2>4 DEF Opens, AbstractChannel!NewLink
    <2> QED
        BY <2>5 DEF AbstractChannel!ChannelNext
<1>12. CASE News
    <2>1. /\ OnWire' = OnWire /\ Same(loop, loop') /\ queue' = queue /\ con' = con
          /\ todo = <<>> /\ Len(todo') \in 1..Greetings /\ emitted' = emitted + Len(todo')
          /\ emitted \in Nat /\ Greetings \in Nat
        BY <1>1, <1>12, Bounds DEF News, Typed
    <2>2. Dropped' = emitted
        BY <2>1 DEF Dropped
    <2>3. \A id \in Ids : Holds(todo', id) <=> id > emitted /\ id <= emitted'
        BY <1>1, <2>2, TodoHoldsNext
    <2>4. \A id : ~Holds(todo, id)
        BY <2>1, HoldsNone
    <2>5. \A id \in Ids : Waits(id)' <=> Waits(id) \/ (id > emitted /\ id <= emitted')
        BY <1>3, <2>1, <2>3, <2>4 DEF Waits, Same
    <2>6. \A id : id \in emitted + 1 .. emitted + Len(todo') <=>
                      id \in Ids /\ id > emitted /\ id <= emitted'
        BY <2>1 DEF Ids
    <2>7. MayGo' = MayGo \cup emitted + 1 .. emitted + Len(todo')
        BY <1>4, <1>5, <2>5, <2>6
    <2>8. AbstractChannel!Give(Len(todo'))
        BY <1>2, <2>1, <2>7, GoneStays DEF AbstractChannel!Give
    <2> QED
        BY <2>1, <2>8 DEF AbstractChannel!ChannelNext
<1>13. CASE Posts
    <2>1. /\ queue # <<>> /\ loop' = Append(loop, Head(queue)) /\ queue' = Tail(queue)
          /\ OnWire' = OnWire /\ UNCHANGED <<todo, emitted, con>>
        BY <1>13 DEF Posts
    <2>2. Head(queue) \in Loopable
        BY <1>1, <2>1, Heads
    <2>3. /\ \A id : Holds(queue, id) <=> Holds(queue', id) \/ id = Head(queue).id
          /\ \A id : Holds(loop', id) <=> Holds(loop, id) \/ id = Head(queue).id
        BY <1>3, <2>1, <2>2, HoldsTail, HoldsAppend
    <2>4. MayGo' = MayGo
        BY <1>4, <1>5, <2>1, <2>3 DEF Waits
    <2> QED
        BY <1>6, <2>1, <2>4, GoneStays
<1>14. CASE Sends
    <2>1. /\ todo # <<>> /\ loop' = Append(loop, Head(todo)) /\ todo' = Tail(todo)
          /\ OnWire' = OnWire /\ UNCHANGED <<queue, emitted, con>>
        BY <1>14 DEF Sends
    <2>2. Head(todo) \in Loopable
        BY <1>1, <2>1, Heads
    <2>3. /\ \A id : Holds(todo, id) <=> Holds(todo', id) \/ id = Head(todo).id
          /\ \A id : Holds(loop', id) <=> Holds(loop, id) \/ id = Head(todo).id
        BY <1>3, <2>1, <2>2, HoldsTail, HoldsAppend
    <2>4. MayGo' = MayGo
        BY <1>4, <1>5, <2>1, <2>3 DEF Waits
    <2> QED
        BY <1>6, <2>1, <2>4, GoneStays
<1>15. CASE Pushes
    <2>1. /\ todo # <<>> /\ queue' = Append(queue, Head(todo)) /\ todo' = Tail(todo)
          /\ OnWire' = OnWire /\ UNCHANGED <<loop, emitted, con>>
        BY <1>15 DEF Pushes
    <2>2. Head(todo) \in Sendable
        BY <1>1, <2>1, Heads
    <2>3. /\ \A id : Holds(todo, id) <=> Holds(todo', id) \/ id = Head(todo).id
          /\ \A id : Holds(queue', id) <=> Holds(queue, id) \/ id = Head(todo).id
        BY <1>3, <2>1, <2>2, HoldsTail, HoldsAppend
    <2>4. MayGo' = MayGo
        BY <1>4, <1>5, <2>1, <2>3 DEF Waits
    <2> QED
        BY <1>6, <2>1, <2>4, GoneStays
<1>16. CASE Leaves
    <2>1. /\ con' = "closing" /\ loop' = loop \o queue /\ queue' = <<>>
          /\ OnWire' = OnWire /\ UNCHANGED <<todo, emitted>>
        BY <1>16 DEF Leaves
    <2>2. \A id : Holds(loop', id) <=> Holds(loop, id) \/ Holds(queue, id)
        BY <1>3, <2>1, HoldsConcat
    <2>3. MayGo' \subseteq MayGo
        BY <1>4, <1>5, <2>1, <2>2, HoldsNone DEF Waits
    <2> QED
        BY <1>7, <2>1, <2>3, GoneStays
<1>17. CASE Loses
    <2>1. /\ loop # <<>> /\ loop' = Tail(loop) /\ OnWire' = OnWire
          /\ UNCHANGED <<queue, todo, emitted, con>>
        BY <1>17 DEF Loses
    <2>2. \A id : Holds(loop', id) => Holds(loop, id)
        BY <1>3, <2>1, HoldsTail
    <2>3. MayGo' \subseteq MayGo
        BY <1>4, <1>5, <2>1, <2>2 DEF Waits
    <2> QED
        BY <1>7, <2>1, <2>3, GoneStays
<1>18. CASE Wastes
    <2>1. /\ queue # <<>> /\ queue' = Tail(queue) /\ OnWire' = OnWire
          /\ UNCHANGED <<loop, todo, emitted, con>>
        BY <1>18 DEF Wastes
    <2>2. \A id : Holds(queue', id) => Holds(queue, id)
        BY <1>3, <2>1, HoldsTail
    <2>3. MayGo' \subseteq MayGo
        BY <1>4, <1>5, <2>1, <2>2 DEF Waits
    <2> QED
        BY <1>7, <2>1, <2>3, GoneStays
<1>19. CASE Goes
    <2>1. /\ con = "opened" /\ con' = con /\ loop # <<>> /\ Head(loop) \in Sendable
          /\ loop' = Tail(loop) /\ OnWire' = Append(OnWire, Head(loop))
          /\ UNCHANGED <<queue, todo, emitted>>
        BY <1>19 DEF Goes
    <2>2. Head(loop).id \in Ids
        BY <1>1, <2>1, Heads
    <2>3. /\ ~Holds(loop', Head(loop).id)
          /\ \A id : Holds(loop, id) <=> Holds(loop', id) \/ id = Head(loop).id
          /\ ~Holds(queue, Head(loop).id) /\ ~Holds(todo, Head(loop).id)
        BY <1>1, <1>3, <2>1, <2>2, HeadGoes
    <2>4. MayGo' = MayGo \ {Head(loop).id} /\ Head(loop).id \in MayGo
        BY <1>4, <1>5, <2>1, <2>2, <2>3 DEF Waits
    <2>5. orderly => \A id \in MayGo : Head(loop).id <= id
        BY <1>1, <1>4, <2>1, <2>2, LoopFirst
    <2>6. Gone' = Append(Gone, Head(loop).id)
        BY <1>1, <2>1, GoneGrows
    <2> QED
        BY <1>8, <2>1, <2>4, <2>5, <2>6
<1>20. CASE Flushes
    <2>1. /\ con = "opened" /\ con' = con /\ draining /\ queue # <<>>
          /\ queue' = Tail(queue) /\ OnWire' = Append(OnWire, Head(queue))
          /\ UNCHANGED <<loop, todo, emitted>>
        BY <1>20 DEF Flushes
    <2>2. Head(queue).id \in Ids /\ Head(queue) \in Sendable
        BY <1>1, <2>1, Heads
    <2>3. /\ ~Holds(queue', Head(queue).id)
          /\ \A id : Holds(queue, id) <=> Holds(queue', id) \/ id = Head(queue).id
          /\ ~Holds(loop, Head(queue).id) /\ ~Holds(todo, Head(queue).id)
        BY <1>1, <1>3, <2>1, <2>2, HeadGoes
    <2>4. MayGo' = MayGo \ {Head(queue).id} /\ Head(queue).id \in MayGo
        BY <1>4, <1>5, <2>1, <2>2, <2>3 DEF Waits
    <2>5. orderly => \A id \in MayGo : Head(queue).id <= id
        <3>1. orderly => OnlyIn(loop, {"leave"})
            BY <1>1, <2>1 DEF DrainInv, Calm
        <3> QED
            BY <1>1, <1>4, <2>1, <2>2, <3>1, QueueFirst
    <2>6. Gone' = Append(Gone, Head(queue).id)
        BY <1>1, <2>1, <2>2, GoneGrows
    <2> QED
        BY <1>8, <2>1, <2>4, <2>5, <2>6
<1> QED
    BY <1>1, <1>9, <1>10, <1>11, <1>12, <1>13, <1>14, <1>15, <1>16, <1>17, <1>18, <1>19, <1>20
    DEF Shape

(* What goes out over the links is what Channel allows, in every set of    *)
(* circumstances: nothing twice, be it on two links; and unless the        *)
(* threads race or a time-out comes between, nothing while an earlier      *)
(* message may still go (send_packet, on_connected, on_disconnect).        *)
THEOREM SocketIsChannel == Spec => ImplementsChannel
    BY ChannelInits, ChannelStep, OrderInvInductive, PTL
    DEF Spec, ImplementsChannel, AbstractChannel!ChannelSpec

=============================================================================
