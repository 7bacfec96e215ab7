------------------------------ MODULE Channel -------------------------------
(***************************************************************************)
(* What the window may expect of socket()->emit (sio/sio_socket.cpp):      *)
(* messages, numbered in the order in which they are given, go out over    *)
(* one link after another.  Some may be dropped, when a link or a socket   *)
(* ends; but none goes out twice, be it on two links, and on an orderly    *)
(* channel none goes out while an earlier one still waits.                 *)
(***************************************************************************)
EXTENDS Naturals, Sequences

CONSTANT AtOnce       \* how many messages the window may give in one go

VARIABLES given,      \* how many messages the window has given
          waiting,    \* those of them that have not gone out and may
          arrived,    \* those that went out on this link, in their order
          up,         \* there is a link
          orderly     \* never changes: nothing overtakes what waits

channelVars == <<given, waiting, arrived, up, orderly>>

ChannelInit ==
    /\ given = 0 /\ waiting = {} /\ arrived = <<>>
    /\ up = FALSE
    /\ orderly \in BOOLEAN

Give(n) ==
    /\ given' = given + n
    /\ waiting' = waiting \cup given + 1 .. given + n
    /\ UNCHANGED <<arrived, up, orderly>>

Deliver(m) ==
    /\ up /\ m \in waiting
    /\ orderly => \A other \in waiting : m <= other
    /\ arrived' = Append(arrived, m) /\ waiting' = waiting \ {m}
    /\ UNCHANGED <<given, up, orderly>>

(* With a link, with a socket, or where there is none to send on.          *)
Drop ==
    /\ waiting' \subseteq waiting
    /\ up' \in BOOLEAN /\ (up' => up)
    /\ UNCHANGED <<given, arrived, orderly>>

(* What waits, waits for the next link.                                    *)
NewLink ==
    /\ ~up /\ up' = TRUE
    /\ arrived' = <<>>
    /\ UNCHANGED <<given, waiting, orderly>>

ChannelNext ==
    \/ \E n \in 1..AtOnce : Give(n)
    \/ \E m \in waiting : Deliver(m)
    \/ Drop
    \/ NewLink

ChannelSpec == ChannelInit /\ [][ChannelNext]_channelVars

=============================================================================
