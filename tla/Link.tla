-------------------------------- MODULE Link --------------------------------
(***************************************************************************)
(* What the websocket client promises the rest of the program: one         *)
(* connection at a time; a bounded number of attempts after each loss; and *)
(* word of every end, in order, to the window.                             *)
(***************************************************************************)
EXTENDS Naturals, Sequences

CONSTANT Attempts

VARIABLES link,      \* "idle", "trying", "up", or "waiting" for the next attempt
          tries,     \* attempts of its own since it was told to connect, or connected
          greeted,   \* the server has answered on this connection
          ending,    \* the client has been told to end it
          signals    \* on their way to the window

vars == <<link, tries, greeted, ending, signals>>

Init ==
    /\ link = "idle" /\ tries = 0
    /\ greeted = FALSE /\ ending = FALSE
    /\ signals = <<>>

Signal(s) == signals' = Append(signals, s)

Connect ==
    /\ link = "idle" /\ link' = "trying"
    /\ tries' = 0 /\ ending' = FALSE
    /\ UNCHANGED <<greeted, signals>>

Opens ==
    /\ link = "trying" /\ link' = "up"
    /\ tries' = 0 /\ greeted' = FALSE
    /\ Signal("open")
    /\ UNCHANGED ending

Greets ==
    /\ link = "up" /\ ~greeted
    /\ greeted' = TRUE
    /\ Signal("params")
    /\ UNCHANGED <<link, tries, ending>>

(* A connection, or an attempt, is over: there will be another attempt, or *)
(* the window is told.  Only an attempt that was to end says nothing.      *)
Ends(signal) ==
    /\ UNCHANGED <<tries, greeted>>
    /\ \/ /\ link' = "waiting" /\ tries < Attempts /\ ~ending
          /\ UNCHANGED <<ending, signals>>
       \/ /\ link' = "idle"
          /\ Signal(signal)
          /\ ending' \in {ending, FALSE}

Closes == link = "up" /\ Ends("close")

Fails ==
    /\ link = "trying"
    /\ \/ Ends("fail")
       \/ ending /\ link' = "idle" /\ UNCHANGED <<tries, greeted, ending, signals>>

Retries ==
    /\ link = "waiting" /\ link' = "trying"
    /\ ~ending /\ tries < Attempts /\ tries' = tries + 1
    /\ Signal("retry")
    /\ UNCHANGED <<greeted, ending>>

GivesUp ==
    /\ link = "waiting" /\ link' = "idle"
    /\ UNCHANGED <<tries, greeted, ending, signals>>

End ==
    /\ ending' = TRUE
    /\ UNCHANGED <<link, tries, greeted, signals>>

Heard ==
    /\ signals # <<>> /\ signals' = Tail(signals)
    /\ UNCHANGED <<link, tries, greeted, ending>>

Next ==
    \/ Connect \/ Opens \/ Greets \/ Closes \/ Fails \/ Retries \/ GivesUp
    \/ End \/ Heard

Spec == Init /\ [][Next]_vars

=============================================================================
