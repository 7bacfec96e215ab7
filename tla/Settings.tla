------------------------------ MODULE Settings ------------------------------
(***************************************************************************)
(* What the window shows and what the server has: sliders, check boxes,    *)
(* the combo boxes for the model and the compute device, and the settings  *)
(* the server stores for the client (uwavclient.cpp).                      *)
(*                                                                         *)
(* A slider has positions 0..Top.  Four sliders stand for the nine: pitch  *)
(* (sent as it is: both gains, crossfade, formant), chunk (rounded to a    *)
(* multiple of Step: chunk, extra), gate (position 0 means Off) and match  *)
(* (sent as a fraction).  One check box stands for four.                   *)
(***************************************************************************)
EXTENDS Naturals, Sequences

CONSTANTS Top,         \* the highest position
          Step,        \* chunk lengths are multiples of it
          Short,       \* positions whose fraction is cut to the position below
          Sessions,    \* sets of Controls and Circumstances: a behaviour has those
                       \* of one of them
          MaxLinks,    \* bound: links that open in one behaviour
          MaxMoves,    \* bound: times the user changes something
          MaxUp        \* bound: messages on their way up when the user acts

Sliders == {"pitch", "chunk", "gate", "match"}
Combos == {"model", "compute"}
Controls == Sliders \union Combos \union {"check"}

(* hasty: the user acts while the window waits for the stored settings.    *)
(* keys:  sliders are moved with the keyboard, the wheel or a click beside *)
(*        the handle.                                                      *)
(* resize: the chunk slider is moved during a conversion.                  *)
(* late:  the microphone is chosen or unplugged on the way.                *)
(* lists: the next server, or the same one later, offers other models than *)
(*        the last, and may have one stored that it does not offer.        *)
Circumstances == {"hasty", "keys", "resize", "late", "lists"}

ASSUME SettingsAssumption ==
    /\ Top \in Nat \ {0} /\ Step \in Nat \ {0} /\ Top % Step = 0
    /\ Short \subseteq 1..Top
    /\ {MaxLinks, MaxMoves, MaxUp} \subseteq Nat
    /\ \A set \in Sessions : set \subseteq Controls \union Circumstances

VARIABLES pos,          \* what each control shows
          held,         \* the slider the mouse holds
          recent,       \* less than 0.4 s since lastSliderUpdateTime
          enabled,      \* the controls are enabled
          opened,       \* sioClient.opened()
          up,           \* messages on their way to the server
          down,         \* what is on its way to the window, signals included
          stored,       \* the server's settings for this client
          offers,       \* the models and the compute devices of the server
          mic, gate,    \* an input device is active; gateRMS
          items, saved, \* of each combo box: its entries, and config.modelName
                        \* or config.inferDevice, None if empty
          length,       \* chunkSize of the conversion, None without one
          serverLength, \* the server's chunk length in a conversion
          links, moves, \* history: for the bounds
          controls, cases  \* never change

handVars == <<held, recent>>
audioVars == <<mic, gate>>
listVars == <<items, saved>>
lengthVars == <<length, serverLength>>
fixed == <<controls, cases>>
serverVars == <<stored, offers>>
vars == <<pos, handVars, enabled, opened, up, down, serverVars, audioVars, listVars, lengthVars,
          links, moves, fixed>>

-----------------------------------------------------------------------------
None == Top + 2   \* nothing selected, no conversion
Off == Top + 1    \* 0 dBFS: above every position of the gate

Rounded(p) == ((2 * p + Step) \div (2 * Step)) * Step

(* What a handler sends for a position.                                    *)
Encode(c, p) ==
    CASE c = "chunk" -> Rounded(p)
      [] c = "gate" -> IF p = 0 THEN Off ELSE p
      [] OTHER -> p

(* Where SET_PARAMS puts a slider.  setValue clamps.                       *)
Recall(c, v) ==
    CASE c = "gate" /\ v = Off -> Top
      [] c = "match" /\ v \in Short -> v - 1
      [] OTHER -> v

Positions(c) ==
    CASE c = "check" -> {0, 1}
      [] c \in Combos -> 1..Top
      [] OTHER -> 0..Top

Values(c) ==
    {Encode(c, p) : p \in Positions(c)} \union (IF c = "model" THEN {None} ELSE {})

Stores == {s \in [controls -> UNION {Values(c) : c \in controls}] :
               \A c \in controls : s[c] \in Values(c)}

Lists == [controls \intersect Combos -> SUBSET (1..Top)]

(* The server has a model loaded that it offers, or none.                  *)
Loaded == "model" \in controls /\ "lists" \notin cases =>
              stored["model"] \in offers["model"] \union {None}

Message(what, c, v) == [what |-> what, of |-> c, value |-> v]
Signal(what, values) == [what |-> what, values |-> values]

(* EmitInteger, EmitDouble, EmitBoolean: only on a connection.             *)
Sent(messages) == IF opened THEN up \o messages ELSE up
Update(c, v) == <<Message("update", c, v)>>

(* The stored settings of this link have not been shown yet.               *)
Awaiting ==
    /\ opened
    /\ \/ \E k \in DOMAIN up : up[k].what = "get_params"
       \/ \E k \in DOMAIN down : down[k].what \in {"open", "params"}

Init ==
    /\ \E set \in Sessions :
           controls = set \intersect Controls /\ cases = set \intersect Circumstances
    /\ pos = [c \in controls |-> IF c \in Combos THEN None ELSE 0]
    /\ held = "none" /\ recent = TRUE
    /\ enabled = FALSE /\ opened = FALSE
    /\ up = <<>> /\ down = <<>>
    /\ stored \in Stores /\ offers \in Lists /\ Loaded
    /\ mic = ("late" \notin cases)
    /\ gate = Off
    /\ items = [c \in controls \intersect Combos |-> {}]
    /\ saved \in [controls \intersect Combos -> (1..Top) \union {None}]
    /\ length = None /\ serverLength = None
    /\ links = 0 /\ moves = 0

-----------------------------------------------------------------------------
(* The user.                                                               *)

Acts(c) ==
    /\ enabled /\ moves < MaxMoves /\ Len(up) < MaxUp
    /\ Awaiting => "hasty" \in cases
    /\ c = "chunk" /\ length # None => "resize" \in cases

(* audio->SetInputGate, which the handlers call if a device is active.     *)
SetGate(c, p) == gate' = IF c = "gate" /\ mic THEN Encode(c, p) ELSE gate

Press(c) ==
    /\ Acts(c) /\ held = "none"
    /\ held' = c /\ recent' = TRUE
    /\ UNCHANGED <<pos, enabled, opened, up, down, serverVars, audioVars, listVars, lengthVars,
                   links, moves, fixed>>

(* The mouse moves, sliderMoved: told at most every 0.4 s.                 *)
Drag(c, p) ==
    /\ Acts(c) /\ held = c /\ p # pos[c]
    /\ pos' = [pos EXCEPT ![c] = p]
    /\ SetGate(c, p)
    /\ IF recent THEN UNCHANGED <<up, recent>>
       ELSE up' = Sent(Update(c, Encode(c, p))) /\ recent' = TRUE
    /\ moves' = moves + 1
    /\ UNCHANGED <<held, enabled, opened, down, serverVars, mic, listVars, lengthVars, links, fixed>>

Elapse ==
    /\ recent /\ held # "none"
    /\ recent' = FALSE
    /\ UNCHANGED <<pos, held, enabled, opened, up, down, serverVars, audioVars, listVars, lengthVars,
                   links, moves, fixed>>

LetGo(c) == IF c = "chunk" THEN [pos EXCEPT ![c] = Rounded(@)] ELSE pos

(* Mutant: the last value is told only if the last message is long ago.    *)
ReleaseIfRested(c) ==
    /\ held = c /\ (Awaiting => "hasty" \in cases)
    /\ held' = "none"
    /\ pos' = LetGo(c)
    /\ SetGate(c, pos[c])
    /\ up' = IF recent THEN up ELSE Sent(Update(c, Encode(c, pos[c])))
    /\ UNCHANGED <<recent, enabled, opened, down, serverVars, mic, listVars, lengthVars,
                   links, moves, fixed>>

(* Mutant: the slider stays where the mouse left it.                       *)
ReleaseUnrounded(c) ==
    /\ held = c /\ (Awaiting => "hasty" \in cases)
    /\ held' = "none"
    /\ SetGate(c, pos[c])
    /\ up' = Sent(Update(c, Encode(c, pos[c])))
    /\ UNCHANGED <<pos, recent, enabled, opened, down, serverVars, mic, listVars, lengthVars,
                   links, moves, fixed>>

(* sliderReleased: the last value is always told.                          *)
Release(c) ==
    /\ held = c /\ (Awaiting => "hasty" \in cases)
    /\ held' = "none"
    /\ pos' = LetGo(c)
    /\ SetGate(c, pos[c])
    /\ up' = Sent(Update(c, Encode(c, pos[c])))
    /\ UNCHANGED <<recent, enabled, opened, down, serverVars, mic, listVars, lengthVars,
                   links, moves, fixed>>

(* Keyboard, wheel: no slot is connected to valueChanged.                  *)
Key(c, p) ==
    /\ "keys" \in cases /\ Acts(c) /\ held = "none" /\ p # pos[c]
    /\ pos' = [pos EXCEPT ![c] = p]
    /\ moves' = moves + 1
    /\ UNCHANGED <<handVars, enabled, opened, up, down, serverVars, audioVars, listVars, lengthVars,
                   links, fixed>>

(* A box toggled, a model or a compute device picked from the list shown.  *)
Pick(c, p) ==
    /\ Acts(c) /\ held = "none" /\ p # pos[c]
    /\ c \in Combos => p \in items[c]
    /\ pos' = [pos EXCEPT ![c] = p]
    /\ up' = Sent(Update(c, p))
    /\ moves' = moves + 1
    /\ UNCHANGED <<handVars, enabled, opened, down, serverVars, audioVars, listVars, lengthVars,
                   links, fixed>>

(* The microphone is chosen, or goes: SetActiveInput.                      *)
ChooseInput ==
    /\ "late" \in cases /\ "gate" \in controls /\ moves < MaxMoves
    /\ mic' = ~mic
    /\ moves' = moves + 1
    /\ UNCHANGED <<pos, handVars, enabled, opened, up, down, serverVars, gate, listVars, lengthVars,
                   links, fixed>>

(* Start, and the streams are up: on_AudioStreamSuccess takes the slider's *)
(* own value.  The last SERVER_STARTED is handled by then: the button is   *)
(* enabled again by SERVER_STOPPED, which follows it.                      *)
StartConversion ==
    /\ "chunk" \in controls /\ enabled /\ length = None /\ Len(up) < MaxUp
    /\ Awaiting => "hasty" \in cases
    /\ held = "none" \/ "resize" \in cases
    /\ \A k \in DOMAIN down : down[k].what # "started"
    /\ length' = pos["chunk"]
    /\ up' = Sent(<<Message("start", "chunk", 0)>>)
    /\ UNCHANGED <<pos, handVars, enabled, opened, down, serverVars, audioVars, listVars,
                   serverLength, links, moves, fixed>>

StopConversion ==
    /\ length # None /\ enabled /\ held = "none" /\ Len(up) < MaxUp
    /\ length' = None
    /\ up' = Sent(<<Message("stop", "chunk", 0)>>)
    /\ UNCHANGED <<pos, handVars, enabled, opened, down, serverVars, audioVars, listVars,
                   serverLength, links, moves, fixed>>

-----------------------------------------------------------------------------
(* The window's handlers.                                                  *)

(* Mutant: the settings are asked for only if the controls are locked.     *)
OnOpenIfLocked ==
    /\ down # <<>> /\ Head(down).what = "open"
    /\ down' = Tail(down)
    /\ up' = IF enabled THEN up
             ELSE Sent(<<Message("get_params", "-", 0), Message("get_models", "-", 0),
                         Message("get_compute", "-", 0)>>)
    /\ UNCHANGED <<pos, handVars, enabled, opened, serverVars, audioVars, listVars, lengthVars,
                   links, moves, fixed>>

(* onSioSocketOpen.                                                        *)
OnOpen ==
    /\ down # <<>> /\ Head(down).what = "open"
    /\ down' = Tail(down)
    /\ up' = Sent(<<Message("get_params", "-", 0), Message("get_models", "-", 0),
                    Message("get_compute", "-", 0)>>)
    /\ UNCHANGED <<pos, handVars, enabled, opened, serverVars, audioVars, listVars, lengthVars,
                   links, moves, fixed>>

(* The model the server names is selected if it is among those listed,     *)
(* which may be those of the last server, and that counts as a choice of   *)
(* the user's.  The compute device is not looked at.                       *)
Shown(values) ==
    [c \in controls |->
         IF c \in Combos
         THEN (IF c = "model" /\ values[c] \in items[c] THEN values[c] ELSE pos[c])
         ELSE Recall(c, values[c])]

(* on_comboModel_currentIndexChanged.  The box is emptied unheard.         *)
Echo(before, after) ==
    IF "model" \in controls /\ after["model"] \notin {before["model"], None}
    THEN Sent(Update("model", after["model"])) ELSE up

(* Mutant: the sliders are set and nothing is called.                      *)
OnParamsSilent ==
    /\ down # <<>> /\ Head(down).what = "params"
    /\ down' = Tail(down)
    /\ pos' = Shown(Head(down).values)
    /\ up' = Echo(pos, pos')
    /\ recent' = TRUE
    /\ enabled' = TRUE
    /\ UNCHANGED <<held, opened, serverVars, audioVars, listVars, lengthVars, links, moves, fixed>>

(* SET_PARAMS: each slider is set and its sliderMoved called, the clock    *)
(* just reset.                                                             *)
OnParams ==
    /\ down # <<>> /\ Head(down).what = "params"
    /\ down' = Tail(down)
    /\ pos' = Shown(Head(down).values)
    /\ up' = Echo(pos, pos')
    /\ gate' = IF "gate" \in controls /\ mic THEN Encode("gate", pos'["gate"]) ELSE gate
    /\ recent' = TRUE
    /\ enabled' = TRUE
    /\ UNCHANGED <<held, opened, serverVars, mic, listVars, lengthVars, links, moves, fixed>>

(* What a list begins with.                                                *)
First(list) == CHOOSE p \in list : TRUE

(* LIST_MODELS: what is selected stays if the new list has it; else the    *)
(* saved model is taken if the list has that; the first only if none is    *)
(* saved.                                                                  *)
ModelOf(list) ==
    CASE pos["model"] \in list -> pos["model"]
      [] pos["model"] \notin list /\ saved["model"] \in list -> saved["model"]
      [] pos["model"] \notin list /\ saved["model"] = None /\ list # {} -> First(list)
      [] OTHER -> None

(* What was selected is selected again unheard; another model is told.     *)
OnModels ==
    /\ down # <<>> /\ Head(down).what = "models"
    /\ down' = Tail(down)
    /\ IF "model" \in controls
       THEN /\ items' = [items EXCEPT !["model"] = Head(down).values["model"]]
            /\ pos' = [pos EXCEPT !["model"] = ModelOf(Head(down).values["model"])]
       ELSE UNCHANGED <<items, pos>>
    /\ up' = Echo(pos, pos')
    /\ UNCHANGED <<handVars, enabled, opened, serverVars, audioVars, saved, lengthVars,
                   links, moves, fixed>>

DeviceOf(list) ==
    CASE saved["compute"] \in list -> saved["compute"]
      [] saved["compute"] \notin list /\ list # {} -> First(list)
      [] OTHER -> None

(* LIST_COMPUTE: the saved device or the first, and nobody is told.        *)
OnCompute ==
    /\ down # <<>> /\ Head(down).what = "compute"
    /\ down' = Tail(down)
    /\ IF "compute" \in controls
       THEN /\ items' = [items EXCEPT !["compute"] = Head(down).values["compute"]]
            /\ pos' = [pos EXCEPT !["compute"] = DeviceOf(Head(down).values["compute"])]
       ELSE UNCHANGED <<items, pos>>
    /\ UNCHANGED <<handVars, enabled, opened, up, serverVars, audioVars, saved, lengthVars,
                   links, moves, fixed>>

(* SERVER_STARTED saves what is selected, unless Save ends early or finds  *)
(* no line for it in client.conf (see ConfigFile).                         *)
OnStarted ==
    /\ down # <<>> /\ Head(down).what = "started"
    /\ down' = Tail(down)
    /\ \/ saved' = [c \in DOMAIN saved |-> IF pos[c] = None THEN saved[c] ELSE pos[c]]
       \/ UNCHANGED saved
    /\ UNCHANGED <<pos, handVars, enabled, opened, up, serverVars, audioVars, items, lengthVars,
                   links, moves, fixed>>

(* ui_ServerDisconnect: a slider that is disabled lets go, unheard.        *)
Locked ==
    /\ enabled' = FALSE /\ length' = None
    /\ held' = "none" /\ pos' = IF held = "none" THEN pos ELSE LetGo(held)

GiveUp ==
    /\ ~opened /\ enabled
    /\ Locked
    /\ UNCHANGED <<recent, opened, up, down, serverVars, audioVars, listVars, serverLength,
                   links, moves, fixed>>

-----------------------------------------------------------------------------
(* The server and the link.                                                *)

(* A model it does not offer is not loaded (MODEL_LOAD_FAIL, which the     *)
(* window passes over).                                                    *)
Accepts(m) == m.what = "update" /\ (m.of = "model" => m.value \in offers["model"])

ServerReceives ==
    /\ up # <<>> /\ up' = Tail(up)
    /\ LET m == Head(up)
       IN /\ stored' = IF Accepts(m) THEN [stored EXCEPT ![m.of] = m.value] ELSE stored
          /\ serverLength' = CASE m.what = "start" -> stored["chunk"]
                               [] m.what = "stop" -> None
                               [] OTHER -> serverLength
          /\ down' = CASE m.what = "get_params" -> Append(down, Signal("params", stored))
                       [] m.what = "get_models" -> Append(down, Signal("models", offers))
                       [] m.what = "get_compute" -> Append(down, Signal("compute", offers))
                       [] m.what = "start" -> Append(down, Signal("started", <<>>))
                       [] OTHER -> down
    /\ UNCHANGED <<pos, handVars, enabled, opened, offers, audioVars, listVars, length,
                   links, moves, fixed>>

(* What is on its way up is lost; of what is on its way down, what has not *)
(* reached the queue of the main thread.                                   *)
Lost ==
    /\ opened' = FALSE /\ up' = <<>> /\ serverLength' = None
    /\ \E k \in 0..Len(down) : down' = SubSeq(down, 1, k)

Drop ==
    /\ opened /\ Lost
    /\ UNCHANGED <<pos, handVars, enabled, serverVars, audioVars, listVars, length,
                   links, moves, fixed>>

(* The user's Disconnect or SERVER_EXITING.                                *)
Disconnect ==
    /\ opened /\ enabled /\ Lost /\ Locked
    /\ UNCHANGED <<recent, serverVars, audioVars, listVars, links, moves, fixed>>

(* A new connection, maybe to another server, or the client's own          *)
(* reconnection, which leaves the controls as they are.                    *)
Open ==
    /\ ~opened /\ links < MaxLinks
    /\ opened' = TRUE /\ links' = links + 1
    /\ down' = Append(down, Signal("open", <<>>))
    /\ UNCHANGED stored \/ (~enabled /\ stored' \in Stores)
    /\ UNCHANGED offers \/ ("lists" \in cases /\ offers' \in Lists)
    /\ UNCHANGED <<pos, handVars, enabled, up, audioVars, listVars, lengthVars, moves, fixed>>
    /\ Loaded'

User ==
    \/ \E c \in controls \intersect Sliders :
           Press(c) \/ Release(c) \/ \E p \in Positions(c) : Drag(c, p) \/ Key(c, p)
    \/ \E c \in controls \ Sliders : \E p \in Positions(c) : Pick(c, p)
    \/ ChooseInput \/ StartConversion \/ StopConversion

Window == OnOpen \/ OnParams \/ OnModels \/ OnCompute \/ OnStarted \/ GiveUp \/ Disconnect
Outside == Elapse \/ ServerReceives \/ Drop \/ Open

Next == User \/ Window \/ Outside

(* Qt handles what is queued; the server receives what is sent.  The link  *)
(* and the user owe nothing.                                               *)
Fairness ==
    /\ WF_vars(OnOpen \/ OnParams \/ OnModels \/ OnCompute \/ OnStarted)
    /\ WF_vars(ServerReceives)

Spec == Init /\ [][Next]_vars
FairSpec == Spec /\ Fairness

-----------------------------------------------------------------------------
Placed ==
    /\ DOMAIN pos = controls
    /\ \A c \in controls :
           pos[c] \in Positions(c) \union (IF c \in Combos THEN {None} ELSE {})

Handed ==
    /\ held \in (controls \intersect Sliders) \union {"none"}
    /\ held # "none" => enabled

Lengths == length \in (0..Top) \union {None} /\ serverLength \in (0..Top) \union {None}

Counts == links \in 0..MaxLinks /\ moves \in 0..MaxMoves

Listed ==
    /\ offers \in Lists /\ items \in Lists
    /\ saved \in [controls \intersect Combos -> (1..Top) \union {None}]

TypeOK ==
    Placed /\ Handed /\ Lengths /\ Counts /\ Listed /\ stored \in Stores /\ gate \in 1..Off

(* Nothing is on its way, and the user holds nothing.                      *)
Settled == opened /\ enabled /\ up = <<>> /\ down = <<>> /\ held = "none"

Shows(c) == Encode(c, pos[c]) = stored[c]

(* Of the models in the list the window wants none: the saved one is not   *)
(* among them, and it shows none.                                          *)
WantsNone == pos["model"] = None /\ saved["model"] \notin offers["model"] \union {None}

(* What the window is known not to show: see the findings.                 *)
Excused(c) ==
    \/ c = "compute"
    \/ c \in Sliders /\ "keys" \in cases
    \/ c # "model" /\ "hasty" \in cases
    \/ c = "model" /\ (stored[c] = None \/ "lists" \in cases \/ WantsNone)
    \/ Encode(c, Recall(c, stored[c])) # stored[c]

(* What is shown in a combo box is on offer at this server, or nothing is. *)
Right(c) ==
    /\ Excused(c) \/ Shows(c)
    /\ c \in Combos => pos[c] \in offers[c] \union {None}

(* When nothing moves, each control shows the value the server works with, *)
(* though most positions of a drag are never sent, messages are lost with  *)
(* their link, controls are moved while there is none, and answers of one  *)
(* link are handled on the next (uwavclient.cpp:1765-2130, 748-862).  A    *)
(* combo box shows nothing this server does not offer, though its list is  *)
(* the last server's until the new one comes, and may be picked from       *)
(* (955-1030, 1063-1099).                                                  *)
WindowShowsStored == Settled => \A c \in controls : Right(c)

(* And it comes to that: on a link that stays, once the user lets go of    *)
(* the slider, the controls are unlocked and show what the server has,     *)
(* though answers of the last link may be handled first and an answer may  *)
(* make the window send again (onSioSocketOpen, uwavclient.cpp:546-579).   *)
ShownAtLast ==
    opened ~> \/ ~opened \/ held # "none"
              \/ enabled /\ \A c \in controls : Right(c)

(* While the server converts, the client cuts its input into chunks of the *)
(* server's length: the slider gives it the rounded value that was sent    *)
(* (uwavclient.cpp:1539, 1907-1917; onSamplesReceived stops a conversion   *)
(* with other lengths).                                                    *)
LengthsAgree ==
    /\ up = <<>> /\ serverLength # None /\ length # None
    /\ cases \intersect {"hasty", "keys", "resize"} = {}
    => serverLength = length

GateHeard == Settled /\ mic /\ "gate" \in controls => gate = Encode("gate", pos["gate"])

(* The gate of the audio thread is the one the slider shows, whoever set   *)
(* it and whatever the link did (uwavclient.cpp:822, 2047-2101).  With     *)
(* "late" the handlers may have found no device to set it for.             *)
GateIsShown == cases \intersect {"keys", "late"} = {} => GateHeard

(* Expected to fail: the stored settings, once shown, are shown as they    *)
(* are stored.                                                             *)
AllShown == Settled => \A c \in controls : Shows(c)

(* Expected to fail: the model the server has, of those it offers, is      *)
(* selected.                                                               *)
ModelShown == Settled /\ stored["model"] \in offers["model"] => Shows("model")

(* Expected to fail: the model that is selected is the one the server has. *)
ModelUsed ==
    Settled /\ stored["model"] \in offers["model"] /\ pos["model"] # None => Shows("model")

=============================================================================
