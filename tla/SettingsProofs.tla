--------------------------- MODULE SettingsProofs ---------------------------
(***************************************************************************)
(* For every range of the sliders, any number of links and any number of   *)
(* moves: the gate the audio thread uses is the one its slider shows; the  *)
(* types; when nothing moves the window shows what the server stores; and  *)
(* a conversion has one chunk length on both sides.                        *)
(***************************************************************************)
EXTENDS Settings, SequenceTheorems, TLAPS

(* Unless the keyboard moves it unheard, or there is no device to set it   *)
(* for, whoever moves the slider sets the gate in the same step.           *)
GateFollows ==
    /\ DOMAIN pos = controls
    /\ cases \intersect {"keys", "late"} = {} =>
          mic /\ ("gate" \in controls => gate = Encode("gate", pos["gate"]))

(* The slider moves and the gate with it.                                  *)
LEMMA SetStep ==
    ASSUME GateFollows, UNCHANGED fixed, mic' = mic, NEW c, NEW p,
           pos' = [pos EXCEPT ![c] = p], SetGate(c, p)
    PROVE  GateFollows'
    BY DEF GateFollows, fixed, SetGate, Encode

(* Neither moves.                                                          *)
LEMMA StillStep ==
    ASSUME GateFollows, UNCHANGED fixed, mic' = mic, gate' = gate,
           DOMAIN pos' = controls, "gate" \in controls => pos'["gate"] = pos["gate"]
    PROVE  GateFollows'
    BY DEF GateFollows, fixed, Encode

(* The mouse lets a slider go, or is made to.                              *)
LEMMA LetGoSame ==
    ASSUME GateFollows, NEW c
    PROVE  /\ DOMAIN LetGo(c) = controls
           /\ "gate" \in controls => LetGo(c)["gate"] = pos["gate"]
    BY DEF GateFollows, LetGo

LEMMA GateStep == GateFollows /\ [Next]_vars => GateFollows'
<1> SUFFICES ASSUME GateFollows, [Next]_vars PROVE GateFollows'
    OBVIOUS
<1> USE DEF handVars, audioVars, listVars, lengthVars
<1>1. ASSUME NEW c \in controls, Press(c) PROVE GateFollows'
    BY <1>1, StillStep DEF Press, fixed, GateFollows
<1>2. ASSUME NEW c \in controls, Release(c) PROVE GateFollows'
    <2>1. UNCHANGED <<mic, fixed>> /\ pos' = LetGo(c) /\ SetGate(c, pos[c])
        BY <1>2 DEF Release
    <2>2. CASE c = "gate"
        <3>1. pos' = pos
            BY <2>1, <2>2 DEF LetGo
        <3> QED
            BY <2>1, <2>2, <3>1 DEF GateFollows, fixed, SetGate, Encode
    <2>3. CASE c # "gate"
        <3>1. gate' = gate
            BY <2>1, <2>3 DEF SetGate
        <3> QED
            BY <2>1, <3>1, LetGoSame, StillStep
    <2> QED
        BY <2>2, <2>3
<1>3. ASSUME NEW c \in controls, NEW p \in Positions(c), Drag(c, p) PROVE GateFollows'
    BY <1>3, SetStep DEF Drag
<1>4. ASSUME NEW c \in controls, NEW p \in Positions(c), Key(c, p) PROVE GateFollows'
    BY <1>4 DEF Key, GateFollows, fixed
<1>5. ASSUME NEW c \in controls \ Sliders, NEW p \in Positions(c), Pick(c, p) PROVE GateFollows'
    BY <1>5, StillStep DEF Pick, GateFollows, Sliders
<1>6. CASE ChooseInput
    BY <1>6 DEF ChooseInput, GateFollows, fixed
<1>7. CASE StartConversion \/ StopConversion
    BY <1>7, StillStep DEF StartConversion, StopConversion, GateFollows
<1>8. CASE OnOpen
    BY <1>8, StillStep DEF OnOpen, GateFollows
<1>9. CASE OnParams
    <2>1. /\ UNCHANGED <<mic, fixed>> /\ DOMAIN pos' = controls
          /\ gate' = IF "gate" \in controls /\ mic THEN Encode("gate", pos'["gate"]) ELSE gate
        BY <1>9 DEF OnParams, Shown
    <2> QED
        BY <2>1 DEF GateFollows, fixed, Encode
<1>10. CASE OnModels \/ OnCompute \/ OnStarted
    <2>1. UNCHANGED <<mic, gate, fixed>>
        BY <1>10 DEF OnModels, OnCompute, OnStarted
    <2>2. DOMAIN pos' = controls /\ ("gate" \in controls => pos'["gate"] = pos["gate"])
        BY <1>10 DEF OnModels, OnCompute, OnStarted, GateFollows
    <2> QED
        BY <2>1, <2>2, StillStep
<1>11. CASE GiveUp \/ Disconnect
    <2>1. UNCHANGED <<mic, gate, fixed>> /\ pos' \in {pos, LetGo(held)}
        BY <1>11 DEF GiveUp, Disconnect, Locked
    <2> QED
        BY <2>1, LetGoSame, StillStep DEF GateFollows
<1>12. CASE Outside
    BY <1>12, StillStep DEF Outside, Elapse, ServerReceives, Drop, Open, GateFollows
<1>13. CASE UNCHANGED vars
    BY <1>13, StillStep DEF vars, GateFollows
<1> QED
    BY <1>1, <1>2, <1>3, <1>4, <1>5, <1>6, <1>7, <1>8, <1>9, <1>10, <1>11, <1>12, <1>13
       DEF Next, User, Window

(* The gate is the one its slider shows.                                   *)
THEOREM GateShown == Spec => []GateIsShown
<1>1. Init => GateFollows
    BY DEF Init, GateFollows, Encode, Combos
<1>2. GateFollows => GateIsShown
    BY DEF GateFollows, GateIsShown, GateHeard
<1> QED
    BY <1>1, <1>2, GateStep, PTL DEF Spec

-----------------------------------------------------------------------------
(* Types.  What is on its way must have them as well.                      *)
Messages ==
    {m \in [what : {"update", "get_params", "get_models", "get_compute", "start", "stop"},
            of : Controls \union {"-"}, value : Nat] :
        /\ m.what = "update" => m.of \in controls /\ m.value \in Values(m.of)
        /\ m.what = "start" => "chunk" \in controls}

Notes ==
    {[what |-> w, values |-> <<>>] : w \in {"open", "started"}}
        \union {[what |-> "params", values |-> v] : v \in Stores}
        \union {[what |-> w, values |-> l] : w \in {"models", "compute"}, l \in Lists}

Travels == up \in Seq(Messages) /\ down \in Seq(Notes)

TInv == TypeOK /\ Travels /\ controls \subseteq Controls

LEMMA Numbers ==
    /\ Top \in Nat \ {0} /\ Step \in Nat \ {0} /\ Top % Step = 0
    /\ Short \subseteq 1..Top
    /\ MaxLinks \in Nat /\ MaxMoves \in Nat
    BY SettingsAssumption DEF SettingsAssumption

(* A multiple of Step next to a position is a position.                    *)
LEMMA RoundedStays ==
    ASSUME NEW p \in 0..Top
    PROVE  Rounded(p) \in 0..Top
<1> DEFINE m == Top \div Step
           q == (2 * p + Step) \div (2 * Step)
<1>1. m \in Nat /\ Top = m * Step
    BY Numbers
<1>2. q \in Nat /\ q * (2 * Step) <= 2 * p + Step
    BY Numbers
<1>3. q <= m
    <2>1. SUFFICES ASSUME q >= m + 1 PROVE FALSE
        BY <1>1, <1>2
    <2>2. (m + 1) * (2 * Step) <= q * (2 * Step)
        BY <1>1, <1>2, <2>1, Numbers
    <2>3. (m + 1) * (2 * Step) = 2 * Top + 2 * Step
        BY <1>1, Numbers
    <2> QED
        BY <1>2, <2>2, <2>3, Numbers
<1>4. q * Step <= m * Step
    BY <1>1, <1>2, <1>3, Numbers
<1>5. q * Step \in Nat
    BY <1>2, Numbers
<1> QED
    BY <1>1, <1>4, <1>5 DEF Rounded

LEMMA SentTyped ==
    ASSUME NEW c \in Controls, NEW p \in Positions(c)
    PROVE  Encode(c, p) \in Values(c) /\ Encode(c, p) \in Nat
    BY Numbers, RoundedStays DEF Encode, Values, Positions, Controls, Sliders, Combos, Off

LEMMA RecallTyped ==
    ASSUME NEW c \in Controls \ Combos, NEW v \in Values(c)
    PROVE  Recall(c, v) \in Positions(c)
    BY Numbers, RoundedStays
       DEF Recall, Encode, Values, Positions, Controls, Sliders, Combos, Off

(* A store with one value more is a store.                                 *)
LEMMA StoreTyped ==
    ASSUME NEW s \in Stores, NEW c \in controls, NEW v \in Values(c)
    PROVE  [s EXCEPT ![c] = v] \in Stores
    BY DEF Stores

(* What the window sends.                                                  *)
LEMMA UpTyped ==
    ASSUME up \in Seq(Messages), NEW ms \in Seq(Messages)
    PROVE  Sent(ms) \in Seq(Messages)
    BY DEF Sent

LEMMA UpdateTyped ==
    ASSUME controls \subseteq Controls, NEW c \in controls, NEW v \in Values(c), v \in Nat
    PROVE  Update(c, v) \in Seq(Messages)
<1>1. Message("update", c, v) \in Messages
    BY DEF Messages, Message
<1> QED
    BY <1>1 DEF Update

(* The user lets go, or is made to.                                        *)
LEMMA LetGoTyped ==
    ASSUME Placed, controls \subseteq Controls, NEW c \in controls \intersect Sliders
    PROVE  /\ DOMAIN LetGo(c) = controls
           /\ \A d \in controls :
                 LetGo(c)[d] \in Positions(d) \union (IF d \in Combos THEN {None} ELSE {})
<1>1. pos[c] \in 0..Top
    BY DEF Placed, Positions, Sliders, Combos
<1>2. Rounded(pos[c]) \in 0..Top
    BY <1>1, RoundedStays
<1> QED
    BY <1>2 DEF LetGo, Placed, Positions, Combos

USE DEF handVars, audioVars, listVars, lengthVars, serverVars, fixed

(* What is selected when a list has come.                                  *)
LEMMA ChosenTyped ==
    ASSUME Listed, NEW list \in SUBSET (1..Top)
    PROVE  /\ "model" \in controls => ModelOf(list) \in list \union {None}
           /\ "compute" \in controls => DeviceOf(list) \in list \union {None}
<1>1. list # {} => First(list) \in list
    BY DEF First
<1> QED
    BY <1>1 DEF ModelOf, DeviceOf

(* A list that has come.                                                   *)
LEMMA ListTyped ==
    ASSUME TInv, down # <<>>, Head(down).what \in {"models", "compute"}
    PROVE  /\ Head(down).values \in Lists
           /\ \A c \in controls \intersect Combos : Head(down).values[c] \in SUBSET (1..Top)
<1>1. Head(down) \in Notes
    BY DEF TInv, Travels
<1>2. Head(down).values \in Lists
    BY <1>1 DEF Notes
<1> QED
    BY <1>2 DEF Lists

LEMMA PlacedStep == TInv /\ [Next]_vars => Placed'
<1> SUFFICES ASSUME TInv, [Next]_vars PROVE Placed'
    OBVIOUS
<1> USE DEF TInv, TypeOK
<1>1. ASSUME NEW c \in controls, NEW p \in Positions(c), Drag(c, p) \/ Key(c, p) PROVE Placed'
    BY <1>1 DEF Drag, Key, Placed, Positions
<1>2. ASSUME NEW c \in controls, NEW p \in Positions(c), Pick(c, p) PROVE Placed'
    BY <1>2 DEF Pick, Placed, Positions
<1>3. ASSUME NEW c \in controls \intersect Sliders, Release(c) PROVE Placed'
    BY <1>3, LetGoTyped DEF Release, Placed, Positions
<1>4. CASE OnParams
    <2>1. PICK v \in Stores : pos' = Shown(v)
        BY <1>4 DEF OnParams, Travels, Notes
    <2>2. \A c \in controls \ Combos : v[c] \in Values(c) /\ Recall(c, v[c]) \in Positions(c)
        BY <2>1, RecallTyped DEF Stores
    <2>3. "model" \in controls => v["model"] \in (1..Top) \union {None}
        BY <2>1 DEF Stores, Values, Positions, Encode, Combos
    <2>4. UNCHANGED controls
        BY <1>4 DEF OnParams
    <2> QED
        BY <2>1, <2>2, <2>3, <2>4 DEF Shown, Placed, Positions, Combos
<1>5. CASE OnModels \/ OnCompute \/ OnStarted
    <2>1. CASE OnModels /\ "model" \in controls
        <3>1. /\ UNCHANGED controls
              /\ pos' = [pos EXCEPT !["model"] = ModelOf(Head(down).values["model"])]
            BY <2>1 DEF OnModels
        <3>2. Head(down).values["model"] \in SUBSET (1..Top)
            BY <2>1, ListTyped DEF OnModels, Combos
        <3>3. ModelOf(Head(down).values["model"]) \in (1..Top) \union {None}
            BY <2>1, <3>2, ChosenTyped
        <3> QED
            BY <3>1, <3>3 DEF Placed, Positions, Combos
    <2>2. CASE OnCompute /\ "compute" \in controls
        <3>1. /\ UNCHANGED controls
              /\ pos' = [pos EXCEPT !["compute"] = DeviceOf(Head(down).values["compute"])]
            BY <2>2 DEF OnCompute
        <3>2. Head(down).values["compute"] \in SUBSET (1..Top)
            BY <2>2, ListTyped DEF OnCompute, Combos
        <3>3. DeviceOf(Head(down).values["compute"]) \in (1..Top) \union {None}
            BY <2>2, <3>2, ChosenTyped
        <3> QED
            BY <3>1, <3>3 DEF Placed, Positions, Combos
    <2>3. CASE UNCHANGED <<pos, controls>>
        BY <2>3 DEF Placed, Positions
    <2> QED
        BY <1>5, <2>1, <2>2, <2>3 DEF OnModels, OnCompute, OnStarted
<1>6. CASE GiveUp \/ Disconnect
    <2>0. pos' = IF held = "none" THEN pos ELSE LetGo(held)
        BY <1>6 DEF GiveUp, Disconnect, Locked
    <2>1. pos' = pos \/ (held \in controls \intersect Sliders /\ pos' = LetGo(held))
        BY <2>0 DEF Handed
    <2>2. UNCHANGED controls
        BY <1>6 DEF GiveUp, Disconnect
    <2> QED
        BY <2>1, <2>2, LetGoTyped DEF Placed, Positions
<1>7. ASSUME NEW c \in controls, Press(c) PROVE Placed'
    BY <1>7 DEF Press, Placed, Positions
<1>8. CASE ChooseInput \/ StartConversion \/ StopConversion \/ OnOpen
    BY <1>8 DEF ChooseInput, StartConversion, StopConversion, OnOpen, Placed, Positions
<1>9. CASE Outside
    BY <1>9 DEF Outside, Elapse, ServerReceives, Drop, Open, Placed, Positions
<1>10. CASE UNCHANGED vars
    BY <1>10 DEF vars, Placed, Positions
<1> QED
    BY <1>1, <1>2, <1>3, <1>4, <1>5, <1>6, <1>7, <1>8, <1>9, <1>10 DEF Next, User, Window

LEMMA HandedStep == TInv /\ [Next]_vars => Handed'
<1> SUFFICES ASSUME TInv, [Next]_vars PROVE Handed'
    OBVIOUS
<1> USE DEF TInv, TypeOK, Handed
<1>1. ASSUME NEW c \in controls \intersect Sliders, NEW p \in Positions(c),
             Press(c) \/ Drag(c, p) \/ Key(c, p) \/ Release(c)
      PROVE  Handed'
    BY <1>1 DEF Press, Drag, Key, Release, Acts
<1>2. ASSUME NEW c \in controls, NEW p \in Positions(c), Pick(c, p) PROVE Handed'
    BY <1>2 DEF Pick
<1>3. CASE OnParams \/ OnModels \/ OnCompute \/ OnStarted \/ OnOpen
    BY <1>3 DEF OnParams, OnModels, OnCompute, OnStarted, OnOpen
<1>4. CASE GiveUp \/ Disconnect
    BY <1>4 DEF GiveUp, Disconnect, Locked
<1>5. CASE ChooseInput \/ StartConversion \/ StopConversion
    BY <1>5 DEF ChooseInput, StartConversion, StopConversion
<1>6. CASE Outside
    BY <1>6 DEF Outside, Elapse, ServerReceives, Drop, Open
<1>7. CASE UNCHANGED vars
    BY <1>7 DEF vars
<1>8. \A c \in controls \intersect Sliders : Positions(c) # {}
    BY Numbers DEF Positions, Sliders, Combos
<1> QED
    BY <1>1, <1>2, <1>3, <1>4, <1>5, <1>6, <1>7, <1>8 DEF Next, User, Window

(* The types of messages and notes do not depend on the state.             *)
LEMMA FixedTypes ==
    [Next]_vars => /\ UNCHANGED controls /\ Messages' = Messages /\ Notes' = Notes
                   /\ Stores' = Stores /\ Lists' = Lists
<1> SUFFICES ASSUME [Next]_vars PROVE UNCHANGED controls
    <2>1. UNCHANGED controls => Stores' = Stores /\ Messages' = Messages
        BY Zenon DEF Messages, Stores, Values, Positions, Encode, Rounded
    <2>2. UNCHANGED controls => Lists' = Lists
        BY DEF Lists
    <2> QED
        BY <2>1, <2>2 DEF Notes
<1> QED
    BY DEF Next, User, Window, Outside, vars, Press, Drag, Key, Release, Pick, ChooseInput,
           StartConversion, StopConversion, OnOpen, OnParams, OnModels, OnCompute, OnStarted, GiveUp,
           Disconnect, Elapse, ServerReceives, Drop, Open

(* The lists, and what was saved of them.                                  *)
LEMMA ListedTypeStep == TInv /\ [Next]_vars => Listed'
<1> SUFFICES ASSUME TInv, [Next]_vars PROVE Listed'
    OBVIOUS
<1> USE DEF TInv, TypeOK, Listed
<1>0. UNCHANGED controls /\ Lists' = Lists
    BY FixedTypes
<1>1. CASE OnModels
    <2>1. Head(down).values \in Lists
        BY <1>1, ListTyped DEF OnModels
    <2> QED
        BY <1>0, <1>1, <2>1 DEF OnModels, Lists, Combos
<1>2. CASE OnCompute
    <2>1. Head(down).values \in Lists
        BY <1>2, ListTyped DEF OnCompute
    <2> QED
        BY <1>0, <1>2, <2>1 DEF OnCompute, Lists, Combos
<1>3. CASE OnStarted
    <2>1. \A c \in controls \intersect Combos : pos[c] \in (1..Top) \union {None}
        BY DEF Placed, Positions, Combos
    <2> QED
        BY <1>0, <1>3, <2>1 DEF OnStarted
<1>4. CASE Open
    BY <1>0, <1>4 DEF Open
<1>5. CASE UNCHANGED <<offers, listVars>>
    BY <1>0, <1>5
<1> QED
    BY <1>1, <1>2, <1>3, <1>4, <1>5, Zenon
       DEF Next, User, Window, Outside, vars, serverVars, Press, Drag, Key, Release, Pick,
           ChooseInput, StartConversion, StopConversion, OnOpen, OnParams, GiveUp, Disconnect,
           Elapse, ServerReceives, Drop

LEMMA EchoTyped ==
    ASSUME TInv, NEW before, NEW after, "model" \in controls => after["model"] \in 1..Top \union {None}
    PROVE  Echo(before, after) \in Seq(Messages)
<1>1. CASE "model" \in controls
    <2>1. after["model"] \in Values("model") /\ after["model"] \in Nat
        BY <1>1, Numbers DEF Values, Positions, Encode, Combos, None
    <2>2. Update("model", after["model"]) \in Seq(Messages)
        BY <1>1, <2>1, UpdateTyped DEF TInv
    <2> QED
        BY <2>2, UpTyped DEF Echo, TInv, Travels
<1>2. CASE "model" \notin controls
    BY <1>2 DEF Echo, TInv, Travels
<1> QED
    BY <1>1, <1>2

LEMMA UpStep == TInv /\ [Next]_vars => up' \in Seq(Messages)
<1> SUFFICES ASSUME TInv, [Next]_vars PROVE up' \in Seq(Messages)
    OBVIOUS
<1>0. up \in Seq(Messages) /\ controls \subseteq Controls
    BY DEF TInv, Travels
<1>1. ASSUME NEW c \in controls, NEW p \in Positions(c), Drag(c, p)
      PROVE  up' \in Seq(Messages)
    <2>1. Update(c, Encode(c, p)) \in Seq(Messages)
        BY <1>0, SentTyped, UpdateTyped
    <2> QED
        BY <1>0, <1>1, <2>1, UpTyped DEF Drag
<1>2. ASSUME NEW c \in controls \ Sliders, NEW p \in Positions(c), Pick(c, p)
       PROVE  up' \in Seq(Messages)
    <2>1. Encode(c, p) = p
        BY <1>0 DEF Encode, Controls, Sliders
    <2>2. Update(c, p) \in Seq(Messages)
        BY <1>0, <2>1, SentTyped, UpdateTyped
    <2> QED
        BY <1>0, <1>2, <2>2, UpTyped DEF Pick
<1>3. ASSUME NEW c \in controls \intersect Sliders, Release(c) PROVE up' \in Seq(Messages)
    <2>1. pos[c] \in Positions(c)
        BY <1>3 DEF TInv, TypeOK, Placed, Sliders, Combos
    <2>2. Update(c, Encode(c, pos[c])) \in Seq(Messages)
        BY <1>0, <2>1, SentTyped, UpdateTyped
    <2> QED
        BY <1>0, <1>3, <2>2, UpTyped DEF Release
<1>4. CASE StartConversion
    <2>1. Message("start", "chunk", 0) \in Messages
        BY <1>4 DEF StartConversion, Messages, Message, Controls, Sliders
    <2>2. <<Message("start", "chunk", 0)>> \in Seq(Messages)
        BY <2>1
    <2> QED
        BY <1>0, <1>4, <2>2, UpTyped DEF StartConversion
<1>5. CASE StopConversion
    <2>1. Message("stop", "chunk", 0) \in Messages
        BY DEF Messages, Message, Controls, Sliders
    <2>2. <<Message("stop", "chunk", 0)>> \in Seq(Messages)
        BY <2>1
    <2> QED
        BY <1>0, <1>5, <2>2, UpTyped DEF StopConversion
<1>6. CASE OnOpen
    <2>1. /\ Message("get_params", "-", 0) \in Messages
          /\ Message("get_models", "-", 0) \in Messages
          /\ Message("get_compute", "-", 0) \in Messages
        BY DEF Messages, Message
    <2>2. <<Message("get_params", "-", 0), Message("get_models", "-", 0),
            Message("get_compute", "-", 0)>> \in Seq(Messages)
        BY <2>1
    <2> QED
        BY <1>0, <1>6, <2>2, UpTyped DEF OnOpen
<1>7. CASE OnParams \/ OnModels
    <2>1. "model" \in controls => pos'["model"] \in 1..Top \union {None}
        BY PlacedStep, FixedTypes DEF Placed, Positions, Combos
    <2> QED
        BY <1>7, <2>1, EchoTyped DEF OnParams, OnModels
<1>8. CASE ServerReceives
    BY <1>0, <1>8 DEF ServerReceives
<1>9. CASE Drop \/ Disconnect
    <2>1. up' = <<>>
        BY <1>9 DEF Drop, Disconnect, Lost
    <2> QED
        BY <2>1
<1>10. CASE OnCompute \/ OnStarted \/ GiveUp \/ Elapse \/ Open \/ ChooseInput
    BY <1>0, <1>10 DEF OnCompute, OnStarted, GiveUp, Elapse, Open, ChooseInput
<1>11. ASSUME NEW c \in controls, Press(c) \/ \E p \in Positions(c) : Key(c, p)
       PROVE  up' \in Seq(Messages)
    BY <1>0, <1>11 DEF Press, Key
<1>12. CASE UNCHANGED vars
    BY <1>0, <1>12 DEF vars
<1>13. CASE User
    <2>1. ASSUME NEW c \in controls \intersect Sliders,
                 \/ Press(c) \/ Release(c)
                 \/ \E p \in Positions(c) : Drag(c, p) \/ Key(c, p)
          PROVE  up' \in Seq(Messages)
        <3>1. CASE Press(c) \/ \E p \in Positions(c) : Key(c, p)
            BY <1>11, <3>1
        <3>2. CASE Release(c)
            BY <1>3, <3>2
        <3>3. CASE \E p \in Positions(c) : Drag(c, p)
            BY <1>1, <3>3
        <3> QED
            BY <2>1, <3>1, <3>2, <3>3
    <2> QED
        BY <1>4, <1>5, <1>10, <1>13, <1>2, <2>1 DEF User
<1>14. CASE Window \/ Outside
    BY <1>6, <1>7, <1>8, <1>9, <1>10, <1>14 DEF Window, Outside
<1> QED
    BY <1>12, <1>13, <1>14 DEF Next

LEMMA DownStep == TInv /\ [Next]_vars => down' \in Seq(Notes)
<1> SUFFICES ASSUME TInv, [Next]_vars PROVE down' \in Seq(Notes)
    OBVIOUS
<1>0. down \in Seq(Notes)
    BY DEF TInv, Travels
<1>1. /\ Signal("open", <<>>) \in Notes /\ Signal("started", <<>>) \in Notes
      /\ Signal("models", offers) \in Notes /\ Signal("compute", offers) \in Notes
      /\ Signal("params", stored) \in Notes
    BY DEF Notes, Signal, TInv, TypeOK, Listed
<1>2. CASE ServerReceives
    <2>1. down' \in {down, Append(down, Signal("models", offers)),
                     Append(down, Signal("compute", offers)),
                     Append(down, Signal("started", <<>>)),
                     Append(down, Signal("params", stored))}
        BY <1>2, Zenon DEF ServerReceives
    <2> QED
        BY <1>0, <1>1, <2>1
<1>3. CASE Open
    BY <1>0, <1>1, <1>3 DEF Open
<1>4. CASE Drop \/ Disconnect
    <2>1. PICK k \in 0..Len(down) : down' = SubSeq(down, 1, k)
        BY <1>4 DEF Drop, Disconnect, Lost
    <2> QED
        BY <1>0, <2>1
<1>5. CASE OnOpen \/ OnParams \/ OnModels \/ OnCompute \/ OnStarted
    <2>1. down # <<>> /\ down' = Tail(down)
        BY <1>5, Zenon DEF OnOpen, OnParams, OnModels, OnCompute, OnStarted
    <2> QED
        BY <1>0, <2>1
<1>6. CASE GiveUp \/ Elapse
    BY <1>0, <1>6 DEF GiveUp, Elapse
<1>7. CASE User
    <2>1. down' = down
        BY <1>7, Zenon DEF User, Press, Drag, Key, Release, Pick, ChooseInput, StartConversion,
                           StopConversion
    <2> QED
        BY <1>0, <2>1
<1>8. CASE UNCHANGED vars
    BY <1>0, <1>8 DEF vars
<1> QED
    BY <1>2, <1>3, <1>4, <1>5, <1>6, <1>7, <1>8 DEF Next, Window, Outside

LEMMA StoredStep == TInv /\ [Next]_vars => stored' \in Stores
<1> SUFFICES ASSUME TInv, [Next]_vars PROVE stored' \in Stores
    OBVIOUS
<1>0. stored \in Stores
    BY DEF TInv, TypeOK
<1>1. CASE ServerReceives
    <2>1. Head(up) \in Messages
        BY <1>1 DEF ServerReceives, TInv, Travels
    <2>2. Head(up).what = "update" =>
              Head(up).of \in controls /\ Head(up).value \in Values(Head(up).of)
        BY <2>1 DEF Messages
    <2>3. stored' = IF Accepts(Head(up))
                    THEN [stored EXCEPT ![Head(up).of] = Head(up).value] ELSE stored
        BY <1>1 DEF ServerReceives
    <2> QED
        BY <1>0, <2>2, <2>3, StoreTyped DEF Accepts
<1>2. CASE Open
    BY <1>0, <1>2, FixedTypes DEF Open
<1>3. CASE Drop \/ Elapse
    BY <1>0, <1>3 DEF Drop, Elapse
<1>4. CASE Window
    BY <1>0, <1>4 DEF Window, OnOpen, OnParams, OnModels, OnCompute, OnStarted, GiveUp, Disconnect
<1>5. CASE User
    <2>1. stored' = stored
        BY <1>5, Zenon DEF User, Press, Drag, Key, Release, Pick, ChooseInput, StartConversion,
                           StopConversion
    <2> QED
        BY <1>0, <2>1
<1>6. CASE UNCHANGED vars
    BY <1>0, <1>6 DEF vars
<1> QED
    BY <1>1, <1>2, <1>3, <1>4, <1>5, <1>6 DEF Next, Outside

LEMMA GateTypeStep == TInv /\ [Next]_vars => gate' \in 1..Off
<1> SUFFICES ASSUME TInv, [Next]_vars PROVE gate' \in 1..Off
    OBVIOUS
<1>0. gate \in 1..Off /\ \A p \in 0..Top : Encode("gate", p) \in 1..Off
    BY Numbers DEF TInv, TypeOK, Encode, Off
<1>1. ASSUME NEW c \in controls, NEW p \in Positions(c), Drag(c, p) PROVE gate' \in 1..Off
    <2>1. c = "gate" => p \in 0..Top
        BY DEF Positions, Combos
    <2> QED
        BY <1>0, <1>1, <2>1 DEF Drag, SetGate
<1>2. ASSUME NEW c \in controls, Release(c) PROVE gate' \in 1..Off
    <2>1. c = "gate" => pos[c] \in 0..Top
        BY DEF TInv, TypeOK, Placed, Positions, Combos
    <2> QED
        BY <1>0, <1>2, <2>1 DEF Release, SetGate
<1>3. CASE OnParams
    <2>1. "gate" \in controls => pos'["gate"] \in 0..Top
        BY PlacedStep, FixedTypes DEF Placed, Positions, Combos
    <2> QED
        BY <1>0, <1>3, <2>1 DEF OnParams
<1>4. ASSUME NEW c \in controls, \/ Press(c)
                                \/ \E p \in Positions(c) : Key(c, p) \/ Pick(c, p)
      PROVE  gate' \in 1..Off
    BY <1>0, <1>4 DEF Press, Key, Pick
<1>5. CASE ChooseInput \/ StartConversion \/ StopConversion
    BY <1>0, <1>5 DEF ChooseInput, StartConversion, StopConversion
<1>6. CASE OnOpen \/ OnModels \/ OnCompute \/ OnStarted \/ GiveUp \/ Disconnect
    BY <1>0, <1>6 DEF OnOpen, OnModels, OnCompute, OnStarted, GiveUp, Disconnect
<1>7. CASE Outside
    BY <1>0, <1>7 DEF Outside, Elapse, ServerReceives, Drop, Open
<1>8. CASE UNCHANGED vars
    BY <1>0, <1>8 DEF vars
<1> QED
    BY <1>1, <1>2, <1>3, <1>4, <1>5, <1>6, <1>7, <1>8 DEF Next, User, Window

LEMMA LengthsStep == TInv /\ [Next]_vars => Lengths'
<1> SUFFICES ASSUME TInv, [Next]_vars PROVE Lengths'
    OBVIOUS
<1>0. /\ length \in (0..Top) \union {None}
      /\ serverLength \in (0..Top) \union {None}
    BY DEF TInv, TypeOK, Lengths
<1> USE DEF Lengths
<1>1. CASE StartConversion
    <2>1. pos["chunk"] \in 0..Top
        BY <1>1 DEF StartConversion, TInv, TypeOK, Placed, Positions, Combos
    <2> QED
        BY <1>0, <1>1, <2>1 DEF StartConversion
<1>2. CASE ServerReceives
    <2>1. Head(up) \in Messages
        BY <1>2 DEF ServerReceives, TInv, Travels
    <2>2. Head(up).what = "start" => stored["chunk"] \in 0..Top
        <3>1. ASSUME "chunk" \in controls PROVE stored["chunk"] \in 0..Top
            <4>1. stored["chunk"] \in Values("chunk")
                BY <3>1 DEF TInv, TypeOK, Stores
            <4>2. \A v \in Values("chunk") : v \in 0..Top
                BY RoundedStays DEF Values, Encode, Positions, Combos
            <4> QED
                BY <4>1, <4>2
        <3> QED
            BY <2>1, <3>1 DEF Messages
    <2>3. /\ length' = length
          /\ \/ serverLength' \in {None, serverLength}
             \/ Head(up).what = "start" /\ serverLength' = stored["chunk"]
        BY <1>2, Zenon DEF ServerReceives
    <2> QED
        BY <1>0, <2>2, <2>3 DEF None
<1>3. CASE StopConversion \/ GiveUp \/ Disconnect \/ Drop
    BY <1>0, <1>3 DEF StopConversion, GiveUp, Disconnect, Drop, Locked, Lost, None
<1>4. CASE OnOpen \/ OnParams \/ OnModels \/ OnCompute \/ OnStarted
    BY <1>0, <1>4 DEF OnOpen, OnParams, OnModels, OnCompute, OnStarted, None
<1>5. CASE Elapse \/ Open \/ ChooseInput
    BY <1>0, <1>5 DEF Elapse, Open, ChooseInput, None
<1>6. ASSUME NEW c \in controls, \/ Press(c) \/ Release(c)
                                \/ \E p \in Positions(c) : Drag(c, p) \/ Key(c, p) \/ Pick(c, p)
      PROVE  Lengths'
    <2>1. UNCHANGED <<length, serverLength>>
        BY <1>6, Zenon DEF Press, Release, Drag, Key, Pick
    <2> QED
        BY <1>0, <2>1 DEF None
<1>7. CASE UNCHANGED vars
    BY <1>0, <1>7 DEF vars, None
<1> QED
    BY <1>1, <1>2, <1>3, <1>4, <1>5, <1>6, <1>7 DEF Next, User, Window, Outside

LEMMA CountsStep == TInv /\ [Next]_vars => Counts'
<1> SUFFICES ASSUME TInv, [Next]_vars PROVE Counts'
    OBVIOUS
<1>0. links \in 0..MaxLinks /\ moves \in 0..MaxMoves /\ MaxLinks \in Nat /\ MaxMoves \in Nat
    BY Numbers DEF TInv, TypeOK, Counts
<1>1. \/ UNCHANGED <<links, moves>>
      \/ links < MaxLinks /\ links' = links + 1 /\ moves' = moves
      \/ moves < MaxMoves /\ moves' = moves + 1 /\ links' = links
    BY Zenon DEF Next, User, Window, Outside, vars, Acts, Press, Drag, Key, Release, Pick, ChooseInput,
           StartConversion, StopConversion, OnOpen, OnParams, OnModels, OnCompute, OnStarted, GiveUp,
           Disconnect, Elapse, ServerReceives, Drop, Open
<1> QED
    BY <1>0, <1>1 DEF Counts

LEMMA InitTInv == Init => TInv
<1> SUFFICES ASSUME Init PROVE TInv
    OBVIOUS
<1>1. controls \subseteq Controls
    BY DEF Init
<1>2. Placed
    BY <1>1, Numbers DEF Init, Placed, Positions, Controls, Sliders, Combos
<1>3. Handed /\ Counts /\ Listed /\ stored \in Stores
    BY Numbers DEF Init, Handed, Counts, Listed, Lists
<1>4. gate \in 1..Off /\ Lengths
    BY Numbers DEF Init, Off, Lengths, None
<1>5. Travels
    BY DEF Init, Travels
<1> QED
    BY <1>1, <1>2, <1>3, <1>4, <1>5 DEF TInv, TypeOK

LEMMA NextTInv == TInv /\ [Next]_vars => TInv'
<1> SUFFICES ASSUME TInv, [Next]_vars PROVE TInv'
    OBVIOUS
<1>1. stored' \in Stores' /\ Travels'
    BY StoredStep, UpStep, DownStep, FixedTypes DEF Travels
<1>2. gate' \in (1..Off)'
    BY GateTypeStep DEF Off
<1> QED
    BY <1>1, <1>2, PlacedStep, HandedStep, ListedTypeStep, LengthsStep, CountsStep, FixedTypes
       DEF TInv, TypeOK, None, Controls, Sliders, Combos

(* Positions, values, lengths and counters keep their types: a slider      *)
(* never leaves its range, whatever is recalled from the server.           *)
THEOREM TypesKept == Spec => []TypeOK
<1>1. TInv => TypeOK
    BY DEF TInv
<1> QED
    BY <1>1, InitTInv, NextTInv, PTL DEF Spec

-----------------------------------------------------------------------------
(* What the server will have once it has received what is on its way.      *)

Of(m, c) == m.what = "update" /\ m.of = c
NoneOf(u, c) == \A k \in 1..Len(u) : ~Of(u[k], c)

(* u gives c the value v: in its last message for c, or in none if the     *)
(* value is v already.                                                     *)
Gives(u, value, c, v) ==
    \/ NoneOf(u, c) /\ value = v
    \/ \E k \in 1..Len(u) : /\ Of(u[k], c) /\ u[k].value = v
                            /\ \A j \in 1..Len(u) : Of(u[j], c) => j <= k
Told(c, v) == Gives(up, stored[c], c, v)

In(s, what) == \E k \in 1..Len(s) : s[k].what = what

LEMMA ConcatIs ==
    ASSUME NEW S, NEW s \in Seq(S), NEW t \in Seq(S)
    PROVE  /\ Len(s) \in Nat /\ Len(t) \in Nat /\ Len(s \o t) = Len(s) + Len(t)
           /\ \A k \in 1..Len(s) : (s \o t)[k] = s[k]
           /\ \A k \in 1..Len(t) : Len(s) + k \in 1..Len(s \o t) /\ (s \o t)[Len(s) + k] = t[k]
           /\ \A k \in 1..Len(s \o t) : \/ k \in 1..Len(s)
                                        \/ k > Len(s) /\ k - Len(s) \in 1..Len(t)
                                           /\ (s \o t)[k] = t[k - Len(s)]
<1> DEFINE u == s \o t
<1>1. /\ Len(s) \in Nat /\ Len(t) \in Nat /\ Len(u) = Len(s) + Len(t)
      /\ \A k \in 1..(Len(s) + Len(t)) : u[k] = IF k <= Len(s) THEN s[k] ELSE t[k - Len(s)]
    BY ConcatProperties, LenProperties
<1> HIDE DEF u
<1>2. \A k \in 1..Len(s) : u[k] = s[k]
    BY <1>1
<1>3. ASSUME NEW k \in 1..Len(t) PROVE Len(s) + k \in 1..Len(u) /\ u[Len(s) + k] = t[k]
    <2>1. Len(s) + k \in 1..Len(u) /\ (Len(s) + k) - Len(s) = k /\ ~(Len(s) + k <= Len(s))
        BY <1>1
    <2> QED
        BY <1>1, <2>1
<1>4. \A k \in 1..Len(u) : k \in 1..Len(s) \/ (k > Len(s) /\ k - Len(s) \in 1..Len(t) /\ u[k] = t[k - Len(s)])
    BY <1>1
<1> QED
    BY <1>1, <1>2, <1>3, <1>4 DEF u

LEMMA TailIs ==
    ASSUME NEW S, NEW s \in Seq(S), s # <<>>
    PROVE  /\ Tail(s) \in Seq(S) /\ Head(s) \in S /\ Head(s) = s[1] /\ Len(s) \in Nat \ {0}
           /\ Len(Tail(s)) = Len(s) - 1
           /\ \A i \in 1..Len(Tail(s)) : i + 1 \in 1..Len(s) /\ Tail(s)[i] = s[i + 1]
           /\ \A i \in 1..Len(s) : i # 1 => i - 1 \in 1..Len(Tail(s)) /\ Tail(s)[i - 1] = s[i]
<1> DEFINE t == Tail(s)
<1>1. Len(s) \in Nat /\ Len(s) # 0
    BY LenProperties, EmptySeq
<1>2. s[1] \in S
    BY <1>1, ElementOfSeq
<1>3. /\ t \in Seq(S) /\ Head(s) = s[1] /\ Len(t) = Len(s) - 1
      /\ \A i \in 1..(Len(s) - 1) : t[i] = s[i + 1]
    BY <1>1, HeadTailProperties
<1> HIDE DEF t
<1>4. \A i \in 1..Len(t) : i + 1 \in 1..Len(s) /\ t[i] = s[i + 1]
    BY <1>1, <1>3
<1>5. ASSUME NEW i \in 1..Len(s), i # 1 PROVE i - 1 \in 1..Len(t) /\ t[i - 1] = s[i]
    <2>1. i - 1 \in 1..Len(t) /\ (i - 1) + 1 = i
        BY <1>1, <1>3, <1>5
    <2> QED
        BY <1>4, <2>1
<1> QED
    BY <1>1, <1>2, <1>3, <1>4, <1>5 DEF t

LEMMA InConcat ==
    ASSUME NEW S, NEW s \in Seq(S), NEW t \in Seq(S), NEW what
    PROVE  In(s \o t, what) <=> In(s, what) \/ In(t, what)
<1> DEFINE u == s \o t
<1>1. /\ \A k \in 1..Len(s) : k \in 1..Len(u) /\ u[k] = s[k]
      /\ \A k \in 1..Len(t) : Len(s) + k \in 1..Len(u) /\ u[Len(s) + k] = t[k]
      /\ \A k \in 1..Len(u) : k \in 1..Len(s) \/ (k - Len(s) \in 1..Len(t) /\ u[k] = t[k - Len(s)])
    BY ConcatIs
<1> HIDE DEF u
<1>2. In(s, what) => In(u, what)
    BY <1>1 DEF In
<1>3. ASSUME In(t, what) PROVE In(u, what)
    <2>1. PICK k \in 1..Len(t) : t[k].what = what
        BY <1>3 DEF In
    <2>2. Len(s) + k \in 1..Len(u) /\ u[Len(s) + k].what = what
        BY <1>1, <2>1
    <2> QED
        BY <2>2 DEF In
<1>4. In(u, what) => In(s, what) \/ In(t, what)
    BY <1>1 DEF In
<1> QED
    BY <1>2, <1>3, <1>4 DEF u

LEMMA InTail ==
    ASSUME NEW S, NEW s \in Seq(S), s # <<>>, NEW what
    PROVE  In(s, what) <=> In(Tail(s), what) \/ Head(s).what = what
<1> DEFINE t == Tail(s)
           h == Head(s)
<1>1. /\ h = s[1] /\ 1 \in 1..Len(s)
      /\ \A i \in 1..Len(t) : i + 1 \in 1..Len(s) /\ t[i] = s[i + 1]
      /\ \A i \in 1..Len(s) : i # 1 => i - 1 \in 1..Len(t) /\ t[i - 1] = s[i]
    BY TailIs
<1> HIDE DEF t, h
<1>2. In(s, what) <=> In(t, what) \/ h.what = what
    BY <1>1 DEF In
<1> QED
    BY <1>2 DEF t, h

(* Messages for others say nothing of c.                                   *)
LEMMA GivesSame ==
    ASSUME NEW S, NEW u \in Seq(S), NEW ms \in Seq(S), NEW c, NoneOf(ms, c)
    PROVE  /\ NoneOf(u \o ms, c) <=> NoneOf(u, c)
           /\ \A value, v : Gives(u, value, c, v) => Gives(u \o ms, value, c, v)
<1> DEFINE w == u \o ms
<1>1. /\ Len(u) \in Nat /\ \A k \in 1..Len(u) : k \in 1..Len(w) /\ w[k] = u[k]
      /\ \A k \in 1..Len(w) : k \in 1..Len(u) \/ (k - Len(u) \in 1..Len(ms) /\ w[k] = ms[k - Len(u)])
    BY ConcatIs
<1> HIDE DEF w
<1>2. \A k \in 1..Len(w) : Of(w[k], c) => k \in 1..Len(u) /\ w[k] = u[k]
    BY <1>1 DEF NoneOf
<1>3. NoneOf(w, c) <=> NoneOf(u, c)
    BY <1>1, <1>2 DEF NoneOf
<1>4. ASSUME NEW value, NEW v, Gives(u, value, c, v) PROVE Gives(w, value, c, v)
    <2>1. CASE NoneOf(u, c) /\ value = v
        BY <1>3, <2>1 DEF Gives
    <2>2. CASE \E k \in 1..Len(u) : /\ Of(u[k], c) /\ u[k].value = v
                                    /\ \A j \in 1..Len(u) : Of(u[j], c) => j <= k
        <3>1. PICK k \in 1..Len(u) : /\ Of(u[k], c) /\ u[k].value = v
                                     /\ \A j \in 1..Len(u) : Of(u[j], c) => j <= k
            BY <2>2
        <3>2. \A j \in 1..Len(w) : Of(w[j], c) => j <= k
            BY <1>2, <3>1
        <3> QED
            BY <1>1, <3>1, <3>2 DEF Gives
    <2> QED
        BY <1>4, <2>1, <2>2 DEF Gives
<1> QED
    BY <1>3, <1>4 DEF w

(* The last word counts.                                                   *)
LEMMA GivesNew ==
    ASSUME NEW S, NEW u \in Seq(S), NEW m \in S, NEW c, Of(m, c), NEW value
    PROVE  Gives(u \o <<m>>, value, c, m.value)
<1> DEFINE w == u \o <<m>>
<1>1. <<m>> \in Seq(S) /\ Len(<<m>>) = 1 /\ <<m>>[1] = m
    OBVIOUS
<1>2. /\ Len(u) \in Nat /\ Len(w) = Len(u) + 1
      /\ \A k \in 1..1 : Len(u) + k \in 1..Len(w) /\ w[Len(u) + k] = <<m>>[k]
    BY <1>1, ConcatIs
<1> HIDE DEF w
<1>3. Len(u) + 1 \in 1..Len(w) /\ w[Len(u) + 1] = m
    BY <1>1, <1>2
<1>4. \A j \in 1..Len(w) : j <= Len(u) + 1
    BY <1>2
<1>5. Gives(w, value, c, m.value)
    BY <1>3, <1>4 DEF Gives
<1> QED
    BY <1>5 DEF w

(* The server has received the first.                                      *)
LEMMA GivesTail ==
    ASSUME NEW S, NEW u \in Seq(S), u # <<>>, NEW c, NEW value, NEW new,
           new = IF Of(Head(u), c) THEN Head(u).value ELSE value
    PROVE  /\ NoneOf(u, c) => NoneOf(Tail(u), c)
           /\ \A v : Gives(u, value, c, v) => Gives(Tail(u), new, c, v)
<1> DEFINE t == Tail(u)
           h == Head(u)
<1>1. /\ h = u[1] /\ 1 \in 1..Len(u) /\ Len(u) \in Nat
      /\ \A i \in 1..Len(t) : i + 1 \in 1..Len(u) /\ t[i] = u[i + 1]
      /\ \A i \in 1..Len(u) : i # 1 => i - 1 \in 1..Len(t) /\ t[i - 1] = u[i]
    BY TailIs
<1>2. new = IF Of(h, c) THEN h.value ELSE value
    OBVIOUS
<1> HIDE DEF t, h
<1>3. NoneOf(u, c) => NoneOf(t, c)
    BY <1>1 DEF NoneOf
<1>4. ASSUME NEW v, Gives(u, value, c, v) PROVE Gives(t, new, c, v)
    <2>1. CASE NoneOf(u, c) /\ value = v
        <3>1. ~Of(h, c)
            BY <1>1, <2>1 DEF NoneOf
        <3> QED
            BY <1>2, <1>3, <2>1, <3>1 DEF Gives
    <2>2. CASE \E k \in 1..Len(u) : /\ Of(u[k], c) /\ u[k].value = v
                                    /\ \A j \in 1..Len(u) : Of(u[j], c) => j <= k
        <3>1. PICK k \in 1..Len(u) : /\ Of(u[k], c) /\ u[k].value = v
                                     /\ \A j \in 1..Len(u) : Of(u[j], c) => j <= k
            BY <2>2
        <3>2. CASE k = 1
            <4>1. new = v
                BY <1>1, <1>2, <3>1, <3>2
            <4>2. ASSUME NEW i \in 1..Len(t), Of(t[i], c) PROVE FALSE
                <5>1. i + 1 <= k
                    BY <1>1, <3>1, <4>2
                <5> QED
                    BY <3>2, <5>1
            <4> QED
                BY <4>1, <4>2 DEF Gives, NoneOf
        <3>3. CASE k # 1
            <4>1. k - 1 \in 1..Len(t) /\ t[k - 1] = u[k]
                BY <1>1, <3>3
            <4>2. ASSUME NEW i \in 1..Len(t), Of(t[i], c) PROVE i <= k - 1
                <5>1. i + 1 <= k
                    BY <1>1, <3>1, <4>2
                <5> QED
                    BY <1>1, <5>1
            <4> QED
                BY <3>1, <4>1, <4>2 DEF Gives
        <3> QED
            BY <3>2, <3>3
    <2> QED
        BY <1>4, <2>1, <2>2 DEF Gives
<1> QED
    BY <1>3, <1>4 DEF t, h

-----------------------------------------------------------------------------
(* What is on its way.                                                     *)

(* A note with settings that no later link has overtaken.                  *)
Latest(d, k) == d[k].what = "params" /\ \A j \in 1..Len(d) : j > k => d[j].what # "open"

Quiet == ~opened => up = <<>> /\ serverLength = None

(* While the stored settings of a link are awaited the user changes        *)
(* nothing, so what the server has stays as it answers.  The model alone   *)
(* may be sent, by the window itself.                                      *)
Undisturbed ==
    opened /\ "hasty" \notin cases /\ Awaiting =>
        \A k \in 1..Len(up) : up[k].what = "update" => up[k].of = "model"
Answers ==
    opened /\ "hasty" \notin cases =>
        \A k \in 1..Len(down) : Latest(down, k) =>
            \A c \in controls \ {"model"} : down[k].values[c] = stored[c]
QueueInv == Quiet /\ Undisturbed /\ Answers

LEMMA AwaitingIs ==
    TInv => (Awaiting <=> opened /\ (In(up, "get_params") \/ In(down, "open") \/ In(down, "params")))
<1> SUFFICES ASSUME TInv
             PROVE  Awaiting <=> opened /\ (In(up, "get_params") \/ In(down, "open") \/ In(down, "params"))
    OBVIOUS
<1>1. DOMAIN up = 1..Len(up) /\ DOMAIN down = 1..Len(down)
    BY LenProperties DEF TInv, Travels
<1>2. (\E k \in DOMAIN down : down[k].what \in {"open", "params"})
          <=> In(down, "open") \/ In(down, "params")
    BY <1>1 DEF In
<1> QED
    BY <1>1, <1>2 DEF Awaiting, In

(* On a connection the window says something, or nothing.                  *)
Silent == UNCHANGED <<up, down, stored, items, offers>>
Speaks(m) == m \in Messages /\ up' = up \o <<m>> /\ UNCHANGED <<down, stored, items, offers>>

LEMMA UserSpeaks ==
    ASSUME TInv, opened, User
    PROVE  \/ Silent
           \/ \E m \in Messages :
                 /\ Speaks(m) /\ m.what \in {"update", "start", "stop"}
                 /\ m.what = "update" /\ Awaiting => "hasty" \in cases
<1>1. ASSUME NEW c \in controls \intersect Sliders, NEW p \in Positions(c), Drag(c, p)
      PROVE  \/ Silent
             \/ \E m \in Messages :
                   /\ Speaks(m) /\ m.what \in {"update", "start", "stop"}
                   /\ m.what = "update" /\ Awaiting => "hasty" \in cases
    <2>1. CASE recent
        BY <1>1, <2>1 DEF Drag, Silent
    <2>2. CASE ~recent
        <3> DEFINE m == Message("update", c, Encode(c, p))
        <3>1. m \in Messages
            BY SentTyped DEF Messages, Message, TInv
        <3>2. Speaks(m)
            BY <1>1, <2>2, <3>1 DEF Drag, Speaks, Sent, Update
        <3>3. m.what = "update" /\ (Awaiting => "hasty" \in cases)
            BY <1>1 DEF Drag, Acts, Message
        <3> QED
            BY <3>1, <3>2, <3>3
    <2> QED
        BY <2>1, <2>2
<1>2. ASSUME NEW c \in controls \intersect Sliders, Release(c)
      PROVE  \E m \in Messages :
                   /\ Speaks(m) /\ m.what \in {"update", "start", "stop"}
                   /\ m.what = "update" /\ Awaiting => "hasty" \in cases
    <2> DEFINE m == Message("update", c, Encode(c, pos[c]))
    <2>1. pos[c] \in Positions(c) /\ c \in Controls
        BY DEF TInv, TypeOK, Placed, Sliders, Combos
    <2>2. m \in Messages
        BY <2>1, SentTyped DEF Messages, Message
    <2>3. Speaks(m)
        BY <1>2, <2>2 DEF Release, Speaks, Sent, Update
    <2>4. m.what = "update" /\ (Awaiting => "hasty" \in cases)
        BY <1>2 DEF Release, Message
    <2> QED
        BY <2>2, <2>3, <2>4
<1>3. ASSUME NEW c \in controls \ Sliders, NEW p \in Positions(c), Pick(c, p)
      PROVE  \E m \in Messages :
                   /\ Speaks(m) /\ m.what \in {"update", "start", "stop"}
                   /\ m.what = "update" /\ Awaiting => "hasty" \in cases
    <2> DEFINE m == Message("update", c, p)
    <2>1. Encode(c, p) = p /\ c \in Controls
        BY DEF Encode, Controls, Sliders, TInv
    <2>2. m \in Messages
        BY <2>1, SentTyped DEF Messages, Message
    <2>3. Speaks(m)
        BY <1>3, <2>2 DEF Pick, Speaks, Sent, Update
    <2>4. m.what = "update" /\ (Awaiting => "hasty" \in cases)
        BY <1>3 DEF Pick, Acts, Message
    <2> QED
        BY <2>2, <2>3, <2>4
<1>4. ASSUME StartConversion
      PROVE  \E m \in Messages :
                   /\ Speaks(m) /\ m.what \in {"update", "start", "stop"}
                   /\ m.what = "update" /\ Awaiting => "hasty" \in cases
    <2> DEFINE m == Message("start", "chunk", 0)
    <2>1. m \in Messages
        BY <1>4 DEF StartConversion, Messages, Message, Controls, Sliders
    <2>2. Speaks(m) /\ m.what = "start"
        BY <1>4, <2>1 DEF StartConversion, Speaks, Sent, Message
    <2> QED
        BY <2>1, <2>2
<1>5. ASSUME StopConversion
      PROVE  \E m \in Messages :
                   /\ Speaks(m) /\ m.what \in {"update", "start", "stop"}
                   /\ m.what = "update" /\ Awaiting => "hasty" \in cases
    <2> DEFINE m == Message("stop", "chunk", 0)
    <2>1. m \in Messages
        BY DEF Messages, Message, Controls, Sliders
    <2>2. Speaks(m) /\ m.what = "stop"
        BY <1>5, <2>1 DEF StopConversion, Speaks, Sent, Message
    <2> QED
        BY <2>1, <2>2
<1>6. ASSUME NEW c \in controls \intersect Sliders,
             Press(c) \/ \E p \in Positions(c) : Key(c, p)
      PROVE  Silent
    BY <1>6, Zenon DEF Press, Key, Silent
<1>7. ChooseInput => Silent
    BY Zenon DEF ChooseInput, Silent
<1>8. ASSUME NEW c \in controls \intersect Sliders,
             \/ Press(c) \/ Release(c)
             \/ \E p \in Positions(c) : Drag(c, p) \/ Key(c, p)
      PROVE  \/ Silent
             \/ \E m \in Messages :
                   /\ Speaks(m) /\ m.what \in {"update", "start", "stop"}
                   /\ m.what = "update" /\ Awaiting => "hasty" \in cases
    <2>1. CASE Press(c) \/ \E p \in Positions(c) : Key(c, p)
        BY <1>6, <2>1
    <2>2. CASE Release(c)
        BY <1>2, <2>2
    <2>3. CASE \E p \in Positions(c) : Drag(c, p)
        BY <1>1, <2>3
    <2> QED
        BY <1>8, <2>1, <2>2, <2>3
<1> QED
    BY <1>3, <1>4, <1>5, <1>7, <1>8 DEF User

(* A connection that stands was there, or is new.                          *)
LEMMA OpenedSteps ==
    ASSUME [Next]_vars, opened'
    PROVE  \/ Open
           \/ /\ opened
              /\ \/ User \/ OnOpen \/ OnParams \/ OnModels \/ OnCompute \/ OnStarted \/ Elapse \/ ServerReceives
                 \/ UNCHANGED vars
<1>1. ~Drop /\ ~Disconnect
    BY DEF Drop, Disconnect, Lost
<1>2. ~GiveUp
    BY DEF GiveUp
<1>3. UNCHANGED vars => opened
    BY DEF vars
<1>4. User => opened
    BY Zenon DEF User, Press, Drag, Key, Release, Pick, ChooseInput, StartConversion, StopConversion
<1>5. OnOpen \/ OnParams \/ OnModels \/ OnCompute \/ OnStarted \/ Elapse \/ ServerReceives => opened
    BY Zenon DEF OnOpen, OnParams, OnModels, OnCompute, OnStarted, Elapse, ServerReceives
<1> QED
    BY <1>1, <1>2, <1>3, <1>4, <1>5 DEF Next, Window, Outside

LEMMA FixedCases == [Next]_vars => cases' = cases
    BY Zenon DEF Next, User, Window, Outside, vars, Press, Drag, Key, Release, Pick, ChooseInput,
           StartConversion, StopConversion, OnOpen, OnParams, OnModels, OnCompute, OnStarted, GiveUp,
           Disconnect, Elapse, ServerReceives, Drop, Open

LEMMA QuietStep == Quiet /\ [Next]_vars => Quiet'
<1> SUFFICES ASSUME Quiet, [Next]_vars, ~opened' PROVE up' = <<>> /\ serverLength' = None
    BY DEF Quiet, None
<1>1. CASE Drop \/ Disconnect
    BY <1>1 DEF Drop, Disconnect, Lost
<1>2. CASE ~opened
    <2>1. up = <<>> /\ serverLength = None /\ \A ms : Sent(ms) = up
        BY <1>2 DEF Quiet, Sent
    <2>2. ~Open /\ ~ServerReceives
        BY <2>1 DEF Open, ServerReceives
    <2>3. CASE User
        BY <2>1, <2>3, Zenon DEF User, Press, Drag, Key, Release, Pick, ChooseInput, StartConversion,
           StopConversion
    <2>4. CASE OnOpen \/ OnParams \/ OnModels \/ OnCompute \/ OnStarted \/ GiveUp \/ Elapse
        BY <2>1, <2>4, Zenon DEF OnOpen, OnParams, OnModels, OnCompute, OnStarted, GiveUp, Elapse, Echo
    <2>5. CASE UNCHANGED vars
        BY <2>1, <2>5 DEF vars
    <2> QED
        BY <1>1, <2>2, <2>3, <2>4, <2>5 DEF Next, Window, Outside
<1>3. CASE opened /\ ~Drop /\ ~Disconnect
    <2>1. opened' = opened
        BY <1>3, Zenon DEF Next, User, Window, Outside, vars, Press, Drag, Key, Release, Pick,
           ChooseInput, StartConversion, StopConversion, OnOpen, OnParams, OnModels, OnCompute, OnStarted,
           GiveUp, Elapse, ServerReceives, Open
    <2> QED
        BY <1>3, <2>1
<1> QED
    BY <1>1, <1>2, <1>3

(* The first note is handled.                                              *)
LEMMA Handles ==
    ASSUME TInv, down # <<>>, down' = Tail(down)
    PROVE  /\ Head(down) \in Notes /\ Head(down) = down[1] /\ Len(down) \in Nat \ {0}
           /\ \A k \in 1..Len(down') : /\ k + 1 \in 1..Len(down) /\ down'[k] = down[k + 1]
                                       /\ Latest(down', k) => Latest(down, k + 1)
           /\ \A what : In(down, what) <=> In(down', what) \/ Head(down).what = what
           /\ Latest(down, 1) <=> Head(down).what = "params" /\ ~In(down', "open")
<1>1. down \in Seq(Notes)
    BY DEF TInv, Travels
<1> DEFINE t == Tail(down)
<1>2. /\ Head(down) \in Notes /\ Head(down) = down[1] /\ Len(down) \in Nat \ {0}
      /\ Len(t) = Len(down) - 1
      /\ \A i \in 1..Len(t) : i + 1 \in 1..Len(down) /\ t[i] = down[i + 1]
      /\ \A i \in 1..Len(down) : i # 1 => i - 1 \in 1..Len(t) /\ t[i - 1] = down[i]
    BY <1>1, TailIs
<1>3. \A what : In(down, what) <=> In(t, what) \/ Head(down).what = what
    BY <1>1, InTail
<1>4. t = down'
    OBVIOUS
<1> HIDE DEF t
<1>5. ASSUME NEW k \in 1..Len(t), Latest(t, k) PROVE Latest(down, k + 1)
    <2>1. down[k + 1].what = "params"
        BY <1>2, <1>5 DEF Latest
    <2>2. ASSUME NEW j \in 1..Len(down), j > k + 1 PROVE down[j].what # "open"
        <3>1. j - 1 \in 1..Len(t) /\ t[j - 1] = down[j] /\ j - 1 > k
            BY <1>2, <2>2
        <3> QED
            BY <1>5, <3>1 DEF Latest
    <2> QED
        BY <2>1, <2>2 DEF Latest
<1>6. Latest(down, 1) <=> Head(down).what = "params" /\ ~In(t, "open")
    <2>1. ASSUME ~In(t, "open"), NEW j \in 1..Len(down), j > 1 PROVE down[j].what # "open"
        <3>1. j - 1 \in 1..Len(t) /\ t[j - 1] = down[j]
            BY <1>2, <2>1
        <3> QED
            BY <2>1, <3>1 DEF In
    <2>2. ASSUME In(t, "open") PROVE \E j \in 1..Len(down) : j > 1 /\ down[j].what = "open"
        <3>1. PICK i \in 1..Len(t) : t[i].what = "open"
            BY <2>2 DEF In
        <3>2. i + 1 \in 1..Len(down) /\ i + 1 > 1 /\ down[i + 1].what = "open"
            BY <1>2, <3>1
        <3> QED
            BY <3>2
    <2> QED
        BY <1>2, <2>1, <2>2 DEF Latest
<1> QED
    BY <1>2, <1>3, <1>4, <1>5, <1>6

(* A note arrives.                                                         *)
LEMMA Arrives ==
    ASSUME TInv, NEW n \in Notes, down' = Append(down, n)
    PROVE  /\ Len(down) \in Nat /\ Len(down') = Len(down) + 1 /\ down'[Len(down) + 1] = n
           /\ \A k \in 1..Len(down) : down'[k] = down[k] /\ (Latest(down', k) => Latest(down, k) /\ n.what # "open")
           /\ \A what : In(down', what) <=> In(down, what) \/ n.what = what
<1> DEFINE d == Append(down, n)
<1>1. /\ Len(down) \in Nat /\ Len(d) = Len(down) + 1 /\ d[Len(down) + 1] = n
      /\ \A k \in 1..Len(down) : d[k] = down[k]
    BY AppendProperties, LenProperties DEF TInv, Travels
<1>2. d = down'
    OBVIOUS
<1> HIDE DEF d
<1>3. ASSUME NEW k \in 1..Len(down), Latest(d, k) PROVE Latest(down, k) /\ n.what # "open"
    <2>1. \A j \in 1..Len(down) : j \in 1..Len(d)
        BY <1>1
    <2>2. Len(down) + 1 \in 1..Len(d) /\ Len(down) + 1 > k
        BY <1>1
    <2> QED
        BY <1>1, <1>3, <2>1, <2>2 DEF Latest
<1>4. ASSUME NEW what PROVE In(d, what) <=> In(down, what) \/ n.what = what
    <2>1. Len(down) + 1 \in 1..Len(d) /\ \A k \in 1..Len(down) : k \in 1..Len(d)
        BY <1>1
    <2>2. \A k \in 1..Len(d) : k \in 1..Len(down) \/ k = Len(down) + 1
        BY <1>1
    <2> QED
        BY <1>1, <2>1, <2>2 DEF In
<1> QED
    BY <1>1, <1>2, <1>3, <1>4

(* The window tells the server of a model it selects itself.               *)
LEMMA EchoIs ==
    ASSUME TInv, opened, NEW after, "model" \in controls => after["model"] \in 1..Top \union {None}
    PROVE  \/ /\ Echo(pos, after) = up
              /\ "model" \in controls => after["model"] \in {pos["model"], None}
           \/ /\ "model" \in controls /\ after["model"] \notin {pos["model"], None}
              /\ Message("update", "model", after["model"]) \in Messages
              /\ Echo(pos, after) = up \o <<Message("update", "model", after["model"])>>
<1>1. CASE "model" \in controls /\ after["model"] \notin {pos["model"], None}
    <2>1. after["model"] \in Values("model") /\ after["model"] \in Nat
        BY <1>1, Numbers DEF Values, Positions, Encode, Combos, None
    <2>2. Message("update", "model", after["model"]) \in Messages
        BY <1>1, <2>1 DEF Messages, Message, TInv
    <2> QED
        BY <1>1, <2>2, Zenon DEF Echo, Sent, Update
<1>2. CASE ~("model" \in controls /\ after["model"] \notin {pos["model"], None})
    BY <1>2 DEF Echo
<1> QED
    BY <1>1, <1>2

(* The three questions of a new link.                                      *)
Questions ==
    <<Message("get_params", "-", 0), Message("get_models", "-", 0), Message("get_compute", "-", 0)>>

LEMMA QuestionsAre ==
    /\ Questions \in Seq(Messages)
    /\ \A c : NoneOf(Questions, c)
    /\ \A k \in 1..Len(Questions) : Questions[k].what \in {"get_params", "get_models", "get_compute"}
    /\ \A what \in {"get_params", "get_models", "get_compute"} : In(Questions, what)
<1> DEFINE a == Message("get_params", "-", 0)
           b == Message("get_models", "-", 0)
           d == Message("get_compute", "-", 0)
<1>1. a \in Messages /\ b \in Messages /\ d \in Messages
    BY DEF Messages, Message
<1>2. a.what = "get_params" /\ b.what = "get_models" /\ d.what = "get_compute"
    BY DEF Message
<1> HIDE DEF a, b, d
<1> DEFINE q == <<a, b, d>>
<1>3. q \in Seq(Messages) /\ Len(q) = 3 /\ q[1] = a /\ q[2] = b /\ q[3] = d
    BY <1>1
<1> HIDE DEF q
<1>4. \A k \in 1..Len(q) : q[k].what \in {"get_params", "get_models", "get_compute"}
    <2>1. \A k \in 1..3 : k = 1 \/ k = 2 \/ k = 3
        OBVIOUS
    <2> QED
        BY <1>2, <1>3, <2>1
<1>5. \A c : NoneOf(q, c)
    BY <1>4 DEF NoneOf, Of
<1>6. In(q, "get_params") /\ In(q, "get_models") /\ In(q, "get_compute")
    <2>1. 1 \in 1..Len(q) /\ 2 \in 1..Len(q) /\ 3 \in 1..Len(q)
        BY <1>3
    <2> QED
        BY <1>2, <1>3, <2>1 DEF In
<1> QED
    BY <1>3, <1>4, <1>5, <1>6, Zenon DEF q, a, b, d, Questions

(* What one message says.                                                  *)
LEMMA OneIs ==
    ASSUME NEW m \in Messages
    PROVE  /\ <<m>> \in Seq(Messages) /\ Len(<<m>>) = 1 /\ <<m>>[1] = m
           /\ \A what : In(<<m>>, what) <=> m.what = what
           /\ \A c : NoneOf(<<m>>, c) <=> ~Of(m, c)
<1> DEFINE s == <<m>>
<1>1. s \in Seq(Messages) /\ Len(s) = 1 /\ s[1] = m
    OBVIOUS
<1> HIDE DEF s
<1>2. \A k \in 1..Len(s) : k = 1
    BY <1>1
<1>3. 1 \in 1..Len(s)
    BY <1>1
<1> QED
    BY <1>1, <1>2, <1>3 DEF In, NoneOf, s

(* How a connection that stands goes on: who speaks, who is heard.         *)
Add(ms) == ms \in Seq(Messages) /\ up' = up \o ms /\ stored' = stored
Hear(what) == down # <<>> /\ Head(down).what = what /\ down' = Tail(down)

LEMMA Courses ==
    ASSUME TInv, TInv', [Next]_vars, opened, opened'
    PROVE  \/ Silent /\ (User \/ Elapse \/ UNCHANGED vars)
           \/ User /\ \E m \in Messages :
                 /\ Speaks(m) /\ m.what \in {"update", "start", "stop"}
                 /\ m.what = "update" /\ Awaiting => "hasty" \in cases
           \/ OnOpen /\ Hear("open") /\ Add(Questions) /\ UNCHANGED <<items, offers>>
           \/ /\ OnParams /\ Hear("params") /\ UNCHANGED <<items, offers>>
              /\ \/ UNCHANGED <<up, stored>>
                 \/ "model" \in controls /\ Add(<<Message("update", "model", pos'["model"])>>)
                    /\ Message("update", "model", pos'["model"]) \in Messages
           \/ /\ OnModels /\ Hear("models") /\ offers' = offers
              /\ \/ UNCHANGED <<up, stored>>
                 \/ "model" \in controls /\ Add(<<Message("update", "model", pos'["model"])>>)
                    /\ Message("update", "model", pos'["model"]) \in Messages
           \/ OnCompute /\ Hear("compute") /\ UNCHANGED <<up, stored>> /\ offers' = offers
           \/ /\ OnStarted /\ Hear("started") /\ UNCHANGED <<up, stored>>
              /\ UNCHANGED <<items, offers>>
           \/ ServerReceives
<1>1. ~Open
    BY DEF Open
<1>2. "model" \in controls => pos'["model"] \in 1..Top \union {None}
    <2>1. Placed' /\ UNCHANGED controls
        BY FixedTypes DEF TInv, TypeOK
    <2> QED
        BY <2>1 DEF Placed, Positions, Combos
<1>3. CASE OnOpen
    <2>1. Add(Questions)
        BY <1>3, QuestionsAre, Zenon DEF OnOpen, Sent, Questions, Add
    <2> QED
        BY <1>3, <2>1, Zenon DEF OnOpen, Hear
<1>4. CASE OnParams \/ OnModels
    <2>1. \/ up' = up
          \/ /\ "model" \in controls
             /\ Message("update", "model", pos'["model"]) \in Messages
             /\ up' = up \o <<Message("update", "model", pos'["model"])>>
        <3>1. up' = Echo(pos, pos')
            BY <1>4, Zenon DEF OnParams, OnModels
        <3> QED
            BY <1>2, <3>1, EchoIs
    <2>2. stored' = stored
        BY <1>4, Zenon DEF OnParams, OnModels
    <2>3. \/ UNCHANGED <<up, stored>>
          \/ "model" \in controls /\ Add(<<Message("update", "model", pos'["model"])>>)
             /\ Message("update", "model", pos'["model"]) \in Messages
        BY <2>1, <2>2, OneIs, Zenon DEF Add
    <2>4. OnParams => Hear("params") /\ UNCHANGED <<items, offers>>
        BY Zenon DEF OnParams, Hear
    <2>5. OnModels => Hear("models") /\ offers' = offers
        BY Zenon DEF OnModels, Hear
    <2> QED
        BY <1>4, <2>3, <2>4, <2>5, Zenon
<1>5. CASE OnCompute \/ OnStarted
    BY <1>5, Zenon DEF OnCompute, OnStarted, Hear
<1>6. CASE User
    BY <1>6, UserSpeaks, Zenon
<1>7. CASE Elapse \/ UNCHANGED vars
    <2>1. Silent
        BY <1>7, Zenon DEF Elapse, vars, Silent
    <2> QED
        BY <1>7, <2>1
<1> QED
    BY <1>1, <1>3, <1>4, <1>5, <1>6, <1>7, OpenedSteps, Zenon

(* The stored settings are awaited until OnParams shows them, and are not  *)
(* awaited again on the same link.                                         *)
LEMMA AwaitingStep ==
    ASSUME TInv, TInv', [Next]_vars, opened, opened'
    PROVE  /\ Awaiting' => Awaiting
           /\ Awaiting /\ ~Awaiting' => OnParams
           /\ OnOpen \/ OnParams => Awaiting
           /\ OnOpen => Awaiting'
<1> DEFINE asked == In(up, "get_params")
           news == In(down, "open")
           told == In(down, "params")
<1>1. Awaiting <=> asked \/ news \/ told
    BY AwaitingIs, Zenon
<1>2. Awaiting' <=> asked' \/ news' \/ told'
    <2>1. (TInv => (Awaiting <=> opened /\ (In(up, "get_params") \/ In(down, "open") \/ In(down, "params"))))'
        BY AwaitingIs, PTL
    <2> QED
        BY <2>1, Zenon
<1>3. ASSUME NEW ms, Add(ms) PROVE asked' <=> asked \/ In(ms, "get_params")
    <2>1. ms \in Seq(Messages) /\ up \in Seq(Messages) /\ up' = up \o ms
        BY <1>3 DEF Add, TInv, Travels
    <2>2. In(up \o ms, "get_params") <=> asked \/ In(ms, "get_params")
        BY <2>1, InConcat
    <2> QED
        BY <2>1, <2>2, Zenon
<1>4. ASSUME NEW m \in Messages, Add(<<m>>), m.what # "get_params" PROVE asked' <=> asked
    BY <1>3, <1>4, OneIs
<1>5. ASSUME NEW what, Hear(what) PROVE \A w : In(down, w) <=> In(down', w) \/ w = what
    BY <1>5, Handles DEF Hear
<1>6. CASE Silent /\ (User \/ Elapse \/ UNCHANGED vars)
    <2>1. (asked' <=> asked) /\ (news' <=> news) /\ (told' <=> told)
        BY <1>6, Zenon DEF Silent
    <2>2. ~OnOpen /\ ~OnParams
        <3>1. down' = down /\ down \in Seq(Notes)
            BY <1>6 DEF Silent, TInv, Travels
        <3>2. down # <<>> => Tail(down) # down
            BY <3>1, TailIs
        <3> QED
            BY <3>1, <3>2, Zenon DEF OnOpen, OnParams
    <2> QED
        BY <1>1, <1>2, <2>1, <2>2
<1>7. CASE User /\ \E m \in Messages :
                 /\ Speaks(m) /\ m.what \in {"update", "start", "stop"}
                 /\ m.what = "update" /\ Awaiting => "hasty" \in cases
    <2>1. PICK m \in Messages : Speaks(m) /\ m.what \in {"update", "start", "stop"}
        BY <1>7
    <2>2. Add(<<m>>) /\ down' = down
        BY <2>1, OneIs, Zenon DEF Add, Speaks
    <2>3. asked' <=> asked
        BY <1>4, <2>1, <2>2
    <2>4. ~OnOpen /\ ~OnParams
        <3>1. down \in Seq(Notes)
            BY DEF TInv, Travels
        <3>2. down # <<>> => Tail(down) # down
            BY <3>1, TailIs
        <3> QED
            BY <2>2, <3>2, Zenon DEF OnOpen, OnParams
    <2>5. (news' <=> news) /\ (told' <=> told)
        BY <2>2, Zenon
    <2> QED
        BY <1>1, <1>2, <2>3, <2>4, <2>5
<1>8. CASE OnOpen /\ Hear("open") /\ Add(Questions)
    <2>1. asked'
        BY <1>3, <1>8, QuestionsAre
    <2>2. news /\ ~OnParams
        BY <1>5, <1>8 DEF OnOpen, OnParams
    <2> QED
        BY <1>1, <1>2, <2>1, <2>2
<1>9. ASSUME \/ UNCHANGED <<up, stored>>
             \/ "model" \in controls /\ Add(<<Message("update", "model", pos'["model"])>>)
                /\ Message("update", "model", pos'["model"]) \in Messages
      PROVE  asked' <=> asked
    <2>1. CASE UNCHANGED <<up, stored>>
        BY <2>1, Zenon
    <2>2. CASE "model" \in controls /\ Add(<<Message("update", "model", pos'["model"])>>)
               /\ Message("update", "model", pos'["model"]) \in Messages
        <3>1. Message("update", "model", pos'["model"]).what # "get_params"
            BY DEF Message
        <3> QED
            BY <1>4, <2>2, <3>1
    <2> QED
        BY <1>9, <2>1, <2>2
<1>10. CASE OnParams /\ Hear("params") /\ (asked' <=> asked)
    <2>1. told /\ (news' <=> news) /\ (told' => told) /\ ~OnOpen
        BY <1>5, <1>10 DEF OnOpen, OnParams
    <2> QED
        BY <1>1, <1>2, <1>10, <2>1
<1>11. CASE \/ OnModels /\ Hear("models") /\ (asked' <=> asked)
            \/ OnCompute /\ Hear("compute") /\ (asked' <=> asked)
            \/ OnStarted /\ Hear("started") /\ (asked' <=> asked)
    <2>1. PICK what \in {"models", "compute", "started"} : Hear(what)
        BY <1>11
    <2>2. (told' <=> told) /\ (news' <=> news)
        BY <1>5, <2>1
    <2>3. ~OnOpen /\ ~OnParams
        BY <2>1 DEF OnOpen, OnParams, Hear
    <2> QED
        BY <1>1, <1>2, <1>11, <2>2, <2>3
<1>12. CASE ServerReceives
    <2>1. up \in Seq(Messages) /\ up # <<>> /\ up' = Tail(up)
        BY <1>12 DEF ServerReceives, TInv, Travels
    <2>2. asked <=> asked' \/ Head(up).what = "get_params"
        <3>1. In(up, "get_params") <=> In(Tail(up), "get_params") \/ Head(up).what = "get_params"
            BY <2>1, InTail
        <3> QED
            BY <2>1, <3>1, Zenon
    <2>3. ~OnOpen /\ ~OnParams
        <3>1. down \in Seq(Notes) /\ Len(up) # Len(up')
            BY <2>1, TailIs DEF TInv, Travels
        <3>2. OnOpen \/ OnParams => Hear("open") \/ Hear("params")
            BY Zenon DEF OnOpen, OnParams, Hear
        <3>3. down # <<>> => Len(Tail(down)) < Len(down)
            BY <3>1, TailIs
        <3>4. Len(down') >= Len(down)
            <4>1. \E n \in Notes : down' \in {down, Append(down, n)}
                <5>1. /\ Signal("models", offers) \in Notes /\ Signal("compute", offers) \in Notes
                      /\ Signal("params", stored) \in Notes /\ Signal("started", <<>>) \in Notes
                    BY DEF Notes, Signal, TInv, TypeOK, Listed
                <5> QED
                    BY <1>12, <5>1, Zenon DEF ServerReceives
            <4> QED
                BY <3>1, <4>1
        <3>5. Len(down) \in Nat
            BY <3>1
        <3>6. ~Hear("open") /\ ~Hear("params")
            <4>1. down # <<>> => down' # Tail(down)
                BY <3>3, <3>4, <3>5
            <4> QED
                BY <4>1, Zenon DEF Hear
        <3> QED
            BY <3>2, <3>6, Zenon
    <2>4. CASE Head(up).what = "get_params"
        <3>1. Signal("params", stored) \in Notes /\ down' = Append(down, Signal("params", stored))
            BY <1>12, <2>4 DEF ServerReceives, Notes, Signal, TInv, TypeOK
        <3>2. told'
            BY <3>1, Arrives DEF Signal
        <3> QED
            BY <1>1, <1>2, <2>2, <2>3, <2>4, <3>2
    <2>5. CASE Head(up).what # "get_params"
        <3>1. \/ down' = down
              \/ \E n \in Notes : /\ n.what \in {"models", "compute", "started"}
                                  /\ down' = Append(down, n)
            <4>1. /\ Signal("models", offers) \in Notes /\ Signal("models", offers).what = "models"
                  /\ Signal("compute", offers) \in Notes
                  /\ Signal("compute", offers).what = "compute"
                  /\ Signal("started", <<>>) \in Notes /\ Signal("started", <<>>).what = "started"
                BY DEF Notes, Signal, TInv, TypeOK, Listed
            <4> QED
                BY <1>12, <2>5, <4>1 DEF ServerReceives
        <3>2. (told' <=> told) /\ (news' <=> news)
            BY <3>1, Arrives
        <3> QED
            BY <1>1, <1>2, <2>2, <2>3, <2>5, <3>2
    <2> QED
        BY <2>4, <2>5
<1> HIDE DEF asked, news, told
<1> QED
    BY <1>6, <1>7, <1>8, <1>9, <1>10, <1>11, <1>12, Courses, Zenon

(* The server receives the first message.                                  *)
LEMMA Receives ==
    ASSUME TInv, ServerReceives
    PROVE  /\ up \in Seq(Messages) /\ up # <<>> /\ up' = Tail(up) /\ Head(up) \in Messages
           /\ Head(up) = up[1] /\ 1 \in 1..Len(up) /\ Len(up) \in Nat
           /\ \A k \in 1..Len(up') : k + 1 \in 1..Len(up) /\ up'[k] = up[k + 1]
           /\ \A k \in 1..Len(up) : k # 1 => k - 1 \in 1..Len(up') /\ up'[k - 1] = up[k]
           /\ \A what : In(up, what) <=> In(up', what) \/ Head(up).what = what
           /\ \A c \in controls :
                 (c = "model" /\ Of(Head(up), c) => Head(up).value \in offers[c]) =>
                     stored'[c] = IF Of(Head(up), c) THEN Head(up).value ELSE stored[c]
           /\ UNCHANGED <<items, offers, pos, held, enabled, opened, length>>
<1>1. up \in Seq(Messages) /\ up # <<>> /\ up' = Tail(up)
    BY DEF ServerReceives, TInv, Travels
<1> DEFINE t == Tail(up)
<1>2. /\ Head(up) \in Messages /\ Head(up) = up[1] /\ 1 \in 1..Len(up) /\ Len(up) \in Nat
      /\ \A k \in 1..Len(t) : k + 1 \in 1..Len(up) /\ t[k] = up[k + 1]
      /\ \A k \in 1..Len(up) : k # 1 => k - 1 \in 1..Len(t) /\ t[k - 1] = up[k]
    BY <1>1, TailIs
<1>3. \A what : In(up, what) <=> In(t, what) \/ Head(up).what = what
    BY <1>1, InTail
<1>4. ASSUME NEW c \in controls,
             c = "model" /\ Of(Head(up), c) => Head(up).value \in offers[c]
      PROVE  stored'[c] = IF Of(Head(up), c) THEN Head(up).value ELSE stored[c]
    <2>1. stored' = IF Accepts(Head(up))
                    THEN [stored EXCEPT ![Head(up).of] = Head(up).value] ELSE stored
        BY Zenon DEF ServerReceives
    <2>2. stored \in Stores
        BY DEF TInv, TypeOK
    <2> QED
        BY <1>4, <2>1, <2>2 DEF Stores, Of, Accepts
<1>5. UNCHANGED <<items, offers, pos, held, enabled, opened, length>>
    BY Zenon DEF ServerReceives
<1> QED
    BY <1>1, <1>2, <1>3, <1>4, <1>5, Zenon

(* It answers with what it has stored and with its lists, or says that the *)
(* conversion has started.                                                 *)
LEMMA Replies ==
    ASSUME TInv, ServerReceives
    PROVE  \/ /\ down' = down
              /\ Head(up).what \notin {"get_models", "get_compute"}
           \/ \E n \in Notes :
                 /\ down' = Append(down, n)
                 /\ n.what \in {"models", "compute", "params", "started"}
                 /\ n.what = "params" => n.values = stored /\ stored' = stored
                 /\ n.what \in {"models", "compute"} => n.values = offers
                 /\ Head(up).what = "get_models" => n.what = "models"
                 /\ Head(up).what = "get_compute" => n.what = "compute"
<1>1. /\ Signal("models", offers) \in Notes /\ Signal("models", offers).what = "models"
      /\ Signal("compute", offers) \in Notes /\ Signal("compute", offers).what = "compute"
      /\ Signal("models", offers).values = offers /\ Signal("compute", offers).values = offers
      /\ Signal("started", <<>>) \in Notes /\ Signal("started", <<>>).what = "started"
      /\ Signal("params", stored) \in Notes /\ Signal("params", stored).what = "params"
      /\ Signal("params", stored).values = stored
    BY DEF Notes, Signal, TInv, TypeOK, Listed
<1>2. CASE Head(up).what = "get_params"
    <2>1. down' = Append(down, Signal("params", stored)) /\ stored' = stored
        BY <1>2 DEF ServerReceives, Accepts
    <2> QED
        BY <1>1, <1>2, <2>1
<1>3. CASE Head(up).what = "get_models"
    <2>1. down' = Append(down, Signal("models", offers))
        BY <1>3 DEF ServerReceives
    <2> QED
        BY <1>1, <1>3, <2>1
<1>4. CASE Head(up).what = "get_compute"
    <2>1. down' = Append(down, Signal("compute", offers))
        BY <1>4 DEF ServerReceives
    <2> QED
        BY <1>1, <1>4, <2>1
<1>5. CASE Head(up).what = "start"
    <2>1. down' = Append(down, Signal("started", <<>>))
        BY <1>5 DEF ServerReceives
    <2> QED
        BY <1>1, <1>5, <2>1
<1>6. CASE Head(up).what \notin {"get_params", "get_models", "get_compute", "start"}
    BY <1>6 DEF ServerReceives
<1> QED
    BY <1>2, <1>3, <1>4, <1>5, <1>6

LEMMA UndisturbedStep ==
    ASSUME TInv, TInv', Quiet, Undisturbed, [Next]_vars
    PROVE  Undisturbed'
<1> DEFINE Calm(u) == \A k \in 1..Len(u) : u[k].what = "update" => u[k].of = "model"
<1> SUFFICES ASSUME opened', "hasty" \notin cases', Awaiting' PROVE Calm(up')
    BY Zenon DEF Undisturbed
<1>0. "hasty" \notin cases
    BY FixedCases
<1>1. CASE Open
    <2>1. up' = <<>>
        BY <1>1 DEF Open, Quiet
    <2> QED
        BY <2>1
<1>2. CASE ~Open
    <2>1. opened
        BY <1>2, OpenedSteps
    <2>2. Awaiting
        BY <2>1, AwaitingStep
    <2>3. Calm(up) /\ up \in Seq(Messages)
        BY <1>0, <2>1, <2>2 DEF Undisturbed, TInv, Travels
    <2>4. ASSUME NEW ms \in Seq(Messages), Calm(ms) PROVE Calm(up \o ms)
        <3> DEFINE w == up \o ms
        <3>1. /\ \A k \in 1..Len(up) : w[k] = up[k]
              /\ \A k \in 1..Len(w) : k \in 1..Len(up)
                                      \/ (k - Len(up) \in 1..Len(ms) /\ w[k] = ms[k - Len(up)])
            BY <2>3, ConcatIs
        <3> HIDE DEF w
        <3>2. Calm(w)
            BY <2>3, <2>4, <3>1
        <3> QED
            BY <3>2 DEF w
    <2>5. ASSUME NEW m \in Messages, m.what = "update" => m.of = "model" PROVE Calm(up \o <<m>>)
        <3>1. <<m>> \in Seq(Messages) /\ Len(<<m>>) = 1 /\ <<m>>[1] = m
            BY OneIs
        <3>2. Calm(<<m>>)
            BY <2>5, <3>1
        <3> QED
            BY <2>4, <3>1, <3>2
    <2>6. Calm(Questions) /\ Questions \in Seq(Messages)
        BY QuestionsAre
    <2> HIDE DEF Calm
    <2>7. Message("update", "model", pos'["model"]).of = "model"
        BY DEF Message
    <2>8. ServerReceives => Calm(up')
        BY <2>3, Receives DEF Calm
    <2>9. ASSUME NEW m \in Messages, Speaks(m), m.what = "update" /\ Awaiting => "hasty" \in cases
          PROVE  Calm(up')
        BY <1>0, <2>2, <2>5, <2>9, Zenon DEF Speaks
    <2>10. Add(Questions) => Calm(up')
        BY <2>4, <2>6, Zenon DEF Add
    <2>11. ASSUME NEW m \in Messages, Add(<<m>>), m.of = "model" PROVE Calm(up')
        BY <2>5, <2>11, Zenon DEF Add
    <2>12. Silent => Calm(up')
        BY <2>3, Zenon DEF Silent
    <2>13. UNCHANGED <<up, stored>> => Calm(up')
        BY <2>3, Zenon
    <2> QED
        BY <2>1, <2>7, <2>8, <2>9, <2>10, <2>11, <2>12, <2>13, Courses, Zenon
<1> QED
    BY <1>1, <1>2

LEMMA AnswersStep ==
    ASSUME TInv, TInv', QueueInv, [Next]_vars
    PROVE  Answers'
<1> SUFFICES ASSUME opened', "hasty" \notin cases', NEW k \in 1..Len(down'), Latest(down', k),
                    NEW c \in controls \ {"model"}
             PROVE  down'[k].values[c] = stored'[c]
    BY FixedTypes DEF Answers
<1>0. "hasty" \notin cases
    BY FixedCases
<1>1. CASE Open
    <2>1. Signal("open", <<>>) \in Notes /\ Signal("open", <<>>).what = "open"
        BY DEF Notes, Signal
    <2>2. down' = Append(down, Signal("open", <<>>))
        BY <1>1 DEF Open
    <2>3. k \in 1..Len(down)
        BY <2>1, <2>2, Arrives DEF Latest
    <2> QED
        BY <2>1, <2>2, <2>3, Arrives
<1>2. CASE ~Open
    <2>1. opened
        BY <1>2, OpenedSteps
    <2>2. \A j \in 1..Len(down) : Latest(down, j) => down[j].values[c] = stored[c]
        BY <1>0, <2>1 DEF QueueInv, Answers
    <2>3. ASSUME down' = down, stored' = stored PROVE down'[k].values[c] = stored'[c]
        BY <2>2, <2>3
    <2>4. ASSUME NEW what, Hear(what), stored' = stored PROVE down'[k].values[c] = stored'[c]
        <3>1. k + 1 \in 1..Len(down) /\ down'[k] = down[k + 1] /\ Latest(down, k + 1)
            BY <2>4, Handles DEF Hear
        <3> QED
            BY <2>2, <2>4, <3>1
    <2>5. CASE ServerReceives
        <3>1. ASSUME NEW j \in 1..Len(down), Latest(down, j) PROVE stored'[c] = stored[c]
            <4>1. Awaiting
                <5>1. In(down, "params")
                    BY <3>1 DEF In, Latest
                <5> QED
                    BY <2>1, <5>1, AwaitingIs
            <4>2. Head(up).what = "update" => Head(up).of = "model"
                BY <1>0, <2>1, <2>5, <4>1, Receives DEF QueueInv, Undisturbed
            <4>3. ~Of(Head(up), c)
                BY <4>2 DEF Of
            <4> QED
                BY <2>5, <4>3, Receives
        <3>2. CASE down' = down
            BY <2>2, <3>1, <3>2
        <3>3. ASSUME NEW n \in Notes, down' = Append(down, n),
                     n.what = "params" => n.values = stored /\ stored' = stored
              PROVE  down'[k].values[c] = stored'[c]
            <4>1. CASE k \in 1..Len(down)
                <5>1. down'[k] = down[k] /\ Latest(down, k)
                    BY <3>3, <4>1, Arrives
                <5> QED
                    BY <2>2, <3>1, <4>1, <5>1
            <4>2. CASE k \notin 1..Len(down)
                <5>1. down'[k] = n
                    BY <3>3, <4>2, Arrives
                <5> QED
                    BY <3>3, <5>1 DEF Latest
            <4> QED
                BY <4>1, <4>2
        <3> QED
            BY <2>5, <3>2, <3>3, Replies, Zenon
    <2>6. Silent => down'[k].values[c] = stored'[c]
        BY <2>3, Zenon DEF Silent
    <2>7. ASSUME NEW m \in Messages, Speaks(m) PROVE down'[k].values[c] = stored'[c]
        BY <2>3, <2>7, Zenon DEF Speaks
    <2>8. \A ms : Add(ms) => stored' = stored
        BY Zenon DEF Add
    <2>9. UNCHANGED <<up, stored>> => stored' = stored
        BY Zenon
    <2> QED
        BY <2>1, <2>4, <2>5, <2>6, <2>7, <2>8, <2>9, Courses, Zenon
<1> QED
    BY <1>1, <1>2

(* Told, after the step.                                                   *)
ToldNext(c, v) == Gives(up', stored'[c], c, v)

(* What was said of c still holds, if nobody says anything new of c.       *)
LEMMA ToldAdds ==
    ASSUME TInv, NEW ms, Add(ms), NEW c, NoneOf(ms, c)
    PROVE  /\ NoneOf(up', c) <=> NoneOf(up, c)
           /\ \A v : Told(c, v) => ToldNext(c, v)
<1>1. up \in Seq(Messages) /\ ms \in Seq(Messages) /\ up' = up \o ms /\ stored'[c] = stored[c]
    BY DEF TInv, Travels, Add
<1>2. /\ NoneOf(up \o ms, c) <=> NoneOf(up, c)
      /\ \A value, v : Gives(up, value, c, v) => Gives(up \o ms, value, c, v)
    BY <1>1, GivesSame
<1> QED
    BY <1>1, <1>2, Zenon DEF Told, ToldNext

LEMMA ToldNew ==
    ASSUME TInv, NEW m \in Messages, Add(<<m>>), NEW c, Of(m, c)
    PROVE  ToldNext(c, m.value)
<1>1. up \in Seq(Messages) /\ up' = up \o <<m>>
    BY DEF TInv, Travels, Add
<1>2. Gives(up \o <<m>>, stored'[c], c, m.value)
    BY <1>1, GivesNew
<1> QED
    BY <1>1, <1>2, Zenon DEF Told, ToldNext

(* What is said of the model is on offer, so that the server takes it.     *)
Sensible(c) ==
    c = "model" => \A k \in 1..Len(up) : Of(up[k], c) => up[k].value \in offers[c]

LEMMA ToldServer ==
    ASSUME TInv, ServerReceives, NEW c \in controls, Sensible(c)
    PROVE  /\ NoneOf(up, c) => NoneOf(up', c) /\ stored'[c] = stored[c]
           /\ \A v : Told(c, v) => ToldNext(c, v)
<1> DEFINE new == IF Of(Head(up), c) THEN Head(up).value ELSE stored[c]
<1>0. c = "model" /\ Of(Head(up), c) => Head(up).value \in offers[c]
    <2>1. Head(up) = up[1] /\ 1 \in 1..Len(up)
        BY Receives
    <2> QED
        BY <2>1 DEF Sensible
<1>1. up \in Seq(Messages) /\ up # <<>> /\ up' = Tail(up) /\ stored'[c] = new
    BY <1>0, Receives, Zenon
<1>2. /\ NoneOf(up, c) => NoneOf(Tail(up), c)
      /\ \A v : Gives(up, stored[c], c, v) => Gives(Tail(up), new, c, v)
    BY <1>1, GivesTail
<1>3. NoneOf(up, c) => ~Of(Head(up), c)
    BY Receives DEF NoneOf
<1> QED
    BY <1>1, <1>2, <1>3, Zenon DEF Told, ToldNext

(* The handlers that tell the server a value of c tell it what c shows.    *)
LEMMA Tells ==
    ASSUME TInv, TInv', [Next]_vars, opened, opened', NEW c \in controls, Sensible(c)
    PROVE  \/ /\ NoneOf(up, c) => NoneOf(up', c) /\ stored'[c] = stored[c]
              /\ \A v : Told(c, v) => ToldNext(c, v)
           \/ /\ c \in Sliders /\ enabled /\ (Awaiting => "hasty" \in cases)
              /\ ToldNext(c, Encode(c, pos[c])) /\ Release(c)
           \/ c \in Sliders /\ \E p \in Positions(c) : Drag(c, p)
           \/ c \notin Sliders /\ ToldNext(c, pos'[c]) /\ \E p \in Positions(c) : Pick(c, p)
           \/ c = "model" /\ ToldNext(c, pos'[c]) /\ (OnParams \/ OnModels)
<1> DEFINE Kept == /\ NoneOf(up, c) => NoneOf(up', c) /\ stored'[c] = stored[c]
                   /\ \A v : Told(c, v) => ToldNext(c, v)
<1>1. ASSUME UNCHANGED <<up, stored>> PROVE Kept
    BY <1>1, Zenon DEF Told, ToldNext
<1>2. ASSUME NEW ms, Add(ms), NoneOf(ms, c) PROVE Kept
    <2>1. stored' = stored
        BY <1>2 DEF Add
    <2> QED
        BY <1>2, <2>1, ToldAdds, Zenon
<1>3. ASSUME NEW m \in Messages, Speaks(m) PROVE Add(<<m>>)
    BY <1>3, OneIs, Zenon DEF Add, Speaks
<1>4. ASSUME NEW m \in Messages, Add(<<m>>), ~Of(m, c) PROVE Kept
    BY <1>2, <1>4, OneIs, Zenon
<1>5. CASE ServerReceives
    BY <1>5, ToldServer, Zenon
<1>6. CASE OnOpen /\ Add(Questions)
    BY <1>2, <1>6, QuestionsAre, Zenon
<1>7. CASE /\ OnParams \/ OnModels
           /\ \/ UNCHANGED <<up, stored>>
              \/ "model" \in controls /\ Add(<<Message("update", "model", pos'["model"])>>)
                 /\ Message("update", "model", pos'["model"]) \in Messages
    <2> DEFINE m == Message("update", "model", pos'["model"])
    <2>1. (Of(m, c) <=> c = "model") /\ m.value = pos'["model"]
        BY DEF Message, Of
    <2>2. CASE Add(<<m>>) /\ m \in Messages /\ c = "model"
        BY <1>7, <2>1, <2>2, ToldNew
    <2> HIDE DEF m
    <2>3. CASE Add(<<m>>) /\ m \in Messages /\ c # "model"
        BY <1>4, <2>1, <2>3, Zenon
    <2> QED
        BY <1>1, <1>7, <2>2, <2>3, Zenon DEF m
<1>8. CASE User /\ \E m \in Messages : Speaks(m)
    <2>1. ASSUME NEW d \in controls, NEW p, d = c,
                 Add(Update(d, Encode(d, p))), Message("update", d, Encode(d, p)) \in Messages
          PROVE  ToldNext(c, Encode(c, p))
        <3>1. Of(Message("update", d, Encode(d, p)), c)
              /\ Message("update", d, Encode(d, p)).value = Encode(c, p)
            BY <2>1 DEF Message, Of
        <3>2. Add(<<Message("update", d, Encode(d, p))>>)
            BY <2>1 DEF Update
        <3> QED
            BY <2>1, <3>1, <3>2, ToldNew, Zenon
    <2>2. ASSUME NEW d \in controls, NEW v, up' = Sent(Update(d, v)), stored' = stored, d # c,
                 Message("update", d, v) \in Messages
          PROVE  Kept
        <3>1. ~Of(Message("update", d, v), c)
            BY <2>2 DEF Message, Of
        <3>2. Add(<<Message("update", d, v)>>)
            BY <2>2, OneIs, Zenon DEF Add, Sent, Update
        <3> QED
            BY <1>4, <2>2, <3>1, <3>2, Zenon
    <2>3. ASSUME NEW d \in controls, NEW p \in Positions(d) PROVE Message("update", d, Encode(d, p)) \in Messages
        <3>1. d \in Controls
            BY DEF TInv
        <3> QED
            BY <3>1, SentTyped DEF Messages, Message
    <2>4. ASSUME NEW d \in controls \intersect Sliders, Release(d)
          PROVE  Kept \/ (d = c /\ enabled /\ (Awaiting => "hasty" \in cases) /\ ToldNext(c, Encode(c, pos[c])))
        <3>1. up' = Sent(Update(d, Encode(d, pos[d]))) /\ stored' = stored /\ held = d
              /\ (Awaiting => "hasty" \in cases)
            BY <2>4, Zenon DEF Release
        <3>2. pos[d] \in Positions(d) /\ enabled
            <4>1. d # "none" /\ d \notin Combos
                BY DEF Sliders, Combos
            <4> QED
                BY <3>1, <4>1 DEF TInv, TypeOK, Placed, Handed
        <3>3. Message("update", d, Encode(d, pos[d])) \in Messages
            BY <2>3, <3>2
        <3>4. Add(Update(d, Encode(d, pos[d])))
            BY <3>1, <3>3, OneIs, Zenon DEF Add, Sent, Update
        <3>5. d # c => Kept
            BY <2>2, <3>1, <3>3, Zenon
        <3>6. d = c => ToldNext(c, Encode(c, pos[c]))
            BY <2>1, <3>3, <3>4, Zenon
        <3> QED
            BY <3>1, <3>2, <3>5, <3>6, Zenon
    <2>5. ASSUME NEW d \in controls \intersect Sliders, NEW p \in Positions(d), Drag(d, p), d # c
          PROVE  Kept
        <3>1. UNCHANGED <<up, stored>> \/ (up' = Sent(Update(d, Encode(d, p))) /\ stored' = stored)
            BY <2>5, Zenon DEF Drag
        <3> QED
            BY <1>1, <2>2, <2>3, <2>5, <3>1, Zenon
    <2>6. ASSUME NEW d \in controls \ Sliders, NEW p \in Positions(d), Pick(d, p)
          PROVE  Kept \/ (d = c /\ ToldNext(c, pos'[c]))
        <3>1. up' = Sent(Update(d, p)) /\ stored' = stored /\ pos' = [pos EXCEPT ![d] = p]
            BY <2>6, Zenon DEF Pick
        <3>2. Encode(d, p) = p
            BY DEF Encode, Sliders
        <3>3. Message("update", d, p) \in Messages
            BY <2>3, <3>2, Zenon
        <3>4. Add(Update(d, p))
            BY <3>1, <3>3, OneIs, Zenon DEF Add, Sent, Update
        <3>5. d # c => Kept
            BY <2>2, <3>1, <3>3, Zenon
        <3>6. d = c => ToldNext(c, p)
            <4>1. d = c => ToldNext(c, Encode(c, p))
                BY <2>1, <3>2, <3>3, <3>4, Zenon
            <4> QED
                BY <3>2, <4>1, Zenon
        <3>7. pos'[d] = p
            BY <3>1 DEF TInv, TypeOK, Placed
        <3> QED
            BY <3>5, <3>6, <3>7, Zenon
    <2>7. ASSUME NEW d \in controls, Press(d) \/ \E p \in Positions(d) : Key(d, p)
          PROVE  Kept
        <3>1. UNCHANGED <<up, stored>>
            BY <2>7, Zenon DEF Press, Key
        <3> QED
            BY <1>1, <3>1, Zenon
    <2>8. ASSUME ChooseInput PROVE Kept
        BY <1>1, <2>8, Zenon DEF ChooseInput
    <2>9. ASSUME StartConversion \/ StopConversion PROVE Kept
        <3>1. PICK m \in {Message("start", "chunk", 0), Message("stop", "chunk", 0)} :
                  up' = Sent(<<m>>) /\ stored' = stored /\ (m.what = "start" => "chunk" \in controls)
            BY <2>9 DEF StartConversion, StopConversion, Message
        <3>2. m \in Messages /\ ~Of(m, c)
            BY <3>1 DEF Messages, Message, Of, Controls, Sliders
        <3>3. Add(<<m>>)
            BY <3>1, <3>2, OneIs, Zenon DEF Add, Sent
        <3> QED
            BY <1>4, <3>2, <3>3, Zenon
    <2> HIDE DEF Kept
    <2>10. ASSUME NEW d \in controls \intersect Sliders,
                 \/ Press(d) \/ Release(d)
                 \/ \E p \in Positions(d) : Drag(d, p) \/ Key(d, p)
           PROVE  \/ Kept
                  \/ /\ c \in Sliders /\ enabled /\ (Awaiting => "hasty" \in cases)
                     /\ ToldNext(c, Encode(c, pos[c])) /\ Release(c)
                  \/ c \in Sliders /\ \E p \in Positions(c) : Drag(c, p)
        <3>1. CASE Press(d) \/ \E p \in Positions(d) : Key(d, p)
            BY <2>7, <3>1, Zenon
        <3>2. CASE Release(d)
            BY <2>4, <3>2, Zenon
        <3>3. CASE \E p \in Positions(d) : Drag(d, p)
            BY <2>5, <3>3, Zenon
        <3> QED
            BY <2>10, <3>1, <3>2, <3>3, Zenon
    <2>11. ASSUME NEW d \in controls \ Sliders, NEW p \in Positions(d), Pick(d, p)
           PROVE  Kept \/ (c \notin Sliders /\ ToldNext(c, pos'[c]) /\ \E q \in Positions(c) : Pick(c, q))
        BY <2>6, <2>11, Zenon
    <2> QED
        BY <1>8, <2>8, <2>9, <2>10, <2>11, Zenon DEF User, Kept
<1>9. Silent => UNCHANGED <<up, stored>>
    BY Zenon DEF Silent
<1> HIDE DEF Kept
<1> QED
    BY <1>1, <1>5, <1>6, <1>7, <1>8, <1>9, Courses, Zenon DEF Kept

LEMMA ReleaseTells ==
    ASSUME TInv, opened, NEW c \in controls \intersect Sliders, Release(c)
    PROVE  ToldNext(c, Encode(c, pos[c]))
<1> DEFINE m == Message("update", c, Encode(c, pos[c]))
<1>1. pos[c] \in Positions(c) /\ c \in Controls
    BY DEF TInv, TypeOK, Placed, Sliders, Combos
<1>2. m \in Messages
    BY <1>1, SentTyped DEF Messages, Message
<1>3. Of(m, c) /\ m.value = Encode(c, pos[c])
    BY DEF Message, Of
<1>4. up' = Sent(<<m>>) /\ stored' = stored
    BY Zenon DEF Release, Update
<1> HIDE DEF m
<1>5. Add(<<m>>)
    BY <1>2, <1>4, OneIs, Zenon DEF Add, Sent
<1>6. ToldNext(c, m.value)
    BY <1>2, <1>3, <1>5, ToldNew, Zenon
<1> QED
    BY <1>3, <1>6, Zenon

LEMMA PickTells ==
    ASSUME TInv, opened, NEW c \in controls \ Sliders, NEW p \in Positions(c), Pick(c, p)
    PROVE  ToldNext(c, p) /\ pos'[c] = p
<1> DEFINE m == Message("update", c, p)
<1>1. c \in Controls /\ Encode(c, p) = p
    BY DEF TInv, Encode, Sliders
<1>2. m \in Messages
    BY <1>1, SentTyped DEF Messages, Message
<1>3. Of(m, c) /\ m.value = p
    BY DEF Message, Of
<1>4. up' = Sent(<<m>>) /\ stored' = stored
    BY Zenon DEF Pick, Update
<1> HIDE DEF m
<1>5. Add(<<m>>)
    BY <1>2, <1>4, OneIs, Zenon DEF Add, Sent
<1>6. ToldNext(c, m.value)
    BY <1>2, <1>3, <1>5, ToldNew, Zenon
<1>7. pos'[c] = p
    BY DEF Pick, TInv, TypeOK, Placed
<1> QED
    BY <1>3, <1>6, <1>7, Zenon

-----------------------------------------------------------------------------
(* What the controls show.                                                 *)

LEMMA RoundedTwice ==
    ASSUME NEW p \in Nat
    PROVE  Rounded(p) \in Nat /\ Rounded(Rounded(p)) = Rounded(p)
<1> DEFINE d == 2 * Step
           q == (2 * p + Step) \div d
           x == d * q + Step
           r == x \div d
<1>1. d \in Nat \ {0} /\ Step < d /\ Step \in Nat
    BY Numbers
<1>2. q \in Nat
    BY <1>1
<1>3. d * q \in Nat /\ x \in Nat
    BY <1>1, <1>2
<1>4. r \in Nat /\ d * r <= x /\ x < d * r + d
    BY <1>1, <1>3
<1>5. ~(r >= q + 1)
    <2>1. SUFFICES ASSUME r >= q + 1 PROVE FALSE
        OBVIOUS
    <2>2. PICK n \in Nat : r = q + 1 + n
        <3>1. r - (q + 1) \in Nat /\ r = q + 1 + (r - (q + 1))
            BY <1>2, <1>4, <2>1
        <3> QED
            BY <3>1
    <2>3. d * r = d * q + d + d * n
        BY <1>1, <1>2, <2>2
    <2>4. d * n \in Nat
        BY <1>1, <2>2
    <2> QED
        BY <1>1, <1>3, <1>4, <2>3, <2>4
<1>6. ~(q >= r + 1)
    <2>1. SUFFICES ASSUME q >= r + 1 PROVE FALSE
        OBVIOUS
    <2>2. PICK n \in Nat : q = r + 1 + n
        <3>1. q - (r + 1) \in Nat /\ q = r + 1 + (q - (r + 1))
            BY <1>2, <1>4, <2>1
        <3> QED
            BY <3>1
    <2>3. d * q = d * r + d + d * n
        BY <1>1, <1>4, <2>2
    <2>4. d * n \in Nat /\ d * r \in Nat
        BY <1>1, <1>4, <2>2
    <2> QED
        BY <1>1, <1>4, <2>3, <2>4
<1>7. r = q
    BY <1>2, <1>4, <1>5, <1>6
<1>8. Rounded(p) = q * Step /\ q * Step \in Nat
    BY <1>1, <1>2 DEF Rounded
<1>9. Rounded(q * Step) = r * Step
    <2>1. 2 * (q * Step) + Step = x
        BY <1>1, <1>2
    <2> QED
        BY <2>1 DEF Rounded
<1> QED
    BY <1>7, <1>8, <1>9

(* A slider that is let go says what it then shows.                        *)
LEMMA LetGoShows ==
    ASSUME TInv, NEW c \in controls \intersect Sliders
    PROVE  /\ Encode(c, LetGo(c)[c]) = Encode(c, pos[c])
           /\ c = "chunk" => Rounded(LetGo(c)[c]) = LetGo(c)[c]
           /\ \A d \in controls : d # c => LetGo(c)[d] = pos[d]
<1>1. pos[c] \in Nat /\ DOMAIN pos = controls
    BY Numbers DEF TInv, TypeOK, Placed, Positions, Sliders, Combos
<1>2. LetGo(c)[c] = IF c = "chunk" THEN Rounded(pos[c]) ELSE pos[c]
    BY <1>1 DEF LetGo
<1>3. \A d \in controls : d # c => LetGo(c)[d] = pos[d]
    BY <1>1 DEF LetGo
<1> QED
    BY <1>1, <1>2, <1>3, RoundedTwice DEF Encode

(* A position recalled for the chunk slider is one it can be let go at.    *)
LEMMA RoundedValues ==
    ASSUME NEW v \in Values("chunk")
    PROVE  v \in Nat /\ Rounded(v) = v
<1>1. PICK p \in 0..Top : v = Rounded(p)
    BY DEF Values, Encode, Positions, Combos
<1> QED
    BY <1>1, Numbers, RoundedTwice

RoundInv ==
    "chunk" \in controls /\ "keys" \notin cases /\ held # "chunk" =>
        Rounded(pos["chunk"]) = pos["chunk"]

(* Where a control stands changes only so.                                 *)
LEMMA Moves ==
    ASSUME TInv, [Next]_vars, NEW c \in controls
    PROVE  \/ pos'[c] = pos[c] /\ (held' = held \/ held = "none" \/ (held # c /\ held' = "none"))
           \/ c \in Sliders /\ held = c /\ held' = "none" /\ pos'[c] = LetGo(c)[c]
              /\ (Release(c) \/ ~opened')
           \/ \E p \in Positions(c) : \/ Drag(c, p)
                                      \/ Key(c, p) /\ c \in Sliders
                                      \/ Pick(c, p) /\ c \notin Sliders /\ pos'[c] = p
           \/ OnParams /\ pos'[c] = Shown(Head(down).values)[c] /\ held' = held
           \/ OnModels /\ c = "model" /\ pos'[c] = ModelOf(Head(down).values[c]) /\ held' = held
           \/ OnCompute /\ c = "compute" /\ held' = held
<1>0. DOMAIN pos = controls
    BY DEF TInv, TypeOK, Placed
<1>1. ASSUME NEW d \in controls \intersect Sliders, Release(d)
      PROVE  \/ pos'[c] = pos[c] /\ held # c /\ held' = "none"
             \/ c \in Sliders /\ held = c /\ held' = "none" /\ pos'[c] = LetGo(c)[c] /\ Release(c)
    <2>1. pos' = LetGo(d) /\ held = d /\ held' = "none"
        BY <1>1, Zenon DEF Release
    <2>2. d # c => pos'[c] = pos[c]
        BY <2>1, LetGoShows
    <2> QED
        BY <1>1, <2>1, <2>2
<1>2. ASSUME NEW d \in controls, d # c, NEW p, Drag(d, p) \/ Key(d, p) \/ Pick(d, p)
      PROVE  pos'[c] = pos[c] /\ held' = held
    <2>1. pos' = [pos EXCEPT ![d] = p] /\ held' = held
        BY <1>2, Zenon DEF Drag, Key, Pick
    <2> QED
        BY <1>2, <2>1
<1>3. ASSUME NEW p, Pick(c, p) PROVE pos'[c] = p
    BY <1>0, <1>3 DEF Pick
<1>4. ASSUME NEW d \in controls \intersect Sliders, Press(d) PROVE pos'[c] = pos[c] /\ held = "none"
    BY <1>4, Zenon DEF Press
<1>5. CASE GiveUp \/ Disconnect
    <2>1. pos' = (IF held = "none" THEN pos ELSE LetGo(held)) /\ held' = "none" /\ ~opened'
        <3>1. GiveUp => ~opened'
            BY Zenon DEF GiveUp
        <3>2. Disconnect => ~opened'
            BY Zenon DEF Disconnect, Lost
        <3>3. pos' = (IF held = "none" THEN pos ELSE LetGo(held)) /\ held' = "none"
            BY <1>5, Zenon DEF GiveUp, Disconnect, Locked
        <3> QED
            BY <1>5, <3>1, <3>2, <3>3
    <2>2. held = "none" \/ held \in controls \intersect Sliders
        BY DEF TInv, TypeOK, Handed
    <2>3. held # "none" /\ held # c => pos'[c] = pos[c]
        BY <2>1, <2>2, LetGoShows
    <2> QED
        BY <2>1, <2>2, <2>3
<1>6. CASE ChooseInput \/ StartConversion \/ StopConversion \/ OnOpen \/ OnStarted \/ Elapse
           \/ ServerReceives \/ Drop \/ Open \/ UNCHANGED vars
    BY <1>6, Zenon DEF ChooseInput, StartConversion, StopConversion, OnOpen, OnStarted, Elapse,
                       ServerReceives, Drop, Open, vars
<1>7. OnParams => pos'[c] = Shown(Head(down).values)[c] /\ held' = held
    BY Zenon DEF OnParams
<1>8. CASE OnModels
    <2>1. held' = held
        BY <1>8, Zenon DEF OnModels
    <2>2. c # "model" => pos'[c] = pos[c]
        BY <1>0, <1>8 DEF OnModels
    <2>3. c = "model" => pos'[c] = ModelOf(Head(down).values[c])
        BY <1>0, <1>8 DEF OnModels
    <2> QED
        BY <1>8, <2>1, <2>2, <2>3
<1>9. CASE OnCompute
    <2>1. held' = held
        BY <1>9, Zenon DEF OnCompute
    <2>2. c # "compute" => pos'[c] = pos[c]
        BY <1>0, <1>9 DEF OnCompute
    <2> QED
        BY <1>9, <2>1, <2>2
<1>10. ASSUME NEW d \in controls \intersect Sliders, NEW p \in Positions(d), Drag(d, p) \/ Key(d, p)
       PROVE  \/ pos'[c] = pos[c] /\ held' = held
              \/ \E q \in Positions(c) : Drag(c, q) \/ (Key(c, q) /\ c \in Sliders)
    BY <1>2, <1>10, Zenon
<1>11. ASSUME NEW d \in controls \ Sliders, NEW p \in Positions(d), Pick(d, p)
       PROVE  \/ pos'[c] = pos[c] /\ held' = held
              \/ \E q \in Positions(c) : Pick(c, q) /\ c \notin Sliders /\ pos'[c] = q
    BY <1>2, <1>3, <1>11, Zenon
<1> QED
    BY <1>1, <1>4, <1>5, <1>6, <1>7, <1>8, <1>9, <1>10, <1>11, Zenon
       DEF Next, User, Window, Outside

LEMMA RoundStep == TInv /\ RoundInv /\ [Next]_vars => RoundInv'
<1> SUFFICES ASSUME TInv, RoundInv, [Next]_vars, NEW c \in controls, c = "chunk",
                    "keys" \notin cases, held' # c
             PROVE  Rounded(pos'[c]) = pos'[c]
    BY FixedTypes, FixedCases DEF RoundInv, Rounded
<1>1. c \in Sliders /\ c \notin Combos
    BY DEF Sliders, Combos
<1>2. CASE pos'[c] = pos[c] /\ (held' = held \/ held = "none" \/ (held # c /\ held' = "none"))
    BY <1>2 DEF RoundInv
<1>3. CASE held = c /\ pos'[c] = LetGo(c)[c]
    BY <1>1, <1>3, LetGoShows
<1>4. ASSUME NEW p \in Positions(c), \/ Drag(c, p)
                                     \/ Key(c, p) /\ c \in Sliders
                                     \/ Pick(c, p) /\ c \notin Sliders /\ pos'[c] = p
      PROVE  FALSE
    BY <1>1, <1>4, Zenon DEF Drag, Key
<1>5. CASE OnParams /\ pos'[c] = Shown(Head(down).values)[c]
    <2>1. PICK v \in Stores : Head(down).values = v
        BY <1>5 DEF OnParams, TInv, Travels, Notes
    <2>2. Shown(v)[c] = v[c] /\ v[c] \in Values(c)
        BY <1>1 DEF Shown, Stores, Recall
    <2> QED
        BY <1>5, <2>1, <2>2, RoundedValues
<1>6. c # "model" /\ c # "compute"
    OBVIOUS
<1> DEFINE Same == pos'[c] = pos[c] /\ (held' = held \/ held = "none" \/ (held # c /\ held' = "none"))
           Rests == held = c /\ pos'[c] = LetGo(c)[c]
           Moved == \E p \in Positions(c) : \/ Drag(c, p)
                                            \/ Key(c, p) /\ c \in Sliders
                                            \/ Pick(c, p) /\ c \notin Sliders /\ pos'[c] = p
           Recalled == OnParams /\ pos'[c] = Shown(Head(down).values)[c]
<1>7. Same \/ Rests \/ Moved \/ Recalled
    BY <1>6, Moves, Zenon
<1>8. ~Moved
    BY <1>4, Zenon
<1>9. ASSUME Same \/ Rests \/ Recalled PROVE Rounded(pos'[c]) = pos'[c]
    BY <1>2, <1>3, <1>5, <1>9
<1> HIDE DEF Same, Rests, Moved, Recalled
<1> QED
    BY <1>7, <1>8, <1>9

(* What a combo box shows is one of its entries.                           *)
Selected == \A c \in controls \intersect Combos : pos[c] \in items[c] \union {None}

LEMMA SelectedStep ==
    ASSUME TInv, Selected, [Next]_vars
    PROVE  Selected'
<1> SUFFICES ASSUME NEW c \in controls \intersect Combos PROVE pos'[c] \in items'[c] \union {None}
    BY FixedTypes DEF Selected, None
<1>0. /\ pos[c] \in items[c] \union {None} /\ DOMAIN pos = controls
      /\ DOMAIN items = controls \intersect Combos
    BY DEF Selected, TInv, TypeOK, Placed, Listed, Lists
<1>1. CASE OnModels
    <2>1. c = "model" => /\ pos'[c] = ModelOf(Head(down).values[c])
                         /\ items'[c] = Head(down).values[c]
        BY <1>0, <1>1 DEF OnModels
    <2>2. c = "model" => Head(down).values[c] \in SUBSET (1..Top)
        BY <1>1, ListTyped DEF OnModels
    <2>3. c # "model" => pos'[c] = pos[c] /\ items'[c] = items[c]
        BY <1>0, <1>1 DEF OnModels
    <2> QED
        BY <1>0, <2>1, <2>2, <2>3, ChosenTyped DEF TInv, TypeOK
<1>2. CASE OnCompute
    <2>1. c = "compute" => /\ pos'[c] = DeviceOf(Head(down).values[c])
                           /\ items'[c] = Head(down).values[c]
        BY <1>0, <1>2 DEF OnCompute
    <2>2. c = "compute" => Head(down).values[c] \in SUBSET (1..Top)
        BY <1>2, ListTyped DEF OnCompute
    <2>3. c # "compute" => pos'[c] = pos[c] /\ items'[c] = items[c]
        BY <1>0, <1>2 DEF OnCompute
    <2> QED
        BY <1>0, <2>1, <2>2, <2>3, ChosenTyped DEF TInv, TypeOK
<1>3. CASE ~OnModels /\ ~OnCompute
    <2>1. items' = items
        BY <1>3, Zenon DEF Next, User, Window, Outside, vars, Press, Drag, Key, Release, Pick,
           ChooseInput, StartConversion, StopConversion, OnOpen, OnParams, OnStarted, GiveUp,
           Disconnect, Elapse, ServerReceives, Drop, Open
    <2>2. c \notin Sliders
        BY DEF Sliders, Combos
    <2>3. ASSUME NEW p \in Positions(c), Drag(c, p) PROVE FALSE
        <3>1. held = c /\ c # "none"
            BY <2>3 DEF Drag, Combos
        <3> QED
            BY <2>2, <3>1 DEF TInv, TypeOK, Handed
    <2>4. ASSUME NEW p \in Positions(c), Pick(c, p) PROVE p \in items[c]
        BY <2>4 DEF Pick
    <2>5. OnParams => Shown(Head(down).values)[c] \in items[c] \union {None}
        BY <1>0 DEF Shown
    <2>6. \/ pos'[c] = pos[c]
          \/ \E p \in Positions(c) : Pick(c, p) /\ pos'[c] = p
          \/ OnParams /\ pos'[c] = Shown(Head(down).values)[c]
        BY <1>3, <2>2, <2>3, Moves, Zenon
    <2> QED
        BY <1>0, <2>1, <2>4, <2>5, <2>6
<1> QED
    BY <1>1, <1>2, <1>3

(* The last list of a kind that is on its way is this server's.            *)
Newest(d, w) ==
    \E k \in 1..Len(d) : /\ d[k].what = w /\ d[k].values = offers
                         /\ \A j \in 1..Len(d) : d[j].what = w => j <= k

LEMMA NewestTail ==
    ASSUME TInv, down # <<>>, NEW w, Newest(down, w)
    PROVE  \/ Newest(Tail(down), w)
           \/ /\ Head(down).what = w /\ Head(down).values = offers
              /\ ~In(Tail(down), w)
<1> DEFINE t == Tail(down)
<1>1. /\ Head(down) = down[1] /\ 1 \in 1..Len(down) /\ Len(down) \in Nat
      /\ \A i \in 1..Len(t) : i + 1 \in 1..Len(down) /\ t[i] = down[i + 1]
      /\ \A i \in 1..Len(down) : i # 1 => i - 1 \in 1..Len(t) /\ t[i - 1] = down[i]
    BY TailIs DEF TInv, Travels
<1> HIDE DEF t
<1>2. PICK k \in 1..Len(down) : /\ down[k].what = w /\ down[k].values = offers
                                /\ \A j \in 1..Len(down) : down[j].what = w => j <= k
    BY DEF Newest
<1>3. CASE k = 1
    <2>1. ASSUME NEW i \in 1..Len(t), t[i].what = w PROVE FALSE
        <3>1. i + 1 <= k
            BY <1>1, <1>2, <2>1
        <3> QED
            BY <1>3, <3>1
    <2> QED
        BY <1>1, <1>2, <1>3, <2>1 DEF In, t
<1>4. CASE k # 1
    <2>1. k - 1 \in 1..Len(t) /\ t[k - 1] = down[k]
        BY <1>1, <1>4
    <2>2. ASSUME NEW i \in 1..Len(t), t[i].what = w PROVE i <= k - 1
        <3>1. i + 1 <= k
            BY <1>1, <1>2, <2>2
        <3> QED
            BY <1>1, <3>1
    <2> QED
        BY <1>2, <2>1, <2>2 DEF Newest, t
<1> QED
    BY <1>3, <1>4

LEMMA NewestAdds ==
    ASSUME TInv, NEW w, NEW n \in Notes, n.what = w => n.values = offers,
           n.what = w \/ Newest(down, w)
    PROVE  Newest(Append(down, n), w)
<1> DEFINE d == Append(down, n)
<1>1. /\ Len(down) \in Nat /\ Len(d) = Len(down) + 1 /\ d[Len(down) + 1] = n
      /\ \A k \in 1..Len(down) : d[k] = down[k]
    BY AppendProperties, LenProperties DEF TInv, Travels
<1> HIDE DEF d
<1>2. /\ Len(down) + 1 \in 1..Len(d) /\ \A k \in 1..Len(down) : k \in 1..Len(d)
      /\ \A k \in 1..Len(d) : k \in 1..Len(down) \/ k = Len(down) + 1
    BY <1>1
<1>3. CASE n.what = w
    BY <1>1, <1>2, <1>3 DEF Newest, d
<1>4. CASE n.what # w
    <2>1. PICK k \in 1..Len(down) : /\ down[k].what = w /\ down[k].values = offers
                                    /\ \A j \in 1..Len(down) : down[j].what = w => j <= k
        BY <1>4 DEF Newest
    <2>2. \A j \in 1..Len(d) : d[j].what = w => j \in 1..Len(down) /\ down[j].what = w
        BY <1>1, <1>2, <1>4
    <2> QED
        BY <1>1, <1>2, <2>1, <2>2 DEF Newest, d
<1> QED
    BY <1>3, <1>4

(* On a connection a combo box has the entries of its server, or this      *)
(* server's list is yet to come, the last of those that do.                *)
Fresh(w, q, c) ==
    opened => \/ In(down, "open") \/ In(up, q) \/ Newest(down, w)
              \/ ~In(down, w) /\ (c \in controls => items[c] = offers[c])

FreshInv ==
    Fresh("models", "get_models", "model") /\ Fresh("compute", "get_compute", "compute")

(* A list of the other kind, or another note, is handled.                  *)
LEMMA FreshStep ==
    ASSUME TInv, TInv', [Next]_vars, NEW w, NEW q, NEW c, Fresh(w, q, c), opened',
           \/ w = "models" /\ q = "get_models" /\ c = "model"
           \/ w = "compute" /\ q = "get_compute" /\ c = "compute"
    PROVE  Fresh(w, q, c)'
<1> DEFINE news == In(down, "open")
           asked == In(up, q)
           sent == Newest(down, w)
           there == ~In(down, w) /\ (c \in controls => items[c] = offers[c])
<1> SUFFICES news' \/ asked' \/ sent' \/ there'
    BY DEF Fresh
<1>1. CASE Open
    <2>1. Signal("open", <<>>) \in Notes /\ Signal("open", <<>>).what = "open"
        BY DEF Notes, Signal
    <2>2. down' = Append(down, Signal("open", <<>>))
        BY <1>1 DEF Open
    <2> QED
        BY <2>1, <2>2, Arrives
<1>2. CASE ~Open
    <2>1. opened
        BY <1>2, OpenedSteps
    <2>2. news \/ asked \/ sent \/ there
        BY <2>1 DEF Fresh
    <2>3. UNCHANGED controls
        BY FixedTypes
    <2>4. ASSUME NEW ms, Add(ms) PROVE asked' <=> asked \/ In(ms, q)
        <3>1. up \in Seq(Messages) /\ ms \in Seq(Messages) /\ up' = up \o ms
            BY <2>4 DEF Add, TInv, Travels
        <3>2. In(up \o ms, q) <=> asked \/ In(ms, q)
            BY <3>1, InConcat
        <3> QED
            BY <3>1, <3>2, Zenon
    <2>5. ASSUME NEW what, Hear(what), offers' = offers
          PROVE  /\ \A x : In(down, x) <=> In(down', x) \/ x = what
                 /\ what # w /\ items'[c] = items[c] /\ sent => sent'
                 /\ what = w /\ sent => sent' \/ (~In(down', w) /\ Head(down).values = offers)
        <3>1. \A x : In(down, x) <=> In(down', x) \/ x = what
            BY <2>5, Handles DEF Hear
        <3>2. Newest(down', w) => sent'
            BY <2>5 DEF Newest
        <3>3. sent => \/ Newest(down', w)
                      \/ /\ Head(down).what = w /\ Head(down).values = offers
                         /\ ~In(down', w)
            BY <2>5, NewestTail, Zenon DEF Hear
        <3> QED
            BY <2>5, <3>1, <3>2, <3>3 DEF Hear
    <2>6. CASE UNCHANGED <<up, down, items, offers>>
        <3>1. (news' <=> news) /\ (asked' <=> asked) /\ (sent' <=> sent) /\ (there' <=> there)
            BY <2>3, <2>6, Zenon DEF In, Newest
        <3> QED
            BY <2>2, <3>1
    <2>7. ASSUME NEW m \in Messages, Speaks(m) PROVE news' \/ asked' \/ sent' \/ there'
        <3>1. asked => asked'
            <4>1. Add(<<m>>)
                BY <2>7, OneIs, Zenon DEF Add, Speaks
            <4> QED
                BY <2>4, <4>1
        <3>2. UNCHANGED <<down, items, offers>>
            BY <2>7, Zenon DEF Speaks
        <3>3. (news' <=> news) /\ (sent' <=> sent) /\ (there' <=> there)
            BY <2>3, <3>2, Zenon DEF In, Newest
        <3> QED
            BY <2>2, <3>1, <3>3
    <2>8. CASE Add(Questions)
        <3>1. In(Questions, q)
            BY QuestionsAre
        <3> QED
            BY <2>4, <2>8, <3>1
    <2>9. ASSUME NEW what, what \notin {w, "open"}, Hear(what), offers' = offers,
                 c \in controls => items'[c] = items[c], asked => asked'
          PROVE  news' \/ asked' \/ sent' \/ there'
        <3>1. \A x : In(down, x) <=> In(down', x) \/ x = what
            BY <2>5, <2>9
        <3>2. (news => news') /\ (In(down', w) => In(down, w))
            BY <2>9, <3>1
        <3>3. sent => sent'
            <4>1. sent => \/ Newest(down', w)
                          \/ /\ Head(down).what = w /\ Head(down).values = offers
                             /\ ~In(down', w)
                BY <2>9, NewestTail, Zenon DEF Hear
            <4>2. Newest(down', w) => sent'
                BY <2>9 DEF Newest
            <4> QED
                BY <2>9, <4>1, <4>2 DEF Hear
        <3>4. there => there'
            BY <2>3, <2>9, <3>2
        <3> QED
            BY <2>2, <2>9, <3>2, <3>3, <3>4
    <2>10. ASSUME Hear(w), offers' = offers, asked => asked',
                  c \in controls => items'[c] = Head(down).values[c]
           PROVE  news' \/ asked' \/ sent' \/ there'
        <3>1. \A x : In(down, x) <=> In(down', x) \/ x = w
            BY <2>5, <2>10
        <3>2. (news => news') /\ ~there
            BY <3>1
        <3>3. sent => sent' \/ there'
            <4>1. sent => \/ Newest(down', w)
                          \/ Head(down).values = offers /\ ~In(down', w)
                BY <2>10, NewestTail, Zenon DEF Hear
            <4>2. Newest(down', w) => sent'
                BY <2>10 DEF Newest
            <4> QED
                BY <2>3, <2>10, <4>1, <4>2
        <3> QED
            BY <2>2, <2>10, <3>2, <3>3
    <2>11. CASE ServerReceives
        <3>1. /\ UNCHANGED <<items, offers>>
              /\ asked <=> asked' \/ Head(up).what = q
            BY <2>11, Receives, Zenon
        <3>2. CASE down' = down /\ Head(up).what \notin {"get_models", "get_compute"}
            <4>1. (news' <=> news) /\ (sent' <=> sent) /\ (there' <=> there)
                BY <2>3, <3>1, <3>2, Zenon DEF In, Newest
            <4> QED
                BY <2>2, <3>1, <3>2, <4>1
        <3>3. ASSUME NEW n \in Notes, down' = Append(down, n), n.what = w => n.values = offers,
                     Head(up).what = q => n.what = w
              PROVE  news' \/ asked' \/ sent' \/ there'
            <4>1. \A x : In(down', x) <=> In(down, x) \/ n.what = x
                BY <3>3, Arrives
            <4>2. n.what = w \/ sent => sent'
                <5>1. n.what = w \/ sent => Newest(down', w)
                    BY <3>3, NewestAdds
                <5> QED
                    BY <3>1, <5>1 DEF Newest
            <4>3. there /\ n.what # w => there'
                BY <2>3, <3>1, <4>1
            <4> QED
                BY <2>2, <3>1, <3>3, <4>1, <4>2, <4>3
        <3> QED
            BY <2>11, <3>2, <3>3, Replies
    <2>12. ASSUME UNCHANGED <<up, stored>> \/ \E ms : Add(ms) PROVE asked => asked'
        BY <2>4, <2>12, Zenon
    <2>13. OnModels /\ c \in controls =>
               items'[c] = IF c = "model" THEN Head(down).values[c] ELSE items[c]
        BY DEF OnModels, TInv, TypeOK, Listed, Lists, Combos
    <2>14. OnCompute /\ c \in controls =>
               items'[c] = IF c = "compute" THEN Head(down).values[c] ELSE items[c]
        BY DEF OnCompute, TInv, TypeOK, Listed, Lists, Combos
    <2> HIDE DEF news, asked, sent, there
    <2>15. CASE OnModels /\ Hear("models") /\ offers' = offers /\ (asked => asked')
        BY <2>9, <2>10, <2>13, <2>15
    <2>16. CASE OnCompute /\ Hear("compute") /\ offers' = offers /\ (asked => asked')
        BY <2>9, <2>10, <2>14, <2>16
    <2>17. CASE \/ OnParams /\ Hear("params") /\ UNCHANGED <<items, offers>> /\ (asked => asked')
                \/ OnStarted /\ Hear("started") /\ UNCHANGED <<items, offers>> /\ (asked => asked')
        BY <2>9, <2>17
    <2>18. Silent => UNCHANGED <<up, down, items, offers>>
        BY Zenon DEF Silent
    <2> QED
        BY <2>1, <2>6, <2>7, <2>8, <2>11, <2>12, <2>15, <2>16, <2>17, <2>18, Courses, Zenon
<1> QED
    BY <1>1, <1>2

LEMMA FreshInvStep == TInv /\ FreshInv /\ [Next]_vars => FreshInv'
<1> SUFFICES ASSUME TInv, FreshInv, [Next]_vars PROVE FreshInv'
    OBVIOUS
<1>1. TInv'
    BY NextTInv
<1>2. CASE opened'
    <2>1. Fresh("models", "get_models", "model")'
        BY <1>1, <1>2, FreshStep DEF FreshInv
    <2>2. Fresh("compute", "get_compute", "compute")'
        BY <1>1, <1>2, FreshStep DEF FreshInv
    <2> QED
        BY <2>1, <2>2 DEF FreshInv
<1>3. CASE ~opened'
    BY <1>3 DEF FreshInv, Fresh
<1> QED
    BY <1>2, <1>3

(* What is said, and where a list comes from.                              *)
LEMMA Sayings ==
    ASSUME TInv, Selected', [Next]_vars
    PROVE  \/ up' = up \/ up' = <<>> \/ up' = Sent(Questions)
           \/ up # <<>> /\ up' = Tail(up)
           \/ \E m \in Messages :
                 up' = Sent(<<m>>) /\ (Of(m, "model") => m.value \in items'["model"])
<1> DEFINE Said == \E m \in Messages :
                       up' = Sent(<<m>>) /\ (Of(m, "model") => m.value \in items'["model"])
<1>0. UNCHANGED controls /\ controls \subseteq Controls
    BY FixedTypes DEF TInv
<1>1. ASSUME NEW c \in controls, NEW p \in Positions(c), up' = Sent(Update(c, Encode(c, p))),
             c = "model" => p \in items'["model"]
      PROVE  Said
    <2> DEFINE m == Message("update", c, Encode(c, p))
    <2>1. m \in Messages
        BY <1>0, SentTyped DEF Messages, Message
    <2>2. Of(m, "model") => m.value \in items'["model"]
        BY <1>1 DEF Of, Message, Encode
    <2>3. up' = Sent(<<m>>)
        BY <1>1 DEF Update
    <2> QED
        BY <2>1, <2>2, <2>3
<1>2. ASSUME NEW c \in controls \intersect Sliders, NEW p \in Positions(c), Drag(c, p)
      PROVE  up' = up \/ Said
    <2>1. up' = up \/ up' = Sent(Update(c, Encode(c, p)))
        BY <1>2, Zenon DEF Drag
    <2>2. c # "model"
        BY DEF Sliders
    <2> QED
        BY <1>1, <2>1, <2>2, Zenon
<1>3. ASSUME NEW c \in controls \intersect Sliders, Release(c) PROVE Said
    <2>1. pos[c] \in Positions(c) /\ c # "model"
        BY DEF TInv, TypeOK, Placed, Sliders, Combos
    <2>2. up' = Sent(Update(c, Encode(c, pos[c])))
        BY <1>3, Zenon DEF Release
    <2> QED
        BY <1>1, <2>1, <2>2, Zenon
<1>4. ASSUME NEW c \in controls \ Sliders, NEW p \in Positions(c), Pick(c, p) PROVE Said
    <2>1. Encode(c, p) = p /\ (c = "model" => c \in Combos)
        BY DEF Encode, Sliders, Combos
    <2>2. up' = Sent(Update(c, p)) /\ items' = items /\ (c \in Combos => p \in items[c])
        BY <1>4, Zenon DEF Pick
    <2> QED
        BY <1>1, <2>1, <2>2, Zenon
<1>5. CASE StartConversion \/ StopConversion
    <2>1. PICK m \in {Message("start", "chunk", 0), Message("stop", "chunk", 0)} :
              up' = Sent(<<m>>) /\ (m.what = "start" => "chunk" \in controls)
        BY <1>5 DEF StartConversion, StopConversion, Message
    <2>2. m \in Messages /\ ~Of(m, "model")
        BY <2>1 DEF Messages, Message, Of, Controls, Sliders
    <2> QED
        BY <2>1, <2>2
<1>6. CASE OnParams \/ OnModels
    <2>1. up' = Echo(pos, pos')
        BY <1>6, Zenon DEF OnParams, OnModels
    <2>2. CASE "model" \in controls /\ pos'["model"] \notin {pos["model"], None}
        <3>1. up' = Sent(Update("model", pos'["model"]))
            BY <2>1, <2>2, Zenon DEF Echo
        <3>2. pos'["model"] \in items'["model"]
            BY <1>0, <2>2 DEF Selected, Combos, None
        <3>3. pos'["model"] \in Positions("model")
            <4>1. Placed'
                BY PlacedStep
            <4> QED
                BY <1>0, <2>2, <4>1 DEF Placed, Positions, Combos, None
        <3>4. Encode("model", pos'["model"]) = pos'["model"]
            BY DEF Encode
        <3> QED
            BY <1>1, <2>2, <3>1, <3>2, <3>3, <3>4
    <2>3. CASE ~("model" \in controls /\ pos'["model"] \notin {pos["model"], None})
        BY <2>1, <2>3, Zenon DEF Echo
    <2> QED
        BY <2>2, <2>3
<1>7. CASE OnOpen
    BY <1>7, Zenon DEF OnOpen, Questions
<1>8. CASE ServerReceives
    BY <1>8, Zenon DEF ServerReceives
<1>9. CASE Drop \/ Disconnect
    BY <1>9, Zenon DEF Drop, Disconnect, Lost
<1>10. CASE OnCompute \/ OnStarted \/ GiveUp \/ Elapse \/ Open \/ ChooseInput \/ UNCHANGED vars
    BY <1>10, Zenon DEF OnCompute, OnStarted, GiveUp, Elapse, Open, ChooseInput, vars
<1>11. ASSUME NEW c \in controls, Press(c) \/ \E p \in Positions(c) : Key(c, p) PROVE up' = up
    BY <1>11, Zenon DEF Press, Key
<1> HIDE DEF Said
<1>12. CASE User
    <2>1. ASSUME NEW c \in controls \intersect Sliders,
                 \/ Press(c) \/ Release(c)
                 \/ \E p \in Positions(c) : Drag(c, p) \/ Key(c, p)
          PROVE  up' = up \/ Said
        <3>1. CASE Press(c) \/ \E p \in Positions(c) : Key(c, p)
            BY <1>11, <3>1, Zenon
        <3>2. CASE Release(c)
            BY <1>3, <3>2, Zenon
        <3>3. CASE \E p \in Positions(c) : Drag(c, p)
            BY <1>2, <3>3, Zenon
        <3> QED
            BY <2>1, <3>1, <3>2, <3>3
    <2> QED
        BY <1>4, <1>5, <1>10, <1>12, <2>1, Zenon DEF User, Said
<1> QED
    BY <1>5, <1>6, <1>7, <1>8, <1>9, <1>10, <1>12, Zenon DEF Next, Window, Outside, Said

(* The queue of the window changes so.                                     *)
LEMMA Notings ==
    ASSUME TInv, [Next]_vars
    PROVE  \/ down' = down
           \/ down # <<>> /\ down' = Tail(down)
           \/ \E k \in 0..Len(down) : down' = SubSeq(down, 1, k)
           \/ \E n \in Notes : down' = Append(down, n) /\ (n.what = "models" => n.values = offers)
<1>1. CASE ServerReceives
    BY <1>1, Replies, Zenon
<1>2. CASE Open
    <2>1. Signal("open", <<>>) \in Notes /\ Signal("open", <<>>).what # "models"
        BY DEF Notes, Signal
    <2> QED
        BY <1>2, <2>1, Zenon DEF Open
<1>3. CASE Drop \/ Disconnect
    BY <1>3, Zenon DEF Drop, Disconnect, Lost
<1>4. CASE OnOpen \/ OnParams \/ OnModels \/ OnCompute \/ OnStarted
    BY <1>4, Zenon DEF OnOpen, OnParams, OnModels, OnCompute, OnStarted
<1>5. CASE GiveUp \/ Elapse \/ User \/ UNCHANGED vars
    BY <1>5, Zenon DEF GiveUp, Elapse, User, Press, Drag, Key, Release, Pick, ChooseInput,
                       StartConversion, StopConversion, vars
<1> QED
    BY <1>1, <1>2, <1>3, <1>4, <1>5, Zenon DEF Next, Window, Outside

(* If all servers offer the same, and have nothing else loaded, the window *)
(* has that list or none, and says nothing that is not in it.              *)
Agreed ==
    /\ items["model"] \in {{}, offers["model"]}
    /\ \A k \in 1..Len(down) :
          down[k].what = "models" => down[k].values["model"] = offers["model"]
    /\ Sensible("model")
    /\ stored["model"] \in offers["model"] \union {None}

OneList == "lists" \notin cases /\ "model" \in controls => Agreed

LEMMA OneListStep ==
    ASSUME TInv, Selected, OneList, [Next]_vars
    PROVE  OneList'
<1> SUFFICES ASSUME "lists" \notin cases, "model" \in controls PROVE Agreed'
    BY FixedTypes, FixedCases DEF OneList
<1> DEFINE o == offers["model"]
<1>0. /\ UNCHANGED <<controls, cases>> /\ Selected' /\ Agreed
      /\ up \in Seq(Messages) /\ down \in Seq(Notes)
    BY FixedTypes, FixedCases, SelectedStep DEF OneList, TInv, Travels
<1>1. offers' = offers
    BY Zenon DEF Next, User, Window, Outside, vars, Press, Drag, Key, Release, Pick,
           ChooseInput, StartConversion, StopConversion, OnOpen, OnParams, OnModels, OnCompute,
           OnStarted, GiveUp, Disconnect, Elapse, ServerReceives, Drop, Open
<1>2. items'["model"] \in {{}, o}
    <2>1. CASE OnModels
        <3>1. Head(down) = down[1] /\ 1 \in 1..Len(down)
            BY <1>0, <2>1, TailIs DEF OnModels
        <3>2. Head(down).values["model"] = o
            BY <1>0, <2>1, <3>1 DEF OnModels, Agreed
        <3> QED
            BY <2>1, <3>2 DEF OnModels, TInv, TypeOK, Listed, Lists, Combos
    <2>2. CASE OnCompute
        <3>1. items'["model"] = items["model"]
            BY <2>2 DEF OnCompute, TInv, TypeOK, Listed, Lists, Combos
        <3> QED
            BY <1>0, <3>1 DEF Agreed
    <2>3. CASE ~OnModels /\ ~OnCompute
        <3>1. items' = items
            BY <2>3, Zenon DEF Next, User, Window, Outside, vars, Press, Drag, Key, Release, Pick,
               ChooseInput, StartConversion, StopConversion, OnOpen, OnParams, OnStarted, GiveUp,
               Disconnect, Elapse, ServerReceives, Drop, Open
        <3> QED
            BY <1>0, <3>1 DEF Agreed
    <2> QED
        BY <2>1, <2>2, <2>3
<1>3. \A k \in 1..Len(down') : down'[k].what = "models" => down'[k].values["model"] = o
    <2> DEFINE Same(d) == \A k \in 1..Len(d) : d[k].what = "models" => d[k].values["model"] = o
    <2>0. Same(down)
        BY <1>0 DEF Agreed
    <2>1. CASE down' = down
        BY <2>0, <2>1
    <2>2. CASE down # <<>> /\ down' = Tail(down)
        <3>1. \A k \in 1..Len(down') : k + 1 \in 1..Len(down) /\ down'[k] = down[k + 1]
            BY <2>2, Handles
        <3> QED
            BY <2>0, <3>1
    <2>3. ASSUME NEW i \in 0..Len(down), down' = SubSeq(down, 1, i) PROVE Same(down')
        <3>1. Len(down') = i /\ \A k \in 1..i : k \in 1..Len(down) /\ down'[k] = down[k]
            BY <1>0, <2>3
        <3> QED
            BY <2>0, <3>1
    <2>4. ASSUME NEW n \in Notes, down' = Append(down, n), n.what = "models" => n.values = offers
          PROVE  Same(down')
        <3>1. /\ Len(down) \in Nat /\ Len(down') = Len(down) + 1 /\ down'[Len(down) + 1] = n
              /\ \A k \in 1..Len(down) : down'[k] = down[k]
            BY <2>4, Arrives
        <3>2. \A k \in 1..Len(down') : k \in 1..Len(down) \/ k = Len(down) + 1
            BY <3>1
        <3> QED
            BY <2>0, <2>4, <3>1, <3>2
    <2> QED
        BY <2>1, <2>2, <2>3, <2>4, Notings
<1>4. \A k \in 1..Len(up') : Of(up'[k], "model") => up'[k].value \in o
    <2> DEFINE Fine(u) == \A k \in 1..Len(u) : Of(u[k], "model") => u[k].value \in o
    <2>0. Fine(up)
        BY <1>0 DEF Agreed, Sensible
    <2>1. ASSUME NEW ms \in Seq(Messages), Fine(ms) PROVE Fine(Sent(ms))
        <3>1. CASE opened
            <4> DEFINE w == up \o ms
            <4>1. \A k \in 1..Len(w) : \/ k \in 1..Len(up) /\ w[k] = up[k]
                                       \/ k - Len(up) \in 1..Len(ms) /\ w[k] = ms[k - Len(up)]
                BY <1>0, ConcatIs
            <4> HIDE DEF w
            <4>2. Fine(w)
                BY <2>0, <2>1, <4>1
            <4> QED
                BY <3>1, <4>2 DEF w, Sent
        <3>2. CASE ~opened
            BY <2>0, <3>2 DEF Sent
        <3> QED
            BY <3>1, <3>2
    <2>2. CASE up' = up \/ up' = <<>>
        BY <2>0, <2>2
    <2>3. CASE up' = Sent(Questions)
        <3>1. Fine(Questions) /\ Questions \in Seq(Messages)
            BY QuestionsAre DEF NoneOf
        <3> QED
            BY <2>1, <2>3, <3>1
    <2>4. CASE up # <<>> /\ up' = Tail(up)
        <3>1. \A k \in 1..Len(up') : k + 1 \in 1..Len(up) /\ up'[k] = up[k + 1]
            BY <1>0, <2>4, TailIs
        <3> QED
            BY <2>0, <3>1
    <2>5. ASSUME NEW m \in Messages, up' = Sent(<<m>>), Of(m, "model") => m.value \in items'["model"]
          PROVE  Fine(up')
        <3>1. /\ <<m>> \in Seq(Messages) /\ Len(<<m>>) = 1 /\ <<m>>[1] = m
              /\ Of(m, "model") => m.value \in o
            BY <1>2, <2>5, OneIs
        <3>2. Fine(<<m>>)
            BY <3>1
        <3> QED
            BY <2>1, <2>5, <3>1, <3>2
    <2> QED
        BY <1>0, <2>2, <2>3, <2>4, <2>5, Sayings
<1>5. stored'["model"] \in o \union {None}
    <2>0. stored["model"] \in o \union {None} /\ stored \in Stores
        BY <1>0 DEF Agreed, TInv, TypeOK
    <2>1. CASE ServerReceives
        <3>1. stored' = IF Accepts(Head(up)) THEN [stored EXCEPT ![Head(up).of] = Head(up).value]
                        ELSE stored
            BY <2>1, Zenon DEF ServerReceives
        <3> QED
            BY <2>0, <3>1 DEF Accepts, Stores
    <2>2. CASE Open
        BY <1>0, <1>1, <2>2 DEF Open, Loaded, None
    <2>3. CASE ~ServerReceives /\ ~Open
        <3>1. stored' = stored
            BY <2>3, Zenon DEF Next, User, Window, Outside, vars, Press, Drag, Key, Release, Pick,
               ChooseInput, StartConversion, StopConversion, OnOpen, OnParams, OnModels,
               OnCompute, OnStarted, GiveUp, Disconnect, Elapse, Drop
        <3> QED
            BY <2>0, <3>1
    <2> QED
        BY <2>1, <2>2, <2>3
<1> HIDE DEF o
<1>6. o = offers'["model"] /\ "model" \in controls'
    BY <1>0, <1>1 DEF o
<1> QED
    BY <1>2, <1>3, <1>4, <1>5, <1>6 DEF Agreed, Sensible, None

(* The setting a control shows is the one the server will have, unless the *)
(* control cannot show it.                                                 *)
Fits(c, p, v) == Encode(c, p) = v \/ Encode(c, Recall(c, v)) # v

Matched ==
    opened /\ enabled /\ "hasty" \notin cases /\ ~Awaiting =>
        \A c \in controls \ Combos :
            \/ "keys" \in cases /\ c \in Sliders
            \/ held = c
            \/ \E v : Told(c, v) /\ Fits(c, pos[c], v)

LEMMA MatchedStep ==
    ASSUME TInv, TInv', QueueInv, QueueInv', Matched, [Next]_vars
    PROVE  Matched'
<1> SUFFICES ASSUME opened', enabled', "hasty" \notin cases, ~Awaiting', NEW c \in controls \ Combos,
                    ~("keys" \in cases /\ c \in Sliders), held' # c
             PROVE  \E v : ToldNext(c, v) /\ Fits(c, pos'[c], v)
    BY FixedTypes, FixedCases DEF Matched, Told, ToldNext, Fits, Encode, Recall, Rounded, Off
<1>1. ~Open
    <2>1. ASSUME Open PROVE Awaiting'
        <3>1. Signal("open", <<>>) \in Notes /\ Signal("open", <<>>).what = "open"
            BY DEF Notes, Signal
        <3>2. In(down', "open")
            BY <2>1, <3>1, Arrives DEF Open
        <3>3. (TInv => (Awaiting <=> opened /\ (In(up, "get_params") \/ In(down, "open") \/ In(down, "params"))))'
            BY AwaitingIs, PTL
        <3> QED
            BY <3>2, <3>3
    <2> QED
        BY <2>1
<1>2. opened /\ ~GiveUp
    BY <1>1, OpenedSteps DEF GiveUp
<1>3. CASE OnParams
    <2> DEFINE w == stored[c]
    <2>1. /\ Awaiting /\ Hear("params") /\ UNCHANGED <<stored, controls>>
          /\ pos'[c] = Recall(c, Head(down).values[c])
        <3>1. Awaiting
            BY <1>2, <1>3, AwaitingStep
        <3>2. pos'[c] = Recall(c, Head(down).values[c])
            BY <1>3 DEF OnParams, Shown, Combos
        <3> QED
            BY <1>3, <3>1, <3>2, FixedTypes DEF OnParams, Hear
    <2>2. Head(down).values[c] = w
        <3>1. ~In(down', "open")
            <4>1. (TInv => (Awaiting <=> opened /\ (In(up, "get_params") \/ In(down, "open") \/ In(down, "params"))))'
                BY AwaitingIs, PTL
            <4> QED
                BY <4>1
        <3>2. Latest(down, 1) /\ Head(down) = down[1] /\ 1 \in 1..Len(down)
            BY <2>1, <3>1, Handles DEF Hear
        <3> QED
            BY <1>2, <3>2 DEF QueueInv, Answers, Combos
    <2>3. ToldNext(c, w)
        <3>1. NoneOf(up, c)
            BY <1>2, <2>1 DEF QueueInv, Undisturbed, NoneOf, Of, Combos
        <3>2. Told(c, w)
            BY <3>1 DEF Told, Gives
        <3>3. ~Release(c) /\ ~\E p \in Positions(c) : Drag(c, p) \/ Pick(c, p)
            <4>1. down' # down
                BY <1>3, TailIs DEF OnParams, TInv, Travels
            <4> QED
                BY <4>1, Zenon DEF Release, Drag, Pick
        <3>4. c # "model" /\ Sensible(c)
            BY DEF Combos, Sensible
        <3> QED
            BY <1>2, <3>2, <3>3, <3>4, Tells, Zenon
    <2>4. Fits(c, pos'[c], w)
        BY <2>1, <2>2, Zenon DEF Fits
    <2> QED
        BY <2>3, <2>4
<1>4. CASE ~OnParams
    <2>1. ~Awaiting /\ enabled
        <3>1. ~Awaiting
            BY <1>2, <1>4, AwaitingStep
        <3>2. enabled' = enabled
            BY <1>1, <1>2, <1>4, Zenon DEF Next, User, Window, Outside, vars, Press, Drag, Key,
               Release, Pick, ChooseInput, StartConversion, StopConversion, OnOpen, OnModels,
               OnCompute, OnStarted, Disconnect, Lost, Elapse, ServerReceives, Drop
        <3> QED
            BY <3>1, <3>2
    <2>2. held = c \/ \E v : Told(c, v) /\ Fits(c, pos[c], v)
        BY <1>2, <2>1 DEF Matched
    <2>3. c # "model" /\ c # "compute" /\ c \notin Combos
        BY DEF Combos
    <2>4. ASSUME c \in Sliders, Release(c) PROVE \E v : ToldNext(c, v) /\ Fits(c, pos'[c], v)
        <3>1. pos'[c] = LetGo(c)[c]
            BY <2>4, Zenon DEF Release
        <3>2. Encode(c, pos'[c]) = Encode(c, pos[c])
            BY <2>4, <3>1, LetGoShows
        <3>3. ToldNext(c, Encode(c, pos[c]))
            BY <1>2, <2>4, ReleaseTells
        <3> QED
            BY <3>2, <3>3, Zenon DEF Fits
    <2>5. ASSUME NEW p \in Positions(c), c \notin Sliders, Pick(c, p)
          PROVE  \E v : ToldNext(c, v) /\ Fits(c, pos'[c], v)
        <3>1. Encode(c, p) = p
            BY <2>5 DEF Encode, Sliders
        <3>2. ToldNext(c, p) /\ pos'[c] = p
            BY <1>2, <2>5, PickTells
        <3> QED
            BY <3>1, <3>2, Zenon DEF Fits
    <2>6. ASSUME NEW p \in Positions(c), Drag(c, p) \/ (Key(c, p) /\ c \in Sliders) PROVE FALSE
        BY <2>6, Zenon DEF Drag, Key
    <2>7. ASSUME pos'[c] = pos[c], held # c, ~(c \in Sliders /\ Release(c)),
                 ~\E p \in Positions(c) : c \notin Sliders /\ Pick(c, p)
          PROVE  \E v : ToldNext(c, v) /\ Fits(c, pos'[c], v)
        <3>0. Sensible(c)
            BY <2>3 DEF Sensible
        <3>1. \A v : Told(c, v) => ToldNext(c, v)
            BY <1>2, <2>3, <2>6, <2>7, <3>0, Tells, Zenon
        <3> QED
            BY <2>2, <2>7, <3>1, Zenon
    <2>8. \/ pos'[c] = pos[c] /\ held # c
          \/ c \in Sliders /\ Release(c)
          \/ \E p \in Positions(c) : c \notin Sliders /\ Pick(c, p)
        <3>1. held = "none" => held # c
            BY DEF TInv, Controls, Sliders, Combos
        <3> QED
            BY <1>4, <2>3, <2>6, <3>1, Moves, Zenon
    <2> QED
        BY <2>4, <2>5, <2>7, <2>8, Zenon
<1> QED
    BY <1>3, <1>4

(* The model the window shows is the one the server will have: or the      *)
(* server's is still to be shown, or the window has not got the list, or   *)
(* there is none to show, or none is wanted.                               *)
Unsaid ==
    /\ NoneOf(up, "model")
    /\ \A k \in 1..Len(down) : Latest(down, k) => down[k].values["model"] = stored["model"]
    /\ \/ items["model"] # offers["model"] \/ stored["model"] = None
       \/ Awaiting \/ WantsNone

ModelInv ==
    opened /\ "model" \in controls /\ "lists" \notin cases =>
        Told("model", pos["model"]) \/ Unsaid

(* The notes on their way say of the model what the server has.            *)
LEMMA LatestModel ==
    ASSUME TInv, TInv', [Next]_vars, opened, opened', Unsaid, stored'["model"] = stored["model"]
    PROVE  \A k \in 1..Len(down') : Latest(down', k) => down'[k].values["model"] = stored'["model"]
<1> DEFINE Agrees == \A k \in 1..Len(down') : Latest(down', k) => down'[k].values["model"] = stored'["model"]
<1>1. \A k \in 1..Len(down) : Latest(down, k) => down[k].values["model"] = stored["model"]
    BY DEF Unsaid
<1>2. down' = down => Agrees
    BY <1>1
<1>3. ASSUME NEW what, Hear(what) PROVE Agrees
    <2>1. \A k \in 1..Len(down') : /\ k + 1 \in 1..Len(down) /\ down'[k] = down[k + 1]
                                   /\ Latest(down', k) => Latest(down, k + 1)
        BY <1>3, Handles DEF Hear
    <2> QED
        BY <1>1, <2>1
<1>4. ASSUME NEW n \in Notes, down' = Append(down, n),
             n.what = "params" => n.values = stored /\ stored' = stored
      PROVE  Agrees
    <2> SUFFICES ASSUME NEW k \in 1..Len(down'), Latest(down', k)
                 PROVE  down'[k].values["model"] = stored'["model"]
        OBVIOUS
    <2>1. CASE k \in 1..Len(down)
        <3>1. down'[k] = down[k] /\ Latest(down, k)
            BY <1>4, <2>1, Arrives
        <3> QED
            BY <1>1, <2>1, <3>1
    <2>2. CASE k \notin 1..Len(down)
        <3>1. down'[k] = n
            BY <1>4, <2>2, Arrives
        <3> QED
            BY <1>4, <3>1 DEF Latest
    <2> QED
        BY <2>1, <2>2
<1>5. Silent => down' = down
    BY Zenon DEF Silent
<1>6. \A m : Speaks(m) => down' = down
    BY Zenon DEF Speaks
<1> HIDE DEF Agrees
<1>7. ServerReceives => Agrees
    BY <1>2, <1>4, Replies, Zenon
<1>8. Agrees
    BY <1>2, <1>3, <1>5, <1>6, <1>7, Courses, Zenon
<1> QED
    BY <1>8 DEF Agrees

(* The window comes to show no model only if it has the list and none of   *)
(* it is wanted.                                                           *)
LEMMA NoneWanted ==
    ASSUME TInv, TInv', Selected, OneList, [Next]_vars, opened, opened',
           "model" \in controls, "lists" \notin cases
    PROVE  /\ offers' = offers /\ (pos'["model"] = None => pos["model"] = None)
           /\ WantsNone /\ pos'["model"] = pos["model"] => WantsNone'
           /\ items["model"] # offers["model"] /\ items'["model"] = offers["model"]
                  => pos'["model"] # pos["model"] \/ WantsNone'
<1> DEFINE c == "model"
           o == offers[c]
<1>0. /\ Agreed /\ c \in controls /\ c \in Combos /\ c \notin Sliders
      /\ pos[c] \in items[c] \union {None} /\ items[c] \in {{}, o}
    BY DEF OneList, Agreed, Selected, Combos, Sliders
<1>1. offers' = offers
    BY Zenon DEF Next, User, Window, Outside, vars, Press, Drag, Key, Release, Pick,
           ChooseInput, StartConversion, StopConversion, OnOpen, OnParams, OnModels, OnCompute,
           OnStarted, GiveUp, Disconnect, Elapse, ServerReceives, Drop, Open
<1>2. o \subseteq 1..Top /\ items[c] \subseteq 1..Top /\ None \notin 1..Top /\ None' = None
    BY <1>0, Numbers DEF TInv, TypeOK, Listed, Lists, None
<1>3. saved' = saved \/ OnStarted
    BY Zenon DEF Next, User, Window, Outside, vars, Press, Drag, Key, Release, Pick,
           ChooseInput, StartConversion, StopConversion, OnOpen, OnParams, OnModels, OnCompute,
           GiveUp, Disconnect, Elapse, ServerReceives, Drop, Open
<1>4. pos[c] = None => saved'[c] = saved[c]
    BY <1>0, <1>3 DEF OnStarted, TInv, TypeOK, Listed
<1>5. OnModels => /\ Head(down).values[c] = o /\ items'[c] = o /\ pos'[c] = ModelOf(o)
                  /\ saved' = saved
    <2> SUFFICES ASSUME OnModels
                 PROVE  /\ Head(down).values[c] = o /\ items'[c] = o /\ pos'[c] = ModelOf(o)
                        /\ saved' = saved
        OBVIOUS
    <2>1. Head(down) = down[1] /\ 1 \in 1..Len(down) /\ Head(down).what = "models"
        BY TailIs DEF OnModels, TInv, Travels
    <2>2. Head(down).values[c] = o
        BY <1>0, <2>1 DEF Agreed
    <2> QED
        BY <1>0, <2>2 DEF OnModels, TInv, TypeOK, Placed, Listed, Lists
<1>6. pos[c] \in o => ModelOf(o) = pos[c]
    BY DEF ModelOf
<1>7. pos[c] \notin o => /\ saved[c] \in o => ModelOf(o) = saved[c]
                         /\ saved[c] = None /\ o # {} => ModelOf(o) \in o
    BY <1>2 DEF ModelOf, First
<1>8. ASSUME pos'[c] = None PROVE pos[c] = None
    <2>1. OnParams => Shown(Head(down).values)[c] \in items[c] \union {pos[c]}
        BY <1>0 DEF Shown
    <2>2. ASSUME NEW p, Drag(c, p) PROVE FALSE
        <3>1. held = c /\ c # "none"
            BY <2>2 DEF Drag
        <3> QED
            BY <1>0, <3>1 DEF TInv, TypeOK, Handed
    <2>3. ASSUME NEW p \in Positions(c), Pick(c, p), pos'[c] = p PROVE FALSE
        BY <1>0, <1>2, <1>8, <2>3 DEF Positions
    <2>4. \/ pos'[c] = pos[c]
          \/ OnParams /\ pos'[c] = Shown(Head(down).values)[c]
          \/ OnModels
        <3> HIDE DEF c
        <3>1. c # "compute"
            BY DEF c
        <3> QED
            BY <1>0, <2>2, <2>3, <3>1, Moves, Zenon
    <2> QED
        BY <1>0, <1>2, <1>5, <1>6, <1>8, <2>1, <2>4
<1>9. WantsNone /\ pos'[c] = pos[c] => WantsNone'
    BY <1>1, <1>2, <1>4 DEF WantsNone
<1>10. ASSUME items[c] # o, items'[c] = o, pos'[c] = pos[c] PROVE WantsNone'
    <2>1. OnModels
        <3>1. items' = items \/ OnCompute \/ OnModels
            BY Zenon DEF Next, User, Window, Outside, vars, Press, Drag, Key, Release, Pick,
               ChooseInput, StartConversion, StopConversion, OnOpen, OnParams, OnStarted, GiveUp,
               Disconnect, Elapse, ServerReceives, Drop, Open
        <3>2. OnCompute => items'[c] = items[c]
            BY <1>0 DEF OnCompute, TInv, TypeOK, Listed, Lists
        <3> QED
            BY <1>10, <3>1, <3>2
    <2>2. pos[c] = None /\ o # {} /\ ModelOf(o) = None /\ saved'[c] = saved[c]
        BY <1>0, <1>4, <1>5, <1>10, <2>1
    <2>3. saved[c] \notin o \union {None}
        BY <1>2, <1>7, <2>2
    <2> QED
        BY <1>1, <1>2, <1>10, <2>2, <2>3 DEF WantsNone
<1> QED
    BY <1>1, <1>8, <1>9, <1>10

LEMMA ModelStep ==
    ASSUME TInv, TInv', QueueInv, Selected, OneList, ModelInv, [Next]_vars
    PROVE  ModelInv'
<1> DEFINE c == "model"
<1> SUFFICES ASSUME opened', "model" \in controls, "lists" \notin cases
             PROVE  ToldNext(c, pos'[c]) \/ Unsaid'
    BY FixedTypes, FixedCases DEF ModelInv, Told, ToldNext
<1>1. CASE Open
    <2>1. Signal("open", <<>>) \in Notes /\ Signal("open", <<>>).what = "open"
          /\ down' = Append(down, Signal("open", <<>>))
        BY <1>1 DEF Open, Notes, Signal
    <2>2. Awaiting'
        <3>1. In(down', "open")
            BY <2>1, Arrives
        <3>2. (TInv => (Awaiting <=> opened /\ (In(up, "get_params") \/ In(down, "open") \/ In(down, "params"))))'
            BY AwaitingIs, PTL
        <3> QED
            BY <3>1, <3>2
    <2>3. ASSUME NEW k \in 1..Len(down'), Latest(down', k) PROVE FALSE
        <3>1. k \notin 1..Len(down)
            BY <2>1, <2>3, Arrives
        <3>2. down'[k].what = "open"
            BY <2>1, <3>1, Arrives
        <3> QED
            BY <2>3, <3>2 DEF Latest
    <2>4. up' = <<>>
        BY <1>1 DEF Open, QueueInv, Quiet
    <2>5. NoneOf(up', c)
        BY <2>4 DEF NoneOf
    <2> QED
        BY <2>2, <2>3, <2>5 DEF Unsaid
<1>2. CASE ~Open
    <2>1. opened
        BY <1>2, OpenedSteps
    <2>2. /\ c \notin Sliders /\ c \in controls /\ c # "compute" /\ c \in Combos
          /\ Sensible(c) /\ Agreed
        BY DEF Sliders, Combos, OneList, Agreed
    <2>0. /\ offers' = offers /\ (pos'[c] = None => pos[c] = None)
          /\ WantsNone /\ pos'[c] = pos[c] => WantsNone'
          /\ items[c] # offers[c] /\ items'[c] = offers[c]
                 => pos'[c] # pos[c] \/ WantsNone'
        BY <2>1, NoneWanted
    <2> HIDE DEF c
    <2>3. ASSUME NEW p \in Positions(c), Pick(c, p) PROVE ToldNext(c, pos'[c])
        BY <2>1, <2>2, <2>3, PickTells
    <2>4. \/ ToldNext(c, pos'[c])
          \/ /\ NoneOf(up, c) => NoneOf(up', c) /\ stored'[c] = stored[c]
             /\ \A v : Told(c, v) => ToldNext(c, v)
        BY <2>1, <2>2, Tells, Zenon
    <2>5. CASE Told(c, pos[c]) /\ pos'[c] = pos[c]
        BY <2>4, <2>5, Zenon
    <2>6. CASE pos'[c] # pos[c]
        <3>1. OnParams \/ OnModels \/ \E p \in Positions(c) : Pick(c, p)
            <4>1. held # c
                BY <2>2 DEF TInv, TypeOK, Handed, c
            <4>2. \A p : ~Drag(c, p)
                BY <4>1 DEF Drag
            <4> QED
                BY <2>2, <2>6, <4>2, Moves, Zenon
        <3>2. CASE OnParams \/ OnModels
            <4> DEFINE m == Message("update", "model", pos'["model"])
            <4>1. up' = Echo(pos, pos') /\ stored' = stored
                BY <3>2, Zenon DEF OnParams, OnModels
            <4>2. "model" \in controls => pos'["model"] \in 1..Top \union {None}
                <5>1. Placed' /\ UNCHANGED controls
                    BY FixedTypes DEF TInv, TypeOK
                <5> QED
                    BY <5>1 DEF Placed, Positions, Combos
            <4>3. m \in Messages /\ Echo(pos, pos') = up \o <<m>>
                BY <2>0, <2>1, <2>6, <4>2, EchoIs DEF c
            <4>4. Of(m, c) /\ m.value = pos'[c]
                BY DEF Message, Of, c
            <4> HIDE DEF m
            <4>5. Add(<<m>>)
                BY <4>1, <4>3, OneIs, Zenon DEF Add
            <4>6. ToldNext(c, m.value)
                BY <4>3, <4>4, <4>5, ToldNew, Zenon
            <4> QED
                BY <4>4, <4>6, Zenon DEF c
        <3> QED
            BY <2>3, <3>1, <3>2, Zenon DEF c
    <2>7. CASE Unsaid /\ pos'[c] = pos[c] /\ ~ToldNext(c, pos'[c])
        <3>1. NoneOf(up', c) /\ stored'[c] = stored[c]
            BY <2>4, <2>7 DEF Unsaid, c
        <3>2. \A k \in 1..Len(down') : Latest(down', k) => down'[k].values[c] = stored'[c]
            BY <2>1, <2>7, <3>1, LatestModel DEF c
        <3>3. ASSUME items'[c] = offers'[c], stored'[c] # None, ~Awaiting', ~WantsNone' PROVE FALSE
            <4>1. stored[c] # None /\ items[c] = offers[c] /\ Awaiting
                BY <2>0, <2>7, <3>1, <3>3 DEF Unsaid, c
            <4>2. stored[c] \in items[c]
                BY <2>2, <4>1 DEF Agreed, c
            <4>3. OnParams
                BY <2>1, <3>3, <4>1, AwaitingStep
            <4>4. Hear("params")
                BY <4>3, Zenon DEF OnParams, Hear
            <4>5. ~In(down', "open")
                <5>1. (TInv => (Awaiting <=> opened /\ (In(up, "get_params") \/ In(down, "open") \/ In(down, "params"))))'
                    BY AwaitingIs, PTL
                <5> QED
                    BY <3>3, <5>1
            <4>6. Latest(down, 1) /\ Head(down) = down[1] /\ 1 \in 1..Len(down)
                BY <4>4, <4>5, Handles DEF Hear
            <4>7. Head(down).values[c] = stored[c]
                BY <2>7, <4>6 DEF Unsaid, c
            <4>8. pos'[c] = stored[c]
                BY <2>2, <4>2, <4>3, <4>7 DEF OnParams, Shown, c
            <4>9. Told(c, stored[c])
                BY <2>7 DEF Unsaid, Told, Gives, c
            <4>10. ToldNext(c, pos'[c])
                BY <2>4, <4>8, <4>9, Zenon
            <4> QED
                BY <2>7, <4>10
        <3> QED
            BY <3>1, <3>2, <3>3 DEF Unsaid, None, c
    <2> QED
        BY <2>1, <2>5, <2>6, <2>7 DEF ModelInv, c
<1> QED
    BY <1>1, <1>2

ShowInv ==
    TInv /\ QueueInv /\ Matched /\ Selected /\ FreshInv /\ OneList /\ ModelInv

LEMMA InitShowInv == Init => ShowInv
<1> SUFFICES ASSUME Init PROVE ShowInv
    OBVIOUS
<1>1. TInv
    BY InitTInv
<1>2. ~opened /\ up = <<>> /\ serverLength = None
    BY DEF Init
<1>3. QueueInv /\ Matched /\ ModelInv
    BY <1>2 DEF QueueInv, Quiet, Undisturbed, Answers, Matched, ModelInv
<1>4. Selected /\ FreshInv
    BY <1>2 DEF Init, Selected, FreshInv, Fresh, Combos
<1>5. OneList
    BY <1>2 DEF Init, OneList, Agreed, Sensible, Loaded, Combos
<1> QED
    BY <1>1, <1>3, <1>4, <1>5 DEF ShowInv

LEMMA NextShowInv == ShowInv /\ [Next]_vars => ShowInv'
<1> SUFFICES ASSUME ShowInv, [Next]_vars PROVE ShowInv'
    OBVIOUS
<1>1. TInv /\ QueueInv /\ Matched /\ Selected /\ FreshInv /\ OneList /\ ModelInv
    BY DEF ShowInv
<1>2. TInv'
    BY <1>1, NextTInv
<1>3. QueueInv'
    <2>1. Quiet'
        BY <1>1, QuietStep DEF QueueInv
    <2>2. Undisturbed'
        BY <1>1, <1>2, UndisturbedStep DEF QueueInv
    <2>3. Answers'
        BY <1>1, <1>2, AnswersStep
    <2> QED
        BY <2>1, <2>2, <2>3 DEF QueueInv
<1>4. Selected' /\ FreshInv' /\ OneList'
    BY <1>1, SelectedStep, FreshInvStep, OneListStep
<1>5. Matched'
    BY <1>1, <1>2, <1>3, MatchedStep
<1>6. ModelInv'
    BY <1>1, <1>2, ModelStep
<1> QED
    BY <1>2, <1>3, <1>4, <1>5, <1>6 DEF ShowInv

(* Nothing is on its way: what was told is what is stored.                 *)
LEMMA NothingLeft ==
    ASSUME up = <<>>, NEW c, NEW v, Told(c, v)
    PROVE  stored[c] = v
<1>1. Len(up) = 0
    OBVIOUS
<1> QED
    BY <1>1 DEF Told, Gives

(* When nothing moves, each control shows the value the server works with: *)
(* the last position of a slider is always sent, whatever of a drag is     *)
(* not; what a link loses, the next one's stored settings replace          *)
(* (uwavclient.cpp:1765-2130, 748-862).  A combo box shows nothing that is *)
(* not on offer, whatever was on offer before; the model's shows what the  *)
(* server has, unless its list has changed or the saved model is not in it *)
(* (955-1030).                                                             *)
THEOREM ShowsStored == Spec => []WindowShowsStored
<1>1. ShowInv => WindowShowsStored
    <2> SUFFICES ASSUME ShowInv, Settled, NEW c \in controls PROVE Right(c)
        BY DEF WindowShowsStored
    <2>0. up = <<>> /\ down = <<>> /\ opened /\ enabled /\ held = "none" /\ c \in Controls
        BY DEF Settled, ShowInv, TInv
    <2>1. \A s, what : s = <<>> => ~In(s, what)
        BY DEF In
    <2>2. ~Awaiting
        BY <2>0, <2>1, AwaitingIs DEF ShowInv
    <2>3. c \in Combos => pos[c] \in offers[c] \union {None} /\ items[c] = offers[c]
        <3>1. c \in Combos => items[c] = offers[c]
            <4>1. \A w : ~Newest(down, w)
                BY <2>0 DEF Newest
            <4> QED
                BY <2>0, <2>1, <4>1 DEF ShowInv, FreshInv, Fresh, Combos
        <3> QED
            BY <3>1 DEF ShowInv, Selected
    <2>4. CASE c = "model" /\ "lists" \notin cases
        <3>1. Encode(c, pos[c]) = pos[c]
            BY <2>4 DEF Encode
        <3>2. Told(c, pos[c]) \/ Unsaid
            BY <2>0, <2>4 DEF ShowInv, ModelInv
        <3>3. Unsaid => stored[c] = None \/ WantsNone
            BY <2>2, <2>3, <2>4 DEF Unsaid, Combos
        <3>4. Excused(c) \/ Shows(c)
            BY <2>0, <2>4, <3>1, <3>2, <3>3, NothingLeft DEF Excused, Shows
        <3> QED
            BY <2>3, <3>4 DEF Right
    <2>5. CASE c \notin Combos /\ "hasty" \notin cases /\ ~("keys" \in cases /\ c \in Sliders)
        <3>1. held # c
            BY <2>0 DEF Controls, Sliders, Combos
        <3>2. PICK v : Told(c, v) /\ Fits(c, pos[c], v)
            BY <2>0, <2>2, <2>5, <3>1 DEF ShowInv, Matched
        <3>3. v = stored[c]
            BY <2>0, <3>2, NothingLeft
        <3> QED
            BY <2>5, <3>2, <3>3 DEF Fits, Excused, Shows, Right
    <2>6. CASE c \in Combos /\ (c # "model" \/ "lists" \in cases)
        BY <2>3, <2>6 DEF Excused, Right, Combos
    <2>7. CASE c \notin Combos /\ ("hasty" \in cases \/ ("keys" \in cases /\ c \in Sliders))
        BY <2>7 DEF Excused, Right, Combos
    <2> QED
        BY <2>4, <2>5, <2>6, <2>7 DEF Combos
<1> QED
    BY <1>1, InitShowInv, NextShowInv, PTL DEF Spec

-----------------------------------------------------------------------------
(* The lengths of a conversion.                                            *)

(* A start the server has not received, and no stop after it.              *)
Starting(u, k) == u[k].what = "start" /\ \A j \in 1..Len(u) : j > k => u[j].what # "stop"

(* The server will start with the length the client has, and is not told   *)
(* of another; or has started with it.  Without a conversion it will not   *)
(* start.                                                                  *)
Starts ==
    \A k \in 1..Len(up) : Starting(up, k) =>
        /\ length # None
        /\ cases \intersect {"hasty", "keys", "resize"} = {} =>
              /\ Told("chunk", length)
              /\ \A j \in 1..Len(up) : j > k => ~Of(up[j], "chunk")

Started ==
    cases \intersect {"hasty", "keys", "resize"} = {} /\ length # None =>
        /\ held # "chunk"
        /\ ~In(up, "start") /\ ~In(up, "stop") /\ serverLength # None => serverLength = length

ConvInv == Starts /\ Started

(* What is added keeps the starts as they are.                             *)
LEMMA StartingAdds ==
    ASSUME NEW S, NEW u \in Seq(S), NEW ms \in Seq(S), NEW k \in 1..Len(u \o ms), Starting(u \o ms, k)
    PROVE  \/ k \in 1..Len(u) /\ Starting(u, k) /\ ~In(ms, "stop")
           \/ k \notin 1..Len(u) /\ In(ms, "start")
<1> DEFINE w == u \o ms
<1>1. /\ Len(u) \in Nat /\ Len(ms) \in Nat
      /\ \A j \in 1..Len(u) : j \in 1..Len(w) /\ w[j] = u[j]
      /\ \A j \in 1..Len(ms) : Len(u) + j \in 1..Len(w) /\ w[Len(u) + j] = ms[j]
      /\ \A j \in 1..Len(w) : \/ j \in 1..Len(u)
                              \/ j > Len(u) /\ j - Len(u) \in 1..Len(ms) /\ w[j] = ms[j - Len(u)]
    BY ConcatIs
<1> HIDE DEF w
<1>2. k \in 1..Len(w) /\ Starting(w, k)
    BY DEF w
<1>3. CASE k \in 1..Len(u)
    <2>1. Starting(u, k)
        BY <1>1, <1>2, <1>3 DEF Starting
    <2>2. ASSUME NEW j \in 1..Len(ms), ms[j].what = "stop" PROVE FALSE
        <3>1. Len(u) + j \in 1..Len(w) /\ Len(u) + j > k /\ w[Len(u) + j].what = "stop"
            BY <1>1, <1>3, <2>2
        <3> QED
            BY <1>2, <3>1 DEF Starting
    <2> QED
        BY <1>3, <2>1, <2>2 DEF In
<1>4. CASE k \notin 1..Len(u)
    <2>1. k - Len(u) \in 1..Len(ms) /\ ms[k - Len(u)].what = "start"
        BY <1>1, <1>2, <1>4 DEF Starting
    <2> QED
        BY <1>4, <2>1 DEF In
<1> QED
    BY <1>3, <1>4

(* Who says what, once more: a conversion is started and stopped by two    *)
(* actions, and a value is told by the control's own.                      *)
LEMMA Says ==
    ASSUME TInv, TInv', [Next]_vars, opened, opened'
    PROVE  \/ ServerReceives
           \/ StartConversion /\ Add(<<Message("start", "chunk", 0)>>)
              /\ Message("start", "chunk", 0) \in Messages
           \/ StopConversion /\ Add(<<Message("stop", "chunk", 0)>>)
              /\ Message("stop", "chunk", 0) \in Messages
           \/ /\ UNCHANGED lengthVars
              /\ \E ms : /\ Add(ms) /\ ~In(ms, "start") /\ ~In(ms, "stop")
                         /\ \A c \in controls : \/ NoneOf(ms, c) \/ c = "model"
                                                \/ Release(c)
                                                \/ \E p : Drag(c, p) \/ (c \notin Sliders /\ Pick(c, p))
<1> DEFINE Other(ms) ==
               /\ Add(ms) /\ ~In(ms, "start") /\ ~In(ms, "stop")
               /\ \A c \in controls : \/ NoneOf(ms, c) \/ c = "model"
                                      \/ Release(c)
                                      \/ \E p : Drag(c, p) \/ (c \notin Sliders /\ Pick(c, p))
<1>1. ASSUME up' = up, stored' = stored PROVE Other(<<>>)
    <2>1. <<>> \in Seq(Messages) /\ up' = up \o <<>> /\ Len(<<>>) = 0
        BY <1>1 DEF TInv, Travels
    <2>2. ~In(<<>>, "start") /\ ~In(<<>>, "stop") /\ \A c : NoneOf(<<>>, c)
        BY <2>1 DEF In, NoneOf
    <2> QED
        BY <1>1, <2>1, <2>2 DEF Add
<1>2. ASSUME NEW d, NEW v, up' = Sent(Update(d, v)), stored' = stored, Message("update", d, v) \in Messages,
             d = "model" \/ Release(d) \/ \E p : Drag(d, p) \/ (d \notin Sliders /\ Pick(d, p))
      PROVE  \E ms : Other(ms)
    <2> DEFINE m == Message("update", d, v)
    <2>1. m.what = "update" /\ (\A c : Of(m, c) <=> c = d) /\ m \in Messages
        BY <1>2 DEF Message, Of
    <2>2. up' = up \o <<m>>
        BY <1>2, Zenon DEF Sent, Update
    <2> HIDE DEF m
    <2>3. Add(<<m>>) /\ ~In(<<m>>, "start") /\ ~In(<<m>>, "stop") /\ \A c : c # d => NoneOf(<<m>>, c)
        BY <1>2, <2>1, <2>2, OneIs DEF Add
    <2>4. ASSUME NEW c \in controls
          PROVE  \/ NoneOf(<<m>>, c) \/ c = "model"
                 \/ Release(c)
                 \/ \E p : Drag(c, p) \/ (c \notin Sliders /\ Pick(c, p))
        <3>1. CASE c = d
            BY <1>2, <3>1
        <3>2. CASE c # d
            BY <2>3, <3>2, Zenon
        <3> QED
            BY <3>1, <3>2, Zenon
    <2>5. Other(<<m>>)
        BY <2>3, <2>4, Zenon
    <2> HIDE DEF Other
    <2> QED
        BY <2>5
<1>3. ASSUME NEW d \in controls, NEW p \in Positions(d) PROVE Message("update", d, Encode(d, p)) \in Messages
    <2>1. d \in Controls
        BY DEF TInv
    <2> QED
        BY <2>1, SentTyped DEF Messages, Message
<1> HIDE DEF Other
<1>4. ASSUME NEW d \in controls \intersect Sliders, Release(d)
      PROVE  UNCHANGED lengthVars /\ \E ms : Other(ms)
    <2>1. up' = Sent(Update(d, Encode(d, pos[d]))) /\ stored' = stored /\ UNCHANGED lengthVars
        BY <1>4, Zenon DEF Release
    <2>2. pos[d] \in Positions(d)
        BY DEF TInv, TypeOK, Placed, Sliders, Combos
    <2> QED
        BY <1>2, <1>3, <1>4, <2>1, <2>2, Zenon
<1>5. ASSUME NEW d \in controls \intersect Sliders, NEW p \in Positions(d), Drag(d, p)
      PROVE  UNCHANGED lengthVars /\ \E ms : Other(ms)
    <2>1. /\ up' = up \/ up' = Sent(Update(d, Encode(d, p)))
          /\ stored' = stored /\ UNCHANGED lengthVars
        BY <1>5, Zenon DEF Drag
    <2> QED
        BY <1>1, <1>2, <1>3, <1>5, <2>1, Zenon
<1>6. ASSUME NEW d \in controls \ Sliders, NEW p \in Positions(d), Pick(d, p)
      PROVE  UNCHANGED lengthVars /\ \E ms : Other(ms)
    <2>1. up' = Sent(Update(d, p)) /\ stored' = stored /\ UNCHANGED lengthVars
        BY <1>6, Zenon DEF Pick
    <2>2. Encode(d, p) = p
        BY DEF Encode, Sliders
    <2>3. Message("update", d, p) \in Messages
        BY <1>3, <2>2, Zenon
    <2> QED
        BY <1>2, <1>6, <2>1, <2>3, Zenon
<1>7. ASSUME NEW d, Press(d) \/ \E p : Key(d, p)
      PROVE  UNCHANGED lengthVars /\ \E ms : Other(ms)
    <2>1. up' = up /\ stored' = stored /\ UNCHANGED lengthVars
        BY <1>7, Zenon DEF Press, Key
    <2> QED
        BY <1>1, <2>1, Zenon
<1>8. ASSUME ChooseInput \/ OnCompute \/ OnStarted \/ Elapse \/ UNCHANGED vars
      PROVE  UNCHANGED lengthVars /\ \E ms : Other(ms)
    <2>1. up' = up /\ stored' = stored /\ UNCHANGED lengthVars
        BY <1>8, Zenon DEF ChooseInput, OnCompute, OnStarted, Elapse, vars
    <2> QED
        BY <1>1, <2>1, Zenon
<1>9. ASSUME OnParams \/ OnModels
      PROVE  UNCHANGED lengthVars /\ \E ms : Other(ms)
    <2>1. stored' = stored /\ UNCHANGED lengthVars /\ up' = Echo(pos, pos')
        BY <1>9, Zenon DEF OnParams, OnModels
    <2>2. "model" \in controls => pos'["model"] \in 1..Top \union {None}
        <3>1. Placed' /\ UNCHANGED controls
            BY FixedTypes DEF TInv, TypeOK
        <3> QED
            BY <3>1 DEF Placed, Positions, Combos
    <2>3. \/ up' = up
          \/ /\ Message("update", "model", pos'["model"]) \in Messages
             /\ up' = Sent(Update("model", pos'["model"]))
        BY <2>1, <2>2, EchoIs, Zenon DEF Sent, Update
    <2> QED
        BY <1>1, <1>2, <2>1, <2>3, Zenon
<1>10. ASSUME OnOpen
       PROVE  UNCHANGED lengthVars /\ \E ms : Other(ms)
    <2>1. Add(Questions) /\ UNCHANGED lengthVars
        BY <1>10, QuestionsAre, Zenon DEF OnOpen, Sent, Questions, Add
    <2>2. ~In(Questions, "start") /\ ~In(Questions, "stop")
        BY QuestionsAre DEF In
    <2>3. Other(Questions)
        BY <2>1, <2>2, QuestionsAre, Zenon DEF Other
    <2> QED
        BY <2>1, <2>3
<1>11. ASSUME StartConversion
       PROVE  Add(<<Message("start", "chunk", 0)>>) /\ Message("start", "chunk", 0) \in Messages
    <2>1. Message("start", "chunk", 0) \in Messages
        BY <1>11 DEF StartConversion, Messages, Message, Controls, Sliders
    <2>2. up' = Sent(<<Message("start", "chunk", 0)>>) /\ stored' = stored
        BY <1>11, Zenon DEF StartConversion
    <2> QED
        BY <2>1, <2>2, OneIs, Zenon DEF Add, Sent
<1>12. ASSUME StopConversion
       PROVE  Add(<<Message("stop", "chunk", 0)>>) /\ Message("stop", "chunk", 0) \in Messages
    <2>1. Message("stop", "chunk", 0) \in Messages
        BY DEF Messages, Message, Controls, Sliders
    <2>2. up' = Sent(<<Message("stop", "chunk", 0)>>) /\ stored' = stored
        BY <1>12, Zenon DEF StopConversion
    <2> QED
        BY <2>1, <2>2, OneIs, Zenon DEF Add, Sent
<1>13. ~Open
    BY DEF Open
<1>14. ASSUME NEW d \in controls \intersect Sliders,
              \/ Press(d) \/ Release(d)
              \/ \E p \in Positions(d) : Drag(d, p) \/ Key(d, p)
       PROVE  UNCHANGED lengthVars /\ \E ms : Other(ms)
    <2>1. CASE Press(d) \/ \E p \in Positions(d) : Key(d, p)
        BY <1>7, <2>1, Zenon
    <2>2. CASE Release(d)
        BY <1>4, <2>2, Zenon
    <2>3. CASE \E p \in Positions(d) : Drag(d, p)
        BY <1>5, <2>3, Zenon
    <2> QED
        BY <1>14, <2>1, <2>2, <2>3, Zenon
<1>15. \/ ServerReceives \/ StartConversion \/ StopConversion
       \/ UNCHANGED lengthVars /\ \E ms : Other(ms)
    BY <1>6, <1>8, <1>9, <1>10, <1>13, <1>14, OpenedSteps, Zenon DEF User
<1> QED
    BY <1>11, <1>12, <1>15, Zenon DEF Other

Calm == cases \intersect {"hasty", "keys", "resize"} = {}

(* What the slider shows when a conversion starts is what the server will  *)
(* have by then.                                                           *)
LEMMA StartTold ==
    ASSUME TInv, Matched, RoundInv, Calm, opened, StartConversion
    PROVE  Told("chunk", pos["chunk"])
<1> DEFINE c == "chunk"
<1>1. /\ enabled /\ ~Awaiting /\ held = "none" /\ c \in controls /\ "keys" \notin cases /\ "hasty" \notin cases
    BY DEF Calm, StartConversion
<1>2. c \notin Combos /\ c \in Controls
    BY DEF Combos, Controls, Sliders
<1>3. held # c
    BY <1>1
<1>4. Rounded(pos[c]) = pos[c]
    BY <1>1 DEF RoundInv
<1>5. PICK v : Told(c, v) /\ Fits(c, pos[c], v)
    BY <1>1, <1>2, <1>3 DEF Matched
<1>6. v \in Values(c)
    <2>1. stored[c] \in Values(c)
        BY <1>1 DEF TInv, TypeOK, Stores
    <2>2. ASSUME NEW k \in 1..Len(up), Of(up[k], c) PROVE up[k].value \in Values(c)
        <3>1. up[k] \in Messages
            BY ElementOfSeq DEF TInv, Travels
        <3> QED
            BY <2>2, <3>1 DEF Messages, Of
    <2> QED
        BY <1>5, <2>1, <2>2 DEF Told, Gives
<1>7. Rounded(v) = v
    BY <1>6, RoundedValues
<1>8. v = pos[c]
    BY <1>4, <1>5, <1>7 DEF Fits, Encode, Recall
<1> QED
    BY <1>5, <1>8

(* The slider is left alone while there is a conversion.                   *)
LEMMA HeldStep ==
    ASSUME TInv, Started, Calm, [Next]_vars, length' # None
    PROVE  held' # "chunk"
<1>1. SUFFICES ASSUME held' = "chunk" PROVE FALSE
    OBVIOUS
<1>2. CASE StartConversion
    BY <1>1, <1>2 DEF StartConversion, Calm
<1>3. CASE ~StartConversion
    <2>1. length' = length \/ length' = None
        BY <1>3, Zenon DEF Next, User, Window, Outside, vars, Press, Drag, Key, Release, Pick,
           ChooseInput, StopConversion, OnOpen, OnParams, OnModels, OnCompute, OnStarted, GiveUp,
           Disconnect, Locked, Elapse, ServerReceives, Drop, Open
    <2>2. length # None /\ held # "chunk"
        BY <2>1 DEF Started, Calm
    <2>3. \A c : ~(c = "chunk" /\ Press(c))
        BY <2>2 DEF Press, Acts, Calm
    <2>4. held' = held \/ held' = "none" \/ \E c : held' = c /\ Press(c)
        BY Zenon DEF Next, User, Window, Outside, vars, Press, Drag, Key, Release, Pick,
           ChooseInput, StartConversion, StopConversion, OnOpen, OnParams, OnModels, OnCompute, OnStarted, GiveUp,
           Disconnect, Locked, Elapse, ServerReceives, Drop, Open
    <2> QED
        BY <1>1, <2>2, <2>3, <2>4
<1> QED
    BY <1>2, <1>3

LEMMA StartsStep ==
    ASSUME TInv, TInv', Quiet, Quiet', Matched, RoundInv, ConvInv, [Next]_vars
    PROVE  Starts'
<1> SUFFICES ASSUME NEW k \in 1..Len(up'), Starting(up', k)
             PROVE  /\ length' # None
                    /\ Calm => /\ ToldNext("chunk", length')
                               /\ \A j \in 1..Len(up') : j > k => ~Of(up'[j], "chunk")
    BY FixedCases DEF Starts, Told, ToldNext, Calm, None
<1>1. opened' /\ opened
    <2>1. up' # <<>>
        OBVIOUS
    <2>2. opened'
        BY <2>1 DEF Quiet
    <2>3. ~Open
        BY <2>1 DEF Open, Quiet
    <2> QED
        BY <2>2, <2>3, OpenedSteps
<1>2. up \in Seq(Messages) /\ up' \in Seq(Messages)
    BY FixedTypes DEF TInv, Travels
<1>3. "chunk" \in controls
    <2>1. up'[k] \in Messages'
        BY ElementOfSeq DEF TInv, Travels
    <2> QED
        BY <2>1, FixedTypes DEF Starting, Messages
<1>4. CASE ServerReceives
    <2>1. /\ k + 1 \in 1..Len(up) /\ length' = length
          /\ \A j \in 1..Len(up') : j + 1 \in 1..Len(up) /\ up'[j] = up[j + 1]
          /\ \A j \in 1..Len(up) : j # 1 => j - 1 \in 1..Len(up') /\ up'[j - 1] = up[j]
        BY <1>4, Receives
    <2>2. Starting(up, k + 1)
        <3>1. up[k + 1].what = "start"
            BY <2>1 DEF Starting
        <3>2. ASSUME NEW j \in 1..Len(up), j > k + 1 PROVE up[j].what # "stop"
            <4>1. j - 1 \in 1..Len(up') /\ up'[j - 1] = up[j] /\ j - 1 > k
                BY <2>1, <3>2
            <4> QED
                BY <4>1 DEF Starting
        <3> QED
            BY <3>1, <3>2 DEF Starting
    <2>3. /\ length # None
          /\ Calm => Told("chunk", length) /\ \A j \in 1..Len(up) : j > k + 1 => ~Of(up[j], "chunk")
        BY <2>1, <2>2 DEF ConvInv, Starts, Calm
    <2>4. Calm => ToldNext("chunk", length)
        BY <1>3, <1>4, <2>3, ToldServer DEF Sensible
    <2>5. ASSUME Calm, NEW j \in 1..Len(up'), j > k PROVE ~Of(up'[j], "chunk")
        <3>1. j + 1 > k + 1 /\ j + 1 \in 1..Len(up) /\ up'[j] = up[j + 1]
            BY <2>1, <2>5
        <3> QED
            BY <2>3, <2>5, <3>1
    <2> QED
        BY <2>1, <2>3, <2>4, <2>5
<1>5. ASSUME StopConversion, Add(<<Message("stop", "chunk", 0)>>), Message("stop", "chunk", 0) \in Messages
      PROVE  FALSE
    <2> DEFINE ms == <<Message("stop", "chunk", 0)>>
    <2>1. ms \in Seq(Messages) /\ up' = up \o ms /\ In(ms, "stop") /\ ~In(ms, "start")
        BY <1>5, OneIs DEF Add, Message
    <2> HIDE DEF ms
    <2> QED
        BY <1>2, <2>1, StartingAdds
<1>6. ASSUME StartConversion, Add(<<Message("start", "chunk", 0)>>), Message("start", "chunk", 0) \in Messages
      PROVE  /\ length' # None
             /\ Calm => /\ ToldNext("chunk", length')
                        /\ \A j \in 1..Len(up') : j > k => ~Of(up'[j], "chunk")
    <2> DEFINE m == Message("start", "chunk", 0)
    <2>1. /\ <<m>> \in Seq(Messages) /\ up' = up \o <<m>> /\ NoneOf(<<m>>, "chunk")
          /\ Len(up') = Len(up) + 1 /\ Len(up) \in Nat
        <3>1. ~Of(m, "chunk")
            BY DEF Message, Of
        <3>2. <<m>> \in Seq(Messages) /\ NoneOf(<<m>>, "chunk") /\ Len(<<m>>) = 1
            BY <1>6, <3>1, OneIs
        <3>3. up' = up \o <<m>>
            BY <1>6 DEF Add
        <3> QED
            BY <1>2, <3>2, <3>3, ConcatIs
    <2>2. length' = pos["chunk"] /\ length = None /\ length' # None
        <3>1. pos["chunk"] \in 0..Top
            BY <1>3 DEF TInv, TypeOK, Placed, Positions, Combos
        <3> QED
            BY <1>6, <3>1, Numbers DEF StartConversion, None
    <2>3. k \notin 1..Len(up)
        <3>1. k \in 1..Len(up) => ~Starting(up, k)
            BY <2>2 DEF ConvInv, Starts
        <3> HIDE DEF m
        <3> QED
            BY <1>2, <2>1, <3>1, StartingAdds
    <2>4. \A j \in 1..Len(up') : ~(j > k)
        BY <2>1, <2>3
    <2>5. Calm => ToldNext("chunk", length')
        <3>1. Calm => Told("chunk", pos["chunk"])
            BY <1>1, <1>6, StartTold
        <3>2. \A v : Told("chunk", v) => ToldNext("chunk", v)
            <4> HIDE DEF m
            <4> QED
                BY <1>6, <2>1, ToldAdds DEF m
        <3> QED
            BY <2>2, <3>1, <3>2, Zenon
    <2> QED
        BY <2>2, <2>4, <2>5
<1>7. ASSUME UNCHANGED lengthVars, NEW ms, Add(ms), ~In(ms, "start"), ~In(ms, "stop"),
             \A c \in controls : \/ NoneOf(ms, c) \/ c = "model"
                                 \/ Release(c)
                                 \/ \E p : Drag(c, p) \/ (c \notin Sliders /\ Pick(c, p))
      PROVE  /\ length' # None
             /\ Calm => /\ ToldNext("chunk", length')
                        /\ \A j \in 1..Len(up') : j > k => ~Of(up'[j], "chunk")
    <2>1. ms \in Seq(Messages) /\ up' = up \o ms /\ length' = length
        BY <1>7 DEF Add
    <2>2. k \in 1..Len(up) /\ Starting(up, k)
        BY <1>2, <1>7, <2>1, StartingAdds
    <2>3. /\ length # None
          /\ Calm => Told("chunk", length) /\ \A j \in 1..Len(up) : j > k => ~Of(up[j], "chunk")
        BY <2>2 DEF ConvInv, Starts, Calm
    <2>4. ASSUME Calm PROVE NoneOf(ms, "chunk")
        <3>1. held # "chunk"
            BY <2>3, <2>4 DEF ConvInv, Started, Calm
        <3>2. ~Release("chunk") /\ \A p : ~Drag("chunk", p)
            BY <3>1 DEF Release, Drag
        <3>3. "chunk" \in Sliders /\ "chunk" # "model"
            BY DEF Sliders
        <3> QED
            BY <1>3, <1>7, <3>2, <3>3
    <2>5. ASSUME Calm
          PROVE  ToldNext("chunk", length') /\ \A j \in 1..Len(up') : j > k => ~Of(up'[j], "chunk")
        <3>1. ToldNext("chunk", length)
            BY <1>7, <2>3, <2>4, <2>5, ToldAdds
        <3> DEFINE w == up \o ms
        <3>2. /\ \A j \in 1..Len(up) : w[j] = up[j]
              /\ \A j \in 1..Len(w) : j \in 1..Len(up)
                                      \/ (j - Len(up) \in 1..Len(ms) /\ w[j] = ms[j - Len(up)])
            BY <1>2, <2>1, ConcatIs
        <3>3. w = up'
            BY <2>1
        <3> HIDE DEF w
        <3>4. \A j \in 1..Len(w) : j > k => ~Of(w[j], "chunk")
            BY <2>3, <2>4, <2>5, <3>2 DEF NoneOf
        <3> QED
            BY <2>1, <3>1, <3>3, <3>4
    <2> QED
        BY <2>1, <2>3, <2>5
<1> QED
    BY <1>1, <1>4, <1>5, <1>6, <1>7, Says, Zenon

LEMMA StartedStep ==
    ASSUME TInv, TInv', Quiet, Quiet', ConvInv, [Next]_vars
    PROVE  Started'
<1> SUFFICES ASSUME Calm, length' # None
             PROVE  /\ held' # "chunk"
                    /\ ~In(up', "start") /\ ~In(up', "stop") /\ serverLength' # None
                       => serverLength' = length'
    BY FixedCases DEF Started, Calm, None
<1>1. held' # "chunk"
    BY HeldStep DEF ConvInv
<1>2. ASSUME ~In(up', "start"), ~In(up', "stop"), serverLength' # None
      PROVE  serverLength' = length'
    <2>1. opened' /\ opened
        <3>1. opened'
            BY <1>2 DEF Quiet, None
        <3>2. ~Open
            BY <1>2 DEF Open, Quiet
        <3> QED
            BY <3>1, <3>2, OpenedSteps
    <2>2. CASE ServerReceives
        <3>1. /\ length' = length /\ Head(up) = up[1] /\ 1 \in 1..Len(up) /\ Head(up) \in Messages
              /\ \A j \in 1..Len(up) : j # 1 => j - 1 \in 1..Len(up') /\ up'[j - 1] = up[j]
              /\ \A what : In(up, what) <=> In(up', what) \/ Head(up).what = what
            BY <2>2, Receives, Zenon
        <3>2. CASE Head(up).what = "start"
            <4>1. Starting(up, 1)
                <5>1. ASSUME NEW j \in 1..Len(up), j > 1 PROVE up[j].what # "stop"
                    <6>1. j - 1 \in 1..Len(up') /\ up'[j - 1] = up[j]
                        BY <3>1, <5>1
                    <6> QED
                        BY <1>2, <6>1 DEF In
                <5> QED
                    BY <3>1, <3>2, <5>1 DEF Starting
            <4>2. Told("chunk", length) /\ \A j \in 1..Len(up) : j > 1 => ~Of(up[j], "chunk")
                BY <3>1, <4>1 DEF ConvInv, Starts, Calm
            <4>3. NoneOf(up, "chunk")
                BY <3>1, <3>2, <4>2 DEF NoneOf, Of
            <4>4. stored["chunk"] = length
                BY <4>2, <4>3 DEF Told, Gives, NoneOf
            <4>5. serverLength' = stored["chunk"]
                BY <2>2, <3>2 DEF ServerReceives
            <4> QED
                BY <3>1, <4>4, <4>5
        <3>3. CASE Head(up).what = "stop"
            BY <1>2, <2>2, <3>3 DEF ServerReceives
        <3>4. CASE Head(up).what \notin {"start", "stop"}
            <4>1. serverLength' = serverLength
                BY <2>2, <3>4 DEF ServerReceives
            <4> QED
                BY <1>2, <3>1, <3>4, <4>1 DEF ConvInv, Started, Calm
        <3> QED
            BY <3>2, <3>3, <3>4
    <2>3. ASSUME NEW ms, Add(ms) PROVE \A what : In(up', what) <=> In(up, what) \/ In(ms, what)
        <3>1. up \in Seq(Messages) /\ ms \in Seq(Messages) /\ up' = up \o ms
            BY <2>3 DEF Add, TInv, Travels
        <3> QED
            BY <3>1, InConcat
    <2>4. ASSUME StartConversion, Add(<<Message("start", "chunk", 0)>>),
                 Message("start", "chunk", 0) \in Messages
          PROVE  FALSE
        <3>1. In(<<Message("start", "chunk", 0)>>, "start")
            BY <2>4, OneIs DEF Message
        <3> QED
            BY <1>2, <2>3, <2>4, <3>1
    <2>5. ~StopConversion
        BY DEF StopConversion
    <2>6. ASSUME UNCHANGED lengthVars, \E ms : Add(ms) PROVE serverLength' = length'
        <3>1. ~In(up, "start") /\ ~In(up, "stop")
            BY <1>2, <2>3, <2>6
        <3> QED
            BY <1>2, <2>6, <3>1 DEF ConvInv, Started, Calm
    <2> QED
        BY <2>1, <2>2, <2>4, <2>5, <2>6, Says, Zenon
<1> QED
    BY <1>1, <1>2

LengthInv == ShowInv /\ RoundInv /\ ConvInv

(* While the server converts, both sides have one chunk length: the value  *)
(* the slider shows was told and arrives before the start                  *)
(* (uwavclient.cpp:1539, 1907-1917).                                       *)
THEOREM LengthsStayEqual == Spec => []LengthsAgree
<1>1. Init => LengthInv
    <2> SUFFICES ASSUME Init PROVE LengthInv
        OBVIOUS
    <2>1. ShowInv
        BY InitShowInv
    <2>2. RoundInv
        <3>1. "chunk" \in controls => pos["chunk"] = 0
            BY DEF Init, Combos
        <3>2. 0 \in 0..Top /\ Step \in Nat \ {0}
            BY Numbers
        <3>3. Rounded(0) = 0
            <4>1. (2 * 0 + Step) \div (2 * Step) = 0
                BY <3>2
            <4> QED
                BY <3>2, <4>1 DEF Rounded
        <3> QED
            BY <3>1, <3>3 DEF RoundInv
    <2>3. ConvInv
        BY DEF Init, ConvInv, Starts, Started
    <2> QED
        BY <2>1, <2>2, <2>3 DEF LengthInv
<1>2. LengthInv /\ [Next]_vars => LengthInv'
    <2> SUFFICES ASSUME LengthInv, [Next]_vars PROVE LengthInv'
        OBVIOUS
    <2>1. ShowInv /\ ShowInv' /\ RoundInv /\ ConvInv
        BY NextShowInv DEF LengthInv
    <2>2. TInv /\ TInv' /\ Quiet /\ Quiet' /\ Matched
        BY <2>1 DEF ShowInv, QueueInv
    <2>3. RoundInv'
        BY <2>1, <2>2, RoundStep
    <2>4. ConvInv'
        BY <2>1, <2>2, StartsStep, StartedStep DEF ConvInv
    <2> QED
        BY <2>1, <2>3, <2>4 DEF LengthInv
<1>3. LengthInv => LengthsAgree
    <2> SUFFICES ASSUME LengthInv, up = <<>>, serverLength # None, length # None, Calm
                 PROVE  serverLength = length
        BY DEF LengthsAgree, Calm
    <2>1. ~In(up, "start") /\ ~In(up, "stop")
        BY DEF In
    <2> QED
        BY <2>1 DEF LengthInv, ConvInv, Started, Calm
<1> QED
    BY <1>1, <1>2, <1>3, PTL DEF Spec

=============================================================================
