--------------------------- MODULE DeviceRegistry ---------------------------
(***************************************************************************)
(* The list of audio devices: PipeWire's registry events, the vector of    *)
(* u_audioprovider.cpp with a pointer to the device in use, and the combo  *)
(* box of uwavclient.cpp that shows the list with one entry more, "server".*)
(* The two are changed by different threads, tied by Qt's queued signals.  *)
(* This is the input side; the output side is the same code again.         *)
(*                                                                         *)
(* Indexes count from 0, as in the code, and -1 is no entry, no device.    *)
(***************************************************************************)
EXTENDS Integers, Sequences, SequencesExt

CONSTANTS Devices,      \* PipeWire nodes with media.class Audio/Source
          MaxSignals,   \* bound: devices come and go with fewer signals than
                        \* this waiting for the main thread
          CaseSets      \* sets of Circumstances, one of which a behaviour admits

(* remove: a device may be removed                                         *)
(* grow:   the vector may move while a device is in use                    *)
(* single: the first reading may find exactly one device                   *)
(* early:  a device may come or go before the first reading is shown       *)
Circumstances == {"remove", "grow", "single", "early"}

ASSUME RegistryAssumption ==
    /\ MaxSignals \in Nat
    /\ \A set \in CaseSets : set \subseteq Circumstances
    /\ Devices \cap {"server", "none"} = {}

VARIABLES inputDeviceList,   \* of [dev, id], id being internal_id
          capacity,          \* of the vector: beyond it, it moves
          firstRun,          \* the registry has not been read through yet
          uiq,               \* signals queued for the main thread
          combo,             \* the entries of comboAudioSrcLocal
          sel,               \* what a selection changes, see below
          cases              \* never changes: the circumstances admitted

vars == <<inputDeviceList, capacity, firstRun, uiq, combo, sel, cases>>

(* index: the combo box's current index                                    *)
(* primary: primaryInputDeviceNum                                          *)
(* saved: savedConfig's input device                                       *)
(* cur: currentInputDevice, a slot of the vector                           *)
(* freed: ... of the memory the vector has moved from                      *)
Selection == [index : Int, primary : Int, saved : Devices \cup {"server", "none"},
              cur : Int, freed : BOOLEAN]

Ids == 0..8
Size == Len(inputDeviceList)
At(s, i) == s[i + 1]

Alive(s) == s.cur \in 0..(Size - 1) /\ ~s.freed

(* GetActiveInput; a dangling pointer yields any id (junk).                *)
ActiveInput(s, junk) ==
    IF s.cur = -1 THEN -1
    ELSE IF Alive(s) THEN At(inputDeviceList, s.cur).id ELSE junk

Init ==
    /\ inputDeviceList = <<>> /\ capacity = 0
    /\ firstRun = TRUE
    /\ uiq = <<>>
    /\ combo = <<>>
    /\ \E saved \in Devices \cup {"none"} :
          sel = [index |-> -1, primary |-> -1, saved |-> saved,
                 cur |-> -1, freed |-> FALSE]
    /\ cases \in CaseSets

-----------------------------------------------------------------------------
(* PipeWire's thread.                                                      *)
Room == Len(uiq) < MaxSignals

(* Between the end of the first reading and the main thread's copy of it.  *)
Early == \E i \in DOMAIN uiq : uiq[i].kind = "ready"

(* Mutant: the main thread is told of a device it will find in its first  *)
(* copy.                                                                   *)
RegistryAddTells(d) ==
    /\ Room
    /\ \A i \in DOMAIN inputDeviceList : inputDeviceList[i].dev # d
    /\ Early => "early" \in cases
    /\ Size = capacity /\ sel.cur # -1 => "grow" \in cases
    /\ inputDeviceList' = Append(inputDeviceList, [dev |-> d, id |-> Size])
    /\ IF Size = capacity
       THEN /\ capacity' = IF capacity = 0 THEN 1 ELSE 2 * capacity
            /\ sel' = [sel EXCEPT !.freed = sel.cur # -1]
       ELSE UNCHANGED <<capacity, sel>>
    /\ uiq' = Append(uiq, [kind |-> "added", at |-> Size, dev |-> d])
    /\ UNCHANGED <<firstRun, combo, cases>>

RegistryAdd(d) ==
    /\ Room
    /\ \A i \in DOMAIN inputDeviceList : inputDeviceList[i].dev # d
    /\ Early => "early" \in cases
    /\ Size = capacity /\ sel.cur # -1 => "grow" \in cases
    /\ inputDeviceList' = Append(inputDeviceList, [dev |-> d, id |-> Size])
    /\ IF Size = capacity
       THEN /\ capacity' = IF capacity = 0 THEN 1 ELSE 2 * capacity
            /\ sel' = [sel EXCEPT !.freed = sel.cur # -1]
       ELSE UNCHANGED <<capacity, sel>>
    /\ uiq' = IF firstRun THEN uiq
              ELSE Append(uiq, [kind |-> "added", at |-> Size, dev |-> d])
    /\ UNCHANGED <<firstRun, combo, cases>>

RegistryRemove(i) ==
    /\ "remove" \in cases
    /\ Room
    /\ Early => "early" \in cases
    /\ inputDeviceList' = RemoveAt(inputDeviceList, i + 1)
    /\ uiq' = Append(uiq, [kind |-> "removed", at |-> i])
    /\ UNCHANGED <<capacity, firstRun, combo, sel, cases>>

CoreDone ==
    /\ firstRun
    /\ Size = 1 => "single" \in cases
    /\ firstRun' = FALSE
    /\ uiq' = Append(uiq, [kind |-> "ready"])
    /\ UNCHANGED <<inputDeviceList, capacity, combo, sel, cases>>

-----------------------------------------------------------------------------
(* The main thread.                                                        *)

(* Mutant: a device in use is kept.                                        *)
SetActiveInputOnce(s, i, junk) ==
    IF i \notin 0..(Size - 1) THEN [s EXCEPT !.cur = -1, !.freed = FALSE]
    ELSE IF s.cur # -1 THEN s
    ELSE [s EXCEPT !.cur = i, !.freed = FALSE]

(* SetActiveInput: nothing happens when the device in use has that id.     *)
SetActiveInput(s, i, junk) ==
    IF i \notin 0..(Size - 1) THEN [s EXCEPT !.cur = -1, !.freed = FALSE]
    ELSE IF s.cur # -1 /\ ActiveInput(s, junk) = i THEN s
    ELSE [s EXCEPT !.cur = i, !.freed = FALSE]

(* on_comboAudioSrcLocal_currentIndexChanged, the combo box showing texts. *)
IndexChanged(s, i, texts, junk) ==
    IF s.primary = i THEN s
    ELSE IF i \in 0..(Len(texts) - 2)
    THEN [SetActiveInput(s, i, junk) EXCEPT !.primary = i, !.saved = At(texts, i)]
    ELSE IF i = Len(texts) - 1 /\ i # -1
    THEN [SetActiveInput(s, -1, junk) EXCEPT !.primary = i, !.saved = "server"]
    ELSE [s EXCEPT !.primary = -1]

(* QComboBox::setCurrentIndex: the handler runs when the index is another. *)
SetCurrentIndex(s, i, texts, junk) ==
    IF s.index = i THEN s ELSE IndexChanged([s EXCEPT !.index = i], i, texts, junk)

(* QComboBox::insertItem and removeItem keep the current entry current; it *)
(* changes its index when it comes later in the list.                      *)
Inserted(s, i, texts, junk) ==
    IF s.index >= i THEN SetCurrentIndex(s, s.index + 1, texts, junk) ELSE s

Removed(s, i, texts, junk) ==
    IF s.index > i THEN SetCurrentIndex(s, s.index - 1, texts, junk) ELSE s

Handle(kind) == uiq # <<>> /\ Head(uiq).kind = kind /\ uiq' = Tail(uiq)

(* on_DeviceListsReady: the first entries of an empty combo box select the *)
(* first of them; "server" is added behind; LocalConfig::Load selects the  *)
(* saved device if it is there.                                            *)
OnDeviceListsReady(junk) ==
    /\ Handle("ready")
    /\ LET texts == combo \o [i \in 1..Size |-> inputDeviceList[i].dev]
           first == IF texts = <<>> THEN <<"server">> ELSE texts
           s == IF combo = <<>> THEN SetCurrentIndex(sel, 0, first, junk) ELSE sel
       IN  /\ combo' = Append(texts, "server")
           /\ sel' = IF sel.saved = "none" THEN s
                     ELSE LET l == [s EXCEPT !.saved = sel.saved]
                          IN  IF Contains(texts, sel.saved)
                              THEN SetCurrentIndex(l, CHOOSE i \in 0..(Len(texts) - 1) :
                                        At(texts, i) = sel.saved, combo', junk)
                              ELSE l
    /\ UNCHANGED <<inputDeviceList, capacity, firstRun, cases>>

(* on_InputDeviceAdded: a device that was saved is selected again.         *)
OnInputDeviceAdded(junk) ==
    /\ Handle("added")
    /\ LET at == IF Head(uiq).at <= Len(combo) THEN Head(uiq).at ELSE Len(combo)
           dev == Head(uiq).dev
       IN  /\ combo' = InsertAt(combo, at + 1, dev)
           /\ LET s == Inserted(sel, at, combo', junk)
              IN  sel' = IF s.saved = dev
                         THEN SetCurrentIndex(s, Head(uiq).at, combo', junk) ELSE s
    /\ UNCHANGED <<inputDeviceList, capacity, firstRun, cases>>

(* on_InputDeviceRemoved: the device shown is gone; with a connection the  *)
(* audio is stopped and no device is in use any more.                      *)
OnInputDeviceRemoved(opened, junk) ==
    /\ Handle("removed")
    /\ LET at == Head(uiq).at
           gone == IF sel.index # at THEN sel
                   ELSE LET s == SetCurrentIndex(sel, -1, combo, junk)
                        IN  IF opened THEN SetActiveInput(s, -1, junk) ELSE s
       IN  IF at < Len(combo)
           THEN /\ combo' = RemoveAt(combo, at + 1)
                /\ sel' = Removed(gone, at, combo', junk)
           ELSE sel' = gone /\ UNCHANGED combo
    /\ UNCHANGED <<inputDeviceList, capacity, firstRun, cases>>

(* The user picks an entry.                                                *)
Pick(i, junk) ==
    /\ sel' = SetCurrentIndex(sel, i, combo, junk)
    /\ UNCHANGED <<inputDeviceList, capacity, firstRun, uiq, combo, cases>>

-----------------------------------------------------------------------------
Registry ==
    \/ \E d \in Devices : RegistryAdd(d)
    \/ \E i \in 0..(Size - 1) : RegistryRemove(i)
    \/ CoreDone

Main ==
    \E junk \in IF sel.cur = -1 \/ Alive(sel) THEN {-1} ELSE Ids :
        \/ OnDeviceListsReady(junk)
        \/ OnInputDeviceAdded(junk)
        \/ \E opened \in BOOLEAN : OnInputDeviceRemoved(opened, junk)
        \/ \E i \in 0..(Len(combo) - 1) : Pick(i, junk)

Next == Registry \/ Main

Spec == Init /\ [][Next]_vars

-----------------------------------------------------------------------------
Quiet == uiq = <<>> /\ ~firstRun
Local == sel.index \in 0..(Len(combo) - 2)

(* ValidateStartStopState, for the input.                                  *)
Validated(junk) == sel.index = ActiveInput(sel, junk)

TypeOK ==
    /\ \A i \in DOMAIN inputDeviceList :
          inputDeviceList[i].dev \in Devices /\ inputDeviceList[i].id \in Ids
    /\ capacity \in Nat /\ Size <= capacity
    /\ firstRun \in BOOLEAN
    /\ \A i \in DOMAIN combo : combo[i] \in Devices \cup {"server"}
    /\ sel.index \in -1..(Len(combo) - 1)
    /\ sel.primary \in -1..(Len(combo) - 1)
    /\ sel.saved \in Devices \cup {"server", "none"}
    /\ sel.cur \in -1..capacity
    /\ sel.freed \in BOOLEAN

(* "As long as indexes always shift exactly the same way, the front of our *)
(* device list should always mirror the u_AudioProvider's internal list"   *)
(* (uwavclient.cpp:1501); the first copy is taken when "it is safe to      *)
(* assume this is the first population" (:1363), which it is unless a      *)
(* device comes or goes between the end of the reading and the copy.       *)
Mirror ==
    Quiet /\ "early" \notin cases => combo = Append([i \in 1..Size |-> inputDeviceList[i].dev], "server")

(* Start records from the microphone the window shows: when the check of   *)
(* Start succeeds ("Check that selected input/output are valid",           *)
(* uwavclient.cpp:232), the device in use is the one selected.             *)
ValidatedIsShown ==
    Quiet /\ Local /\ Alive(sel) /\ Validated(-1) =>
        At(inputDeviceList, sel.cur).dev = At(combo, sel.index)

(* It is, and Start does not refuse a device that is there ("Index should  *)
(* align with the local device list", uwavclient.cpp:1584), as long as     *)
(* none is removed (internal_id keeps the old numbers), the vector does    *)
(* not move (currentInputDevice points into it) and the first list has not *)
(* exactly one device (whose selection on_DeviceListsReady takes for       *)
(* "server").                                                              *)
SelectedStarts ==
    Quiet /\ Local /\ cases = {} =>
        /\ Validated(-1)
        /\ ValidatedIsShown

=============================================================================
