-------------------------- MODULE ConfigFileProofs --------------------------
(***************************************************************************)
(* The client's id survives crashes and failing calls, for any number of   *)
(* starts and whatever the window shows: IdSurvives and IdOnDisk.  So does *)
(* what a session saved: Restored.                                         *)
(***************************************************************************)
EXTENDS ConfigFile, FiniteSetTheorems, WellFoundedInduction, TLAPS

Steps == {"idle", "look", "test", "stale", "move", "open", "write", "clean", "close"}

(* u_ConfigData has three members.                                         *)
Whole(data) == data = [uid |-> data.uid, device |-> data.device, model |-> data.model]

(* Ids are numbers from one on; a file with lines has one.                 *)
Numbered ==
    /\ starts \in Nat /\ config.uid \in Nat
    /\ Whole(config)
    /\ told \subseteq Nat \ {0}
    /\ pc \in Steps /\ broken \in BOOLEAN
    /\ running => starts # 0
    /\ ~running => pc = "idle"
    /\ pc # "idle" => config.uid # 0
    /\ conf.uid \in Nat
    /\ conf.state = "full" <=> conf.uid # 0
    /\ pc \in {"clean", "close"} => buffer.state = "full" /\ buffer.uid = config.uid

(* The one id that servers know is the one in use, or the one to load.     *)
OneId == IF running THEN told \subseteq {config.uid} ELSE told \subseteq {conf.uid}

(* Where that id is, at each step of Save.                                 *)
Kept ==
    /\ running /\ pc = "idle" => conf.uid = config.uid
    /\ pc = "test" => told = {}
    /\ pc \in {"look", "stale", "move"} => conf.uid = config.uid \/ (conf.uid = 0 /\ told = {})
    /\ pc \in {"stale", "move"} /\ skip => told = {}
    /\ pc \in {"open", "write", "clean"} /\ told # {} => old.uid = config.uid

IInv == Numbered /\ (~broken => OneId /\ Kept)

LEMMA TextFields ==
    ASSUME NEW uid, NEW device, NEW model, NEW servers
    PROVE  /\ Text(uid, device, model, servers).state = "full"
           /\ Text(uid, device, model, servers).uid = uid
           /\ Absent.state = "absent" /\ Absent.uid = 0
           /\ Blank.state = "blank" /\ Blank.uid = 0
    BY DEF Text, Absent, Blank

USE DEF files, saving, history, Steps

LEMMA InitIInv == Init => IInv
<1> SUFFICES ASSUME Init PROVE IInv
    OBVIOUS
<1>1. /\ conf.state = "absent" /\ conf.uid = 0 /\ config.uid = 0
      /\ told = {} /\ starts = 0 /\ pc = "idle" /\ running = FALSE /\ broken = FALSE
      /\ Whole(config)
    BY TextFields DEF Init, Whole
<1>2. Numbered
    <2>1. starts \in Nat /\ config.uid \in Nat /\ conf.uid \in Nat
        BY <1>1
    <2>2. told \subseteq Nat \ {0} /\ pc \in Steps /\ broken \in BOOLEAN
        BY <1>1
    <2>3. conf.state = "full" <=> conf.uid # 0
        BY <1>1
    <2> QED
        BY <1>1, <2>1, <2>2, <2>3 DEF Numbered
<1>3. OneId /\ Kept
    BY <1>1 DEF OneId, Kept
<1> QED
    BY <1>2, <1>3 DEF IInv

LEMMA LoadFileStep == ASSUME IInv, LoadFile PROVE IInv'
<1>1. /\ ~running /\ running' = TRUE /\ starts' = starts + 1
      /\ config'.uid = conf.uid /\ Whole(config') /\ pc' = pc /\ pc = "idle"
      /\ conf' = conf /\ old' = old /\ told' = told /\ broken' = broken
      /\ buffer' = buffer
    BY DEF LoadFile, IInv, Numbered, Whole
<1>2. Numbered'
    BY <1>1 DEF IInv, Numbered
<1>3. ASSUME ~broken' PROVE OneId' /\ Kept'
    BY <1>1, <1>3 DEF IInv, Numbered, OneId, Kept
<1> QED
    BY <1>2, <1>3 DEF IInv

LEMMA LoadDefaultsStep == ASSUME IInv, LoadDefaults PROVE IInv'
<1>1. /\ ~running /\ running' = TRUE /\ starts' = starts + 1
      /\ config'.uid = starts + 1 /\ Whole(config') /\ pc' = "look" /\ conf.state = "absent"
      /\ conf' = conf /\ old' = old /\ told' = told /\ broken' = broken
    BY DEF LoadDefaults, There, Whole
<1>2. Numbered'
    BY <1>1 DEF IInv, Numbered
<1>3. ASSUME ~broken' PROVE OneId' /\ Kept'
    BY <1>1, <1>3 DEF IInv, Numbered, OneId, Kept
<1> QED
    BY <1>2, <1>3 DEF IInv

(* The window, and GetClientID.                                            *)
LEMMA UseStep == ASSUME IInv, Use PROVE IInv'
<1>1. /\ Idle /\ conf' = conf /\ old' = old /\ running' = running
      /\ starts' = starts /\ broken' = broken
    BY DEF Use, PickDevice, PickModel, PickServer, ClientID, NewClientID, ServerStarted, Idle
<1>2. ASSUME pc' = pc, config'.uid = config.uid, Whole(config'),
             told' = told \/ (told' = told \cup {config.uid} /\ config.uid # 0)
      PROVE  IInv'
    <2>1. Numbered'
        BY <1>1, <1>2 DEF IInv, Numbered, Idle
    <2>2. ASSUME ~broken' PROVE OneId' /\ Kept'
        BY <1>1, <1>2, <2>2 DEF IInv, Numbered, OneId, Kept, Idle
    <2> QED
        BY <2>1, <2>2 DEF IInv
<1>3. CASE PickDevice
    BY <1>2, <1>3 DEF PickDevice, IInv, Numbered, Whole
<1>4. CASE PickModel \/ PickServer
    BY <1>2, <1>4 DEF PickModel, PickServer, IInv, Numbered
<1>5. CASE ClientID
    BY <1>2, <1>5 DEF ClientID, IInv, Numbered
<1>6. CASE NewClientID
    <2>1. /\ pc' = "look" /\ told' = told /\ config.uid = 0
          /\ config'.uid = starts /\ Whole(config')
        BY <1>6 DEF NewClientID, IInv, Numbered, Whole
    <2>2. Numbered'
        BY <1>1, <2>1 DEF IInv, Numbered, Idle
    <2>3. ASSUME ~broken' PROVE OneId' /\ Kept'
        BY <1>1, <2>1, <2>3 DEF IInv, Numbered, OneId, Kept, Idle
    <2> QED
        BY <2>2, <2>3 DEF IInv
<1>7. CASE ServerStarted
    <2>1. /\ pc' = "look" /\ told' = told /\ config' = config /\ config.uid \in told
        BY <1>7 DEF ServerStarted
    <2>2. Numbered'
        BY <1>1, <2>1 DEF IInv, Numbered, Idle
    <2>3. ASSUME ~broken' PROVE OneId' /\ Kept'
        BY <1>1, <2>1, <2>3 DEF IInv, Numbered, OneId, Kept, Idle
    <2> QED
        BY <2>2, <2>3 DEF IInv
<1> QED
    BY <1>3, <1>4, <1>5, <1>6, <1>7 DEF Use

(* The steps of Save as far as the new file's being opened.                *)
LEMMA MoveStep == ASSUME IInv, Look \/ RemoveTest \/ RemoveStale \/ Move PROVE IInv'
<1>1. /\ running' = running /\ running /\ config' = config /\ told' = told
      /\ starts' = starts /\ broken' = broken /\ buffer' = buffer
    BY DEF Look, RemoveTest, RemoveStale, Move, At, Continues
<1>2. CASE Look
    <2>1. /\ pc = "look" /\ old' = old
          /\ \/ pc' = "stale" /\ skip' = FALSE /\ conf' = conf
             \/ pc' = "test" /\ conf.state = "absent" /\ conf'.state = "blank" /\ conf'.uid = 0
        BY <1>2, TextFields DEF Look, At, Continues, There
    <2>2. Numbered'
        BY <2>1, <1>1 DEF IInv, Numbered
    <2>3. ASSUME ~broken' PROVE OneId' /\ Kept'
        BY <2>1, <2>3, <1>1 DEF IInv, Numbered, OneId, Kept
    <2> QED
        BY <2>2, <2>3 DEF IInv
<1>3. CASE RemoveTest
    <2>1. pc = "test" /\ pc' = "stale" /\ conf'.state = "absent" /\ conf'.uid = 0
        BY <1>3, TextFields DEF RemoveTest, At, Continues
    <2>2. Numbered'
        BY <2>1, <1>1 DEF IInv, Numbered
    <2>3. ASSUME ~broken' PROVE OneId' /\ Kept'
        BY <2>1, <2>3, <1>1 DEF IInv, Numbered, OneId, Kept
    <2> QED
        BY <2>2, <2>3 DEF IInv
<1>4. CASE RemoveStale
    <2>1. pc = "stale" /\ pc' = "move" /\ conf' = conf /\ skip' = skip
        BY <1>4 DEF RemoveStale, At, Continues
    <2>2. Numbered'
        BY <2>1, <1>1 DEF IInv, Numbered
    <2>3. ASSUME ~broken' PROVE OneId' /\ Kept'
        BY <2>1, <2>3, <1>1 DEF IInv, Numbered, OneId, Kept
    <2> QED
        BY <2>2, <2>3 DEF IInv
<1>5. CASE Move
    <2>1. /\ pc = "move" /\ pc' = "open"
          /\ \/ skip /\ conf' = conf
             \/ old'.uid = conf.uid /\ conf'.state = "absent" /\ conf'.uid = 0
        BY <1>5, TextFields DEF Move, At, Continues
    <2>2. Numbered'
        BY <2>1, <1>1 DEF IInv, Numbered
    <2>3. ASSUME ~broken' PROVE OneId' /\ Kept'
        <3>1. OneId /\ Kept
            BY <2>3, <1>1 DEF IInv
        <3>2. OneId'
            BY <3>1, <1>1 DEF OneId
        <3>3. told # {} => old'.uid = config.uid
            BY <3>1, <2>1 DEF Kept
        <3> QED
            BY <3>2, <3>3, <2>1, <1>1 DEF Kept
    <2> QED
        BY <2>2, <2>3 DEF IInv
<1> QED
    BY <1>2, <1>3, <1>4, <1>5

(* The steps that write it.                                                *)
LEMMA WriteStep == ASSUME IInv, Open \/ Write \/ Clean \/ CloseFile PROVE IInv'
<1>1. /\ running' = running /\ running /\ told' = told
      /\ starts' = starts /\ broken' = broken
    BY DEF Open, Write, Clean, CloseFile, At, Continues, Returns
<1>2. CASE Open
    <2>1. /\ pc = "open" /\ pc' = "write" /\ old' = old /\ config' = config
          /\ conf'.state = "blank" /\ conf'.uid = 0
        BY <1>2, TextFields DEF Open, At, Continues
    <2>2. Numbered'
        BY <2>1, <1>1 DEF IInv, Numbered
    <2>3. ASSUME ~broken' PROVE OneId' /\ Kept'
        BY <2>1, <2>3, <1>1 DEF IInv, Numbered, OneId, Kept
    <2> QED
        BY <2>2, <2>3 DEF IInv
<1>3. CASE Write
    <2>1. /\ pc = "write" /\ pc' = "clean" /\ conf' = conf /\ old' = old
          /\ config'.uid = config.uid /\ Whole(config')
          /\ buffer'.state = "full" /\ buffer'.uid = config.uid
        <3>1. /\ pc = "write" /\ pc' = "clean" /\ conf' = conf /\ old' = old
              /\ config' = [config EXCEPT !.model = Lines.model] /\ buffer' = Lines
            BY <1>3 DEF Write, At, Continues
        <3>2. config'.uid = config.uid /\ Whole(config')
            BY <3>1 DEF IInv, Numbered, Whole
        <3>3. Lines.state = "full" /\ Lines.uid = config.uid
            BY DEF Lines, Text
        <3> QED
            BY <3>1, <3>2, <3>3
    <2>2. Numbered'
        BY <2>1, <1>1 DEF IInv, Numbered
    <2>3. ASSUME ~broken' PROVE OneId' /\ Kept'
        BY <2>1, <2>3, <1>1 DEF IInv, Numbered, OneId, Kept
    <2> QED
        BY <2>2, <2>3 DEF IInv
<1>4. CASE Clean
    <2>1. pc = "clean" /\ pc' = "close" /\ conf' = conf /\ config' = config /\ buffer' = buffer
        BY <1>4 DEF Clean, At, Continues
    <2>2. Numbered'
        BY <2>1, <1>1 DEF IInv, Numbered
    <2>3. ASSUME ~broken' PROVE OneId' /\ Kept'
        BY <2>1, <2>3, <1>1 DEF IInv, Numbered, OneId, Kept
    <2> QED
        BY <2>2, <2>3 DEF IInv
<1>5. CASE CloseFile
    <2>1. pc = "close" /\ pc' = "idle" /\ conf' = buffer /\ config' = config
        BY <1>5 DEF CloseFile, At, Returns
    <2>2. Numbered'
        BY <2>1, <1>1 DEF IInv, Numbered
    <2>3. ASSUME ~broken' PROVE OneId' /\ Kept'
        BY <2>1, <2>3, <1>1 DEF IInv, Numbered, OneId, Kept
    <2> QED
        BY <2>2, <2>3 DEF IInv
<1> QED
    BY <1>2, <1>3, <1>4, <1>5

(* A call that fails: unless it leaves a full client.conf, broken is set.  *)
LEMMA FailureStep == ASSUME IInv, Failure PROVE IInv'
<1>1. /\ running' = running /\ running /\ told' = told /\ starts' = starts
      /\ conf' = conf /\ config' = config /\ pc' = "idle" /\ broken' \in BOOLEAN
    BY DEF Failure, LookFails, MoveFails, OpenFails, At, Returns, IInv, Numbered
<1>2. Numbered'
    BY <1>1 DEF IInv, Numbered
<1>3. ASSUME ~broken' PROVE OneId' /\ Kept'
    <2>1. pc \in {"stale", "move"} /\ conf.state = "full" /\ ~broken
        BY <1>3 DEF Failure, LookFails, MoveFails, OpenFails, At
    <2> QED
        BY <1>1, <2>1 DEF IInv, Numbered, OneId, Kept
<1> QED
    BY <1>2, <1>3 DEF IInv

LEMMA StopStep == ASSUME IInv, Stop PROVE IInv'
<1>1. /\ running /\ running' = FALSE /\ told' = told /\ starts' = starts
      /\ conf' = conf /\ config'.uid = 0 /\ Whole(config') /\ pc' = "idle"
      /\ broken' = (broken \/ pc \in {"open", "write", "clean", "close"})
    BY DEF Stop, Whole
<1>2. Numbered'
    <2>1. broken' \in BOOLEAN
        BY <1>1
    <2> QED
        BY <1>1, <2>1 DEF IInv, Numbered
<1>3. ASSUME ~broken' PROVE OneId' /\ Kept'
    <2>1. ~broken /\ pc \in {"idle", "look", "test", "stale", "move"}
        BY <1>1, <1>3 DEF IInv, Numbered
    <2> QED
        BY <1>1, <2>1 DEF IInv, Numbered, OneId, Kept
<1> QED
    BY <1>2, <1>3 DEF IInv

LEMMA NextIInv == IInv /\ [Next]_vars => IInv'
<1> SUFFICES ASSUME IInv, [Next]_vars PROVE IInv'
    OBVIOUS
<1>1. CASE Load
    BY <1>1, LoadFileStep, LoadDefaultsStep DEF Load
<1>2. CASE Use
    BY <1>2, UseStep
<1>3. CASE Save
    BY <1>3, MoveStep, WriteStep DEF Save
<1>4. CASE Failure
    BY <1>4, FailureStep
<1>5. CASE Stop
    BY <1>5, StopStep
<1>6. CASE UNCHANGED vars
    BY <1>6 DEF vars, IInv, Numbered, Whole, OneId, Kept
<1> QED
    BY <1>1, <1>2, <1>3, <1>4, <1>5, <1>6 DEF Next

-----------------------------------------------------------------------------
(* The client gives the servers one id, from one start to the next and     *)
(* through every crash but one between the rename and the close.           *)
THEOREM IdKept == Spec => []IdSurvives
<1>1. IInv => IdSurvives
    <2> SUFFICES ASSUME IInv, ~broken PROVE Cardinality(told) <= 1
        BY DEF IdSurvives
    <2>1. PICK x : told \subseteq {x}
        BY DEF IInv, OneId
    <2>2. told = {} \/ told = {x}
        BY <2>1
    <2>3. Cardinality(told) = 0 \/ Cardinality(told) = 1
        BY <2>2, FS_EmptySet, FS_Singleton
    <2> QED
        BY <2>3
<1> QED
    BY <1>1, InitIInv, NextIInv, PTL DEF Spec

(* The id the servers know is in client.conf or in client.conf.old.        *)
THEOREM IdThere == Spec => []IdOnDisk
<1>1. IInv => IdOnDisk
    <2> SUFFICES ASSUME IInv, told # {}, ~broken, pc # "close"
                 PROVE  conf.uid \in told \/ old.uid \in told
        BY DEF IdOnDisk
    <2>1. PICK x : x \in told
        OBVIOUS
    <2>2. CASE running
        BY <2>1, <2>2 DEF IInv, Numbered, OneId, Kept
    <2>3. CASE ~running
        BY <2>1, <2>3 DEF IInv, Numbered, OneId
    <2> QED
        BY <2>2, <2>3
<1> QED
    BY <1>1, InitIInv, NextIInv, PTL DEF Spec

-----------------------------------------------------------------------------
(* What a session saved.  A file recalls it: its device, its model if one  *)
(* was shown, and its server first in the list.                            *)
Recalls(file) ==
    /\ wanted.device = file.device
    /\ wanted.model \in {"", file.model}
    /\ wanted.servers = <<>> \/ (file.servers # <<>> /\ wanted.servers = <<Head(file.servers)>>)

Addresses == Servers \cup {FirstWindow.current}

Listed ==
    /\ window = [servers |-> window.servers, current |-> window.current, model |-> window.model]
    /\ window.servers \in Seq(Addresses) /\ window.current \in Addresses
    /\ conf.servers \in Seq(Addresses) /\ old.servers \in Seq(Addresses)
    /\ buffer.servers \in Seq(Addresses)

Full(file) == file.state = "full"

(* The file that recalls it at each step of Save.                          *)
Remembered ==
    /\ pc \in {"idle", "look", "test", "stale", "move"} =>
          IF Full(conf) THEN Recalls(conf) ELSE wanted.servers = <<>>
    /\ pc = "test" \/ (pc \in {"stale", "move"} /\ skip) => ~Full(conf)
    /\ pc \in {"open", "write"} =>
          IF ~skip /\ Full(old) THEN Recalls(old) ELSE wanted.servers = <<>>
    /\ pc \in {"open", "write", "clean", "close"} => ~Full(conf)
    /\ pc \in {"clean", "close"} => Recalls(buffer)

(* The window shows a model before the first Save only.                    *)
Shown ==
    /\ pc \in {"look", "test", "stale", "move"} /\ ui => Full(conf) \/ window.model = ""
    /\ pc \in {"open", "write"} /\ ui => (~skip /\ Full(old)) \/ window.model = ""

RInv == IInv /\ Listed /\ (~broken => Remembered /\ Shown)

LEMMA Empties ==
    /\ Absent.servers = <<>> /\ Blank.servers = <<>>
    /\ ~Full(Absent) /\ ~Full(Blank)
    /\ \A S : Absent.servers \in Seq(S) /\ Blank.servers \in Seq(S)
<1>1. Absent.servers = <<>> /\ Blank.servers = <<>> /\ ~Full(Absent) /\ ~Full(Blank)
    BY DEF Text, Absent, Blank, Full
<1>2. \A S : <<>> \in Seq(S)
    OBVIOUS
<1> QED
    BY <1>1, <1>2

LEMMA FirstLists ==
    /\ FirstWindow = [servers |-> FirstWindow.servers, current |-> FirstWindow.current,
                      model |-> FirstWindow.model]
    /\ FirstWindow.servers \in Seq(Addresses) /\ FirstWindow.current \in Addresses
    /\ FirstWindow.model = ""
<1>1. FirstWindow.current \in Addresses
    BY DEF Addresses
<1>2. FirstWindow.servers = <<>>
    BY DEF FirstWindow
<1> QED
    BY <1>1, <1>2 DEF FirstWindow

LEMMA RemovedAt ==
    ASSUME NEW S, NEW s \in Seq(S), NEW i \in 1..Len(s)
    PROVE  RemoveAt(s, i) \in Seq(S)
<1>1. SubSeq(s, 1, i - 1) \in Seq(S) /\ SubSeq(s, i + 1, Len(s)) \in Seq(S)
    OBVIOUS
<1> QED
    BY <1>1 DEF RemoveAt

LEMMA FirstRemoved ==
    ASSUME NEW S, NEW s \in Seq(S), NEW e
    PROVE  RemoveFirst(s, e) \in Seq(S)
<1>1. CASE ~\E i \in 1..Len(s) : s[i] = e
    BY <1>1 DEF RemoveFirst
<1>2. CASE \E i \in 1..Len(s) : s[i] = e
    <2> DEFINE I == {i \in 1..Len(s) : s[i] = e}
    <2>1. I \subseteq Nat /\ I # {} /\ I \subseteq 1..Len(s)
        BY <1>2
    <2>2. PICK x \in I : \A y \in I : ~(<<y, x>> \in OpToRel(<, Nat))
        BY <2>1, WFMin, NatLessThanWellFounded, Zenon
    <2>3. ASSUME NEW a \in Nat, NEW b \in Nat, a < b PROVE <<a, b>> \in OpToRel(<, Nat)
        <3> DEFINE p == <<a, b>>
        <3>1. p \in Nat \X Nat /\ p[1] < p[2]
            BY <2>3
        <3> QED
            BY <3>1, Zenon DEF OpToRel
    <2>4. \A y \in I : x <= y
        <3> HIDE DEF I
        <3>1. \A y \in I : ~(y < x)
            BY <2>1, <2>2, <2>3, Zenon
        <3> QED
            BY <2>1, <3>1
    <2>5. Min(I) \in I
        BY <2>4 DEF Min
    <2>6. RemoveAt(s, Min(I)) \in Seq(S)
        <3> HIDE DEF I
        <3> QED
            BY <2>1, <2>5, RemovedAt
    <2>7. RemoveFirst(s, e) = RemoveAt(s, Min(I))
        BY <1>2, <2>1 DEF RemoveFirst, SelectInSeq
    <2> QED
        BY <2>6, <2>7
<1> QED
    BY <1>1, <1>2

(* The history the window gives starts with the server it shows.           *)
LEMMA HistoryHead ==
    ASSUME Listed
    PROVE  /\ ServerHistory \in Seq(Addresses) /\ ServerHistory # <<>>
           /\ Head(ServerHistory) = window.current
<1> DEFINE rest == RemoveFirst(window.servers, window.current)
           all == <<window.current>> \o rest
           n == IF Len(all) < SaveServers THEN Len(all) ELSE SaveServers
<1>1. rest \in Seq(Addresses)
    BY FirstRemoved DEF Listed
<1>2. window.current \in Addresses
    BY DEF Listed
<1> HIDE DEF rest
<1>3. all \in Seq(Addresses) /\ Len(all) = 1 + Len(rest) /\ all[1] = window.current
    BY <1>1, <1>2
<1>4. ServerHistory = SubSeq(all, 1, n)
    BY Zenon DEF ServerHistory, rest
<1>5. SaveServers \in Nat \ {0}
    BY ConfigAssumption DEF ConfigAssumption
<1> HIDE DEF all
<1>6. n \in 1..Len(all)
    <2>1. Len(rest) \in Nat
        BY <1>1
    <2> QED
        BY <1>3, <1>5, <2>1
<1> HIDE DEF n
<1>7. SubSeq(all, 1, n) \in Seq(Addresses) /\ SubSeq(all, 1, n) # <<>> /\ SubSeq(all, 1, n)[1] = all[1]
    BY <1>3, <1>6
<1>8. Head(SubSeq(all, 1, n)) = SubSeq(all, 1, n)[1]
    BY <1>7
<1> QED
    BY <1>3, <1>4, <1>7, <1>8

(* The window, the files and the buffer keep lists of addresses.           *)
LEMMA ListedStep == ASSUME Listed, [Next]_vars PROVE Listed'
<1> USE DEF Listed
<1>1. CASE LoadFile
    <2>1. UNCHANGED <<conf, old, buffer>> /\ window' = LoadedWindow
        BY <1>1 DEF LoadFile
    <2>2. conf.servers # <<>> => Head(conf.servers) \in Addresses
        OBVIOUS
    <2>3. /\ window' = [servers |-> window'.servers, current |-> window'.current, model |-> window'.model]
          /\ window'.servers \in Seq(Addresses) /\ window'.current \in Addresses
        BY <2>1, <2>2, FirstLists DEF LoadedWindow
    <2> QED
        BY <2>1, <2>3
<1>2. CASE LoadDefaults \/ Stop
    <2>1. UNCHANGED <<conf, old>> /\ window' = FirstWindow /\ (buffer' = buffer \/ buffer' = Blank)
        BY <1>2 DEF LoadDefaults, Stop
    <2>2. /\ window' = [servers |-> window'.servers, current |-> window'.current, model |-> window'.model]
          /\ window'.servers \in Seq(Addresses) /\ window'.current \in Addresses
        BY <2>1, FirstLists
    <2>3. Blank.servers \in Seq(Addresses)
        BY Empties
    <2> QED
        BY <2>1, <2>2, <2>3
<1>3. CASE PickDevice \/ ClientID \/ NewClientID \/ ServerStarted
    BY <1>3 DEF PickDevice, ClientID, NewClientID, ServerStarted
<1>4. CASE PickModel
    BY <1>4 DEF PickModel
<1>5. CASE PickServer
    <2>1. PICK server \in Servers :
             window' = [window EXCEPT !.current = server,
                           !.servers = IF Contains(@, server) THEN @ ELSE Append(@, server)]
        BY <1>5 DEF PickServer
    <2>2. server \in Addresses /\ Append(window.servers, server) \in Seq(Addresses)
        BY DEF Addresses
    <2>3. /\ window'.current = server /\ window'.servers \in {window.servers, Append(window.servers, server)}
          /\ window' = [servers |-> window'.servers, current |-> window'.current, model |-> window'.model]
        BY <2>1
    <2> QED
        BY <1>5, <2>2, <2>3 DEF PickServer
<1>6. CASE Look \/ RemoveTest \/ RemoveStale \/ Move \/ Open \/ Clean
    <2>1. /\ UNCHANGED <<window, buffer>>
          /\ conf' \in {conf, Blank, Absent} /\ old' \in {old, conf, Absent}
        BY <1>6 DEF Look, RemoveTest, RemoveStale, Move, Open, Clean, Continues
    <2>2. Absent.servers \in Seq(Addresses) /\ Blank.servers \in Seq(Addresses)
        BY Empties
    <2> QED
        BY <2>1, <2>2
<1>7. CASE Write
    <2>1. UNCHANGED <<window, conf, old>> /\ buffer' = Lines
        BY <1>7 DEF Write, Continues
    <2>2. Lines.servers \in {ServerHistory, old.servers, <<>>}
        BY DEF Lines, Text
    <2>3. Lines.servers \in Seq(Addresses)
        <3>1. <<>> \in Seq(Addresses)
            OBVIOUS
        <3> QED
            BY <2>2, <3>1, HistoryHead
    <2> QED
        BY <2>1, <2>3
<1>8. CASE CloseFile \/ LookFails \/ MoveFails \/ OpenFails
    <2>1. UNCHANGED <<window, old>> /\ buffer' = Blank /\ conf' \in {conf, buffer}
        BY <1>8 DEF CloseFile, LookFails, MoveFails, OpenFails, Returns
    <2>2. Blank.servers \in Seq(Addresses)
        BY Empties
    <2> QED
        BY <2>1, <2>2
<1>9. CASE UNCHANGED vars
    BY <1>9 DEF vars
<1> QED
    BY <1>1, <1>2, <1>3, <1>4, <1>5, <1>6, <1>7, <1>8, <1>9 DEF Next, Load, Use, Save, Failure

(* A Save that succeeds writes what recalls what it was to keep.           *)
LEMMA WrittenRecalls ==
    ASSUME RInv, ~broken, Write
    PROVE  Recalls(buffer)'
<1> DEFINE over == ~skip /\ Full(old)
<1>1. /\ pc = "write" /\ buffer' = Lines /\ wanted' = Wanted
      /\ Remembered /\ Shown
    BY DEF Write, At, RInv
<1>2. wanted'.device = buffer'.device
    BY <1>1 DEF Lines, Wanted, Text
<1>3. /\ wanted'.model = (IF ui THEN window.model ELSE "")
      /\ wanted'.servers = (IF ui THEN <<window.current>> ELSE wanted.servers)
    BY <1>1 DEF Wanted, Text
<1>4. /\ buffer'.model = (IF over /\ ui /\ window.model # "" THEN window.model ELSE config.model)
      /\ buffer'.servers = (IF ui THEN ServerHistory ELSE IF over THEN old.servers ELSE <<>>)
    BY <1>1 DEF Lines, Full, Text
<1>5. wanted'.model \in {"", buffer'.model}
    BY <1>1, <1>3, <1>4 DEF Shown
<1>6. \/ wanted'.servers = <<>>
      \/ buffer'.servers # <<>> /\ wanted'.servers = <<Head(buffer'.servers)>>
    <2>1. CASE ui
        BY <1>3, <1>4, <2>1, HistoryHead DEF RInv
    <2>2. CASE ~ui
        BY <1>1, <1>3, <1>4, <2>2 DEF Remembered, Recalls
    <2> QED
        BY <2>1, <2>2
<1> QED
    BY <1>2, <1>5, <1>6 DEF Recalls

(* What a session saved is remembered, one case per call.                  *)
LEMMA RememberedStep ==
    ASSUME RInv, [Next]_vars, ~broken'
    PROVE  Remembered' /\ Shown'
<1>b. ~broken
    BY DEF Next, Load, LoadFile, LoadDefaults, Use, PickDevice, PickModel, PickServer, ClientID, NewClientID,
       ServerStarted, Save, Look, RemoveTest, RemoveStale, Move, Open, Write, Clean, CloseFile, Continues,
       Returns, Failure, LookFails, MoveFails, OpenFails, Stop, vars
<1>0. IInv /\ Remembered /\ Shown /\ Numbered /\ OneId /\ Kept
    BY <1>b DEF RInv, IInv
<1>1. CASE Load
    <2>1. /\ pc = "idle" /\ pc' \in {"idle", "look"} /\ UNCHANGED <<conf, old, wanted, skip>>
          /\ pc' = "look" => window'.model = ""
        BY <1>0, <1>1, FirstLists DEF Load, LoadFile, LoadDefaults, Numbered
    <2> QED
        BY <1>0, <2>1 DEF Remembered, Shown, Recalls
<1>2. CASE Use
    <2>1. /\ pc = "idle" /\ pc' \in {"idle", "look"} /\ UNCHANGED <<conf, old, wanted, skip>>
        BY <1>2 DEF Use, PickDevice, PickModel, PickServer, ClientID, NewClientID, ServerStarted, Idle
    <2>2. pc' = "look" => ui' = FALSE \/ Full(conf)
        <3>1. config.uid \in told /\ running /\ pc = "idle" => Full(conf)
            BY <1>0 DEF Kept, Numbered, Full
        <3> QED
            BY <1>2, <2>1, <3>1 DEF Use, PickDevice, PickModel, PickServer, ClientID, NewClientID,
               ServerStarted, Idle
    <2> QED
        BY <1>0, <2>1, <2>2 DEF Remembered, Shown, Recalls
<1>3. CASE Look
    <2>1. /\ pc = "look" /\ UNCHANGED <<ui, window, wanted, old>>
          /\ \/ pc' = "stale" /\ skip' = FALSE /\ conf' = conf
             \/ pc' = "test" /\ ~Full(conf) /\ ~Full(conf')
        BY <1>3, Empties DEF Look, At, Continues, There, Full
    <2> QED
        BY <1>0, <2>1 DEF Remembered, Shown, Recalls
<1>4. CASE RemoveTest
    <2>1. /\ pc = "test" /\ pc' = "stale" /\ UNCHANGED <<ui, window, wanted, old, skip>>
          /\ ~Full(conf')
        BY <1>4, Empties DEF RemoveTest, At, Continues
    <2>2. ~Full(conf)
        BY <1>0, <2>1 DEF Remembered
    <2> QED
        BY <1>0, <2>1, <2>2 DEF Remembered, Shown
<1>5. CASE RemoveStale
    <2>1. pc = "stale" /\ pc' = "move" /\ UNCHANGED <<ui, window, wanted, conf, skip>>
        BY <1>5 DEF RemoveStale, At, Continues
    <2> QED
        BY <1>0, <2>1 DEF Remembered, Shown, Recalls
<1>6. CASE Move
    <2>1. /\ pc = "move" /\ pc' = "open" /\ UNCHANGED <<ui, window, wanted, skip>>
          /\ IF skip THEN conf' = conf ELSE old' = conf /\ ~Full(conf')
        BY <1>6, Empties DEF Move, At, Continues
    <2> QED
        BY <1>0, <2>1 DEF Remembered, Shown, Recalls
<1>7. CASE Open
    <2>1. pc = "open" /\ pc' = "write" /\ UNCHANGED <<ui, window, wanted, old, skip>> /\ ~Full(conf')
        BY <1>7, Empties DEF Open, At, Continues
    <2> QED
        BY <1>0, <2>1 DEF Remembered, Shown, Recalls
<1>8. CASE Write
    <2>1. pc = "write" /\ pc' = "clean" /\ conf' = conf
        BY <1>8 DEF Write, At, Continues
    <2>2. Recalls(buffer)'
        BY <1>b, <1>8, WrittenRecalls
    <2> QED
        BY <1>0, <2>1, <2>2 DEF Remembered, Shown
<1>9. CASE Clean
    <2>1. pc = "clean" /\ pc' = "close" /\ UNCHANGED <<conf, buffer, wanted>>
        BY <1>9 DEF Clean, At, Continues
    <2> QED
        BY <1>0, <2>1 DEF Remembered, Shown, Recalls
<1>10. CASE CloseFile
    <2>1. pc = "close" /\ pc' = "idle" /\ conf' = buffer /\ wanted' = wanted
        BY <1>10 DEF CloseFile, At, Returns
    <2>2. Full(buffer)
        BY <1>0, <2>1 DEF Numbered, Full
    <2> QED
        BY <1>0, <2>1, <2>2 DEF Remembered, Shown, Recalls
<1>11. CASE Failure
    <2>1. /\ pc \in {"stale", "move"} /\ pc' = "idle"
          /\ UNCHANGED <<conf, wanted>>
        BY <1>11 DEF Failure, LookFails, MoveFails, OpenFails, At, Returns
    <2> QED
        BY <1>0, <2>1 DEF Remembered, Shown, Recalls
<1>12. CASE Stop
    <2>1. /\ pc \notin {"open", "write", "clean", "close"} /\ pc' = "idle"
          /\ UNCHANGED <<conf, wanted>>
        BY <1>12 DEF Stop
    <2>2. pc \in {"idle", "look", "test", "stale", "move"}
        BY <1>0, <2>1 DEF Numbered
    <2> QED
        BY <1>0, <2>1, <2>2 DEF Remembered, Shown, Recalls
<1>13. CASE UNCHANGED vars
    BY <1>0, <1>13 DEF vars, Remembered, Shown, Recalls
<1> QED
    BY <1>1, <1>2, <1>3, <1>4, <1>5, <1>6, <1>7, <1>8, <1>9, <1>10, <1>11, <1>12, <1>13 DEF Next, Save

LEMMA RInvariant == Spec => []RInv
<1>1. Init => RInv
    <2> SUFFICES ASSUME Init PROVE RInv
        OBVIOUS
    <2>1. /\ conf.servers = <<>> /\ old.servers = <<>> /\ buffer.servers = <<>>
          /\ ~Full(conf) /\ wanted.servers = <<>> /\ pc = "idle" /\ window = FirstWindow
        BY Empties DEF Init
    <2>2. Listed
        <3>1. <<>> \in Seq(Addresses)
            OBVIOUS
        <3> QED
            BY <2>1, <3>1, FirstLists DEF Listed
    <2>3. Remembered /\ Shown
        BY <2>1 DEF Remembered, Shown
    <2> QED
        BY <2>2, <2>3, InitIInv DEF RInv
<1>2. RInv /\ [Next]_vars => RInv'
    BY NextIInv, ListedStep, RememberedStep DEF RInv
<1> QED
    BY <1>1, <1>2, PTL DEF Spec

(* What a session saved is what the next one starts with, the exception    *)
(* being the name that ParseLine cuts at a '#'.                            *)
THEOREM SessionRestored == Spec => Restored
<1>1. RInv /\ [Next]_vars =>
          [LoadFile /\ ~broken /\ conf.state = "full" =>
              /\ wanted.device \in Hashed \cup {"none", config'.device}
              /\ wanted.model \in {"", config'.model}
              /\ wanted.servers \in {<<>>, <<window'.current>>}]_vars
    <2> SUFFICES ASSUME RInv, LoadFile, ~broken, Full(conf)
                 PROVE  /\ wanted.device \in Hashed \cup {"none", config'.device}
                        /\ wanted.model \in {"", config'.model}
                        /\ wanted.servers \in {<<>>, <<window'.current>>}
        BY DEF Full
    <2>1. pc = "idle"
        BY DEF RInv, IInv, Numbered, LoadFile
    <2>2. Recalls(conf)
        BY <2>1 DEF RInv, Remembered
    <2>3. config'.device = Parsed(conf.device) /\ config'.model = conf.model /\ window' = LoadedWindow
        BY DEF LoadFile
    <2>4. wanted.device \in Hashed \cup {"none", config'.device}
        BY <2>2, <2>3 DEF Recalls, Parsed
    <2>5. wanted.servers \in {<<>>, <<window'.current>>}
        <3>1. conf.servers # <<>> => window'.current = Head(conf.servers)
            BY <2>3 DEF LoadedWindow, FirstWindow
        <3> QED
            BY <2>2, <3>1 DEF Recalls
    <2> QED
        BY <2>2, <2>3, <2>4, <2>5 DEF Recalls
<1> QED
    BY <1>1, RInvariant, PTL DEF Spec, Restored

=============================================================================
