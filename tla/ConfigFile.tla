---------------------------- MODULE ConfigFile ------------------------------
(***************************************************************************)
(* client.conf (localconfig.cpp): the main thread loads it when the first  *)
(* list of devices is there, and saves it when the server has started and  *)
(* when a client id is made up.  Save moves the file to client.conf.old,   *)
(* writes a new one and removes the old one; what it writes stays in the   *)
(* buffer of its stream until the stream is closed, when Save returns.     *)
(*                                                                         *)
(* Every call of the file system is a step.  The program may crash after   *)
(* each, and be started again; a call may fail.                            *)
(***************************************************************************)
EXTENDS Naturals, Sequences, SequencesExt, FiniteSets

CONSTANTS MaxStarts,     \* bound: times the program is started
          SaveServers,   \* U_SAVE_PREV_SERVERS
          Servers, Models, Devices,
          Hashed, Stem   \* devices with a '#' in their name, and what is before it

ASSUME ConfigAssumption ==
    /\ MaxStarts \in Nat \ {0} /\ SaveServers \in Nat \ {0}
    /\ {"", "none", "server"} \cap (Servers \cup Models \cup Devices) = {}
    /\ Hashed \subseteq Devices /\ Stem \notin Hashed

VARIABLES conf, old,     \* client.conf, client.conf.old
          config,        \* u_ConfigData
          window,        \* the combo boxes of the servers and of the model
          running, pc,   \* Save's next step
          ui, skip,      \* Save's argument (a window), skipOverwrite
          buffer,        \* what newConfigStream has not written yet
          starts,        \* history: times started
          told,          \* history: client ids GetClientID has returned
          wanted,        \* history: what the last Save was to keep
          broken         \* history: a Save was stopped between rename and close,
                         \* or could not make the first file

files == <<conf, old>>
saving == <<pc, ui, skip, buffer>>
history == <<starts, told, wanted, broken>>
vars == <<files, config, window, running, saving, history>>

(* A blank file has no lines (or the '#' of the test write), a full one    *)
(* has a line for every key.  One device and one name stand for two each.  *)
Text(uid, device, model, servers) ==
    [state |-> "full", uid |-> uid, device |-> device, model |-> model, servers |-> servers]
Absent == [Text(0, "", "", <<>>) EXCEPT !.state = "absent"]
Blank == [Text(0, "", "", <<>>) EXCEPT !.state = "blank"]

There(file) == file.state # "absent"

(* The window as the program starts: a server's address is in its box.     *)
FirstWindow == [servers |-> <<>>, current |-> CHOOSE s \in Servers : TRUE, model |-> ""]

Init ==
    /\ conf = Absent /\ old = Absent
    /\ config = [uid |-> 0, device |-> "", model |-> ""] /\ window = FirstWindow
    /\ running = FALSE
    /\ pc = "idle" /\ ui = FALSE /\ skip = FALSE /\ buffer = Blank
    /\ starts = 0 /\ told = {} /\ wanted = Blank /\ broken = FALSE

Idle == running /\ pc = "idle"

-----------------------------------------------------------------------------
(* Load.                                                                   *)

(* ParseLine cuts a value at a '#'; "none" is not taken.                   *)
Parsed(device) ==
    IF device \in Hashed THEN Stem ELSE IF device = "none" THEN "" ELSE device

(* Load clears the box and adds the servers; the first is the current one. *)
LoadedWindow ==
    IF conf.servers = <<>> THEN FirstWindow
    ELSE [FirstWindow EXCEPT !.servers = conf.servers, !.current = Head(conf.servers)]

LoadFile ==
    /\ ~running /\ starts < MaxStarts /\ There(conf)
    /\ running' = TRUE /\ starts' = starts + 1
    /\ config' = [uid |-> conf.uid, device |-> Parsed(conf.device), model |-> conf.model]
    /\ window' = LoadedWindow
    /\ UNCHANGED <<files, saving, told, wanted, broken>>

(* GenerateLocalUID: of the time, so another one at every start.           *)
LoadDefaults ==
    /\ ~running /\ starts < MaxStarts /\ ~There(conf)
    /\ running' = TRUE /\ starts' = starts + 1
    /\ config' = [uid |-> starts + 1, device |-> "none", model |-> ""]
    /\ window' = FirstWindow
    /\ pc' = "look" /\ ui' = TRUE
    /\ UNCHANGED <<files, skip, buffer, told, wanted, broken>>

-----------------------------------------------------------------------------
(* The window and the server.                                              *)

(* A device is picked, or the server's.                                    *)
PickDevice ==
    /\ Idle
    /\ \E device \in Devices \cup {"server"} : config' = [config EXCEPT !.device = device]
    /\ UNCHANGED <<files, window, running, saving, history>>

(* The server's models are there; the saved one is selected, or another.   *)
PickModel ==
    /\ Idle
    /\ \E model \in Models : window' = [window EXCEPT !.model = model]
    /\ UNCHANGED <<files, config, running, saving, history>>

(* A server is picked, or typed: QComboBox appends it at the bottom.       *)
PickServer ==
    /\ Idle
    /\ \E server \in Servers :
          window' = [window EXCEPT
              !.current = server,
              !.servers = IF Contains(@, server) THEN @ ELSE Append(@, server)]
    /\ UNCHANGED <<files, config, running, saving, history>>

(* GetClientID, for GET_PARAMS.  Its Save has neither window nor history,  *)
(* and it returns when that has.                                           *)
ClientID ==
    /\ Idle /\ config.uid # 0
    /\ told' = told \cup {config.uid}
    /\ UNCHANGED <<files, config, window, running, saving, starts, wanted, broken>>

NewClientID ==
    /\ Idle /\ config.uid = 0
    /\ config' = [config EXCEPT !.uid = starts]
    /\ pc' = "look" /\ ui' = FALSE
    /\ UNCHANGED <<files, window, running, skip, buffer, history>>

(* SERVER_STARTED: connected, so the server has been told.                 *)
ServerStarted ==
    /\ Idle /\ config.uid \in told
    /\ pc' = "look" /\ ui' = TRUE
    /\ UNCHANGED <<files, config, window, running, skip, buffer, history>>

-----------------------------------------------------------------------------
(* Save.                                                                   *)

At(step) == running /\ pc = step
Returns ==
    /\ pc' = "idle" /\ ui' = FALSE /\ skip' = FALSE /\ buffer' = Blank
    /\ UNCHANGED <<config, window, running, starts, told, wanted>>
Continues(step) ==
    /\ pc' = step
    /\ UNCHANGED <<window, running, ui, starts, told>>

(* A file that is there is overwritten; otherwise a test is written.       *)
Look ==
    /\ At("look")
    /\ \/ There(conf) /\ skip' = FALSE /\ Continues("stale") /\ UNCHANGED conf
       \/ ~There(conf) /\ skip' = TRUE /\ Continues("test") /\ conf' = Blank
    /\ UNCHANGED <<old, config, buffer, wanted, broken>>

(* The directory or the file cannot be created, or the test not removed.   *)
LookFails ==
    /\ (At("look") /\ ~There(conf)) \/ At("test")
    /\ Returns
    /\ broken' = TRUE
    /\ UNCHANGED files

RemoveTest ==
    /\ At("test")
    /\ conf' = Absent
    /\ Continues("stale")
    /\ UNCHANGED <<old, config, skip, buffer, wanted, broken>>

(* A stale copy is removed, whatever is in the file.                       *)
RemoveStale ==
    /\ At("stale")
    /\ old' = Absent
    /\ Continues("move")
    /\ UNCHANGED <<conf, config, skip, buffer, wanted, broken>>

(* Mutant: the file is removed rather than moved.                          *)
MoveAway ==
    /\ At("move")
    /\ old' = old /\ conf' = Absent
    /\ Continues("open")
    /\ UNCHANGED <<config, skip, buffer, wanted, broken>>

Move ==
    /\ At("move")
    /\ IF skip THEN UNCHANGED files ELSE old' = conf /\ conf' = Absent
    /\ Continues("open")
    /\ UNCHANGED <<config, skip, buffer, wanted, broken>>

(* The stale copy, the file: one cannot be removed, the other not renamed. *)
MoveFails ==
    /\ (At("stale") /\ There(old)) \/ (At("move") /\ ~skip)
    /\ Returns
    /\ broken' = (broken \/ conf.state # "full")
    /\ UNCHANGED files

Open ==
    /\ At("open")
    /\ conf' = Blank
    /\ Continues("write")
    /\ UNCHANGED <<old, config, skip, buffer, wanted, broken>>

OpenFails ==
    /\ At("open")
    /\ Returns
    /\ broken' = TRUE
    /\ UNCHANGED files

(* ServerHistoryString: the current server, then the others.               *)
ServerHistory ==
    LET all == <<window.current>> \o RemoveFirst(window.servers, window.current)
    IN  SubSeq(all, 1, IF Len(all) < SaveServers THEN Len(all) ELSE SaveServers)

(* The lines of the old file are copied, those of the keys with the values *)
(* of now; then the lines that were not there.  The combo box of the model *)
(* is only asked when its line was.                                        *)
Lines ==
    LET over == ~skip /\ old.state = "full"
    IN  Text(config.uid, config.device,
             IF over /\ ui /\ window.model # "" THEN window.model ELSE config.model,
             IF ui THEN ServerHistory ELSE IF over THEN old.servers ELSE <<>>)

(* What a Save should keep: with a window, what it shows.                  *)
Wanted ==
    Text(config.uid, config.device, IF ui THEN window.model ELSE "",
         IF ui THEN <<window.current>> ELSE wanted.servers)

(* Mutant: a line that was there is passed through as it was.              *)
WriteOver ==
    /\ At("write")
    /\ buffer' = IF ~skip /\ old.state = "full" THEN [Lines EXCEPT !.device = old.device]
                 ELSE Lines
    /\ config' = [config EXCEPT !.model = Lines.model]
    /\ wanted' = Wanted
    /\ Continues("clean")
    /\ UNCHANGED <<files, skip, broken>>

(* Mutant: the id is only written where it was not.                        *)
WriteNoId ==
    /\ At("write")
    /\ buffer' = IF ~skip /\ old.state = "full" THEN [Lines EXCEPT !.uid = 0] ELSE Lines
    /\ config' = [config EXCEPT !.model = Lines.model]
    /\ wanted' = Wanted
    /\ Continues("clean")
    /\ UNCHANGED <<files, skip, broken>>

Write ==
    /\ At("write")
    /\ buffer' = Lines
    /\ config' = [config EXCEPT !.model = Lines.model]
    /\ wanted' = Wanted
    /\ Continues("clean")
    /\ UNCHANGED <<files, skip, broken>>

(* "All items have been written": the old file is removed.                 *)
Clean ==
    /\ At("clean")
    /\ old' = Absent
    /\ Continues("close")
    /\ UNCHANGED <<conf, config, skip, buffer, wanted, broken>>

(* The destructor of the stream writes the buffer.                         *)
CloseFile ==
    /\ At("close")
    /\ conf' = buffer
    /\ Returns
    /\ UNCHANGED <<old, broken>>

(* The program ends, by itself or not; nothing is saved then.              *)
Stop ==
    /\ running
    /\ running' = FALSE
    /\ config' = [uid |-> 0, device |-> "", model |-> ""] /\ window' = FirstWindow
    /\ pc' = "idle" /\ ui' = FALSE /\ skip' = FALSE /\ buffer' = Blank
    /\ broken' = (broken \/ pc \in {"open", "write", "clean", "close"})
    /\ UNCHANGED <<files, starts, told, wanted>>

Load == LoadFile \/ LoadDefaults
Use == PickDevice \/ PickModel \/ PickServer \/ ClientID \/ NewClientID \/ ServerStarted
Save == Look \/ RemoveTest \/ RemoveStale \/ Move \/ Open \/ Write \/ Clean \/ CloseFile
Failure == LookFails \/ MoveFails \/ OpenFails

Next == Load \/ Use \/ Save \/ Failure \/ Stop

Spec == Init /\ [][Next]_vars

-----------------------------------------------------------------------------
Names == Devices \cup {Stem, "", "none", "server"}

Texts == [state : {"absent", "blank", "full"}, uid : 0..MaxStarts, device : Names,
          model : Models \cup {""}, servers : SeqOf(Servers, SaveServers)]

TypeOK ==
    /\ {conf, old, buffer} \subseteq Texts
    /\ config \in [uid : 0..MaxStarts, device : Names, model : Models \cup {""}]
    /\ window.current \in Servers /\ window.model \in Models \cup {""}
    /\ IsInjective(window.servers) /\ Range(window.servers) \subseteq Servers
    /\ pc \in {"idle", "look", "test", "stale", "move", "open", "write", "clean", "close"}
    /\ {running, ui, skip, broken} \subseteq BOOLEAN
    /\ starts \in 0..MaxStarts /\ told \subseteq 1..MaxStarts

(* The server keeps its settings under the client's id (GetClientID), so   *)
(* the client keeps its id from one start to the next: whenever it ends,   *)
(* and whichever call fails, unless that is between the rename and the     *)
(* close, or the file cannot be created at all.                            *)
IdSurvives == ~broken => Cardinality(told) <= 1

(* Until Save has removed the old file, an id that a server knows is in    *)
(* one of the two files (Save, Load).                                      *)
IdOnDisk ==
    told # {} /\ ~broken /\ pc # "close" => {conf.uid, old.uid} \cap told # {}

(* What a session saved is what the next one starts with: the device, the  *)
(* model if one was shown, the server first in the list (Save, Load,       *)
(* ServerHistoryString).  A name with a '#' is the exception (ParseLine).  *)
Restored ==
    [][LoadFile /\ ~broken /\ conf.state = "full" =>
          /\ wanted.device \in Hashed \cup {"none", config'.device}
          /\ wanted.model \in {"", config'.model}
          /\ wanted.servers \in {<<>>, <<window'.current>>}]_vars

(* "All items have been written" (localconfig.cpp:275), when the old file  *)
(* is removed: what it held is then in the new one.                        *)
WrittenFirst == [][Clean => conf.uid = buffer.uid]_vars

=============================================================================
