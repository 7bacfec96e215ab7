------------------------ MODULE DeviceRegistryProofs -------------------------
(***************************************************************************)
(* The combo box mirrors the list of devices, for any number of devices,   *)
(* of changes and of signals waiting between the two threads.              *)
(***************************************************************************)
EXTENDS DeviceRegistry, SequenceTheorems, TLAPS

Entries == [dev : Devices, id : Nat]

Events == [kind : {"ready"}] \cup [kind : {"removed"}, at : Nat]
              \cup [kind : {"added"}, at : Nat, dev : Devices]

Typed ==
    /\ inputDeviceList \in Seq(Entries)
    /\ uiq \in Seq(Events)
    /\ combo \in Seq(Devices \cup {"server"})
    /\ firstRun \in BOOLEAN

(* What the combo box is to show.                                          *)
Names(list) == [i \in 1..Len(list) |-> list[i].dev]
Listed == Names(inputDeviceList)

(* A signal tells how one list became the next.                            *)
Follows(s, e, t) ==
    \/ e.kind = "added" /\ e.at = Len(s) /\ e.dev \in Devices /\ t = Append(s, e.dev)
    \/ e.kind = "removed" /\ e.at \in 0..(Len(s) - 1) /\ t = RemoveAt(s, e.at + 1)

(* The signals that wait lead from what the combo box shows to the list:   *)
(* past holds the lists in between, the oldest first.                      *)
Leads(past) ==
    /\ Len(past) = Len(uiq) + 1
    /\ combo = Append(past[1], "server")
    /\ past[Len(past)] = Listed
    /\ \A k \in 1..Len(uiq) : Follows(past[k], uiq[k], past[k + 1])

(* Until the first copy is taken the combo box is empty, and nothing comes *)
(* or goes between the end of the reading and the copy.                    *)
Before ==
    /\ combo = <<>>
    /\ firstRun => \A i \in 1..Len(uiq) : uiq[i].kind = "removed"
    /\ ~firstRun => /\ uiq # <<>>
                    /\ \A i \in 1..Len(uiq) :
                          uiq[i].kind = IF i = Len(uiq) THEN "ready" ELSE "removed"

After ==
    /\ ~firstRun
    /\ \E past \in Seq(Seq(Devices)) : Leads(past)

MirrorInv == Typed /\ ("early" \notin cases => Before \/ After)

-----------------------------------------------------------------------------
(* Sequences.                                                              *)

LEMMA RemoveAtProperties ==
    ASSUME NEW S, NEW s \in Seq(S), NEW i \in 1..Len(s)
    PROVE  /\ RemoveAt(s, i) \in Seq(S)
           /\ Len(RemoveAt(s, i)) = Len(s) - 1
           /\ \A j \in 1..(Len(s) - 1) :
                  RemoveAt(s, i)[j] = IF j < i THEN s[j] ELSE s[j + 1]
<1> DEFINE a == SubSeq(s, 1, i - 1)
           b == SubSeq(s, i + 1, Len(s))
<1>1. Len(s) \in Nat /\ \A j \in 1..Len(s) : s[j] \in S
    BY LenProperties
<1>2. /\ a \in Seq(S) /\ Len(a) = i - 1
      /\ \A j \in 1..(i - 1) : a[j] = s[j]
    <2>1. /\ a \in Seq(S) /\ Len(a) = IF 1 <= i - 1 THEN (i - 1) - 1 + 1 ELSE 0
          /\ \A j \in 1..((i - 1) - 1 + 1) : a[j] = s[1 + j - 1]
        BY <1>1, SubSeqProperties
    <2> QED
        BY <2>1, <1>1
<1>3. /\ b \in Seq(S) /\ Len(b) = Len(s) - i
      /\ \A j \in 1..(Len(s) - i) : b[j] = s[i + j]
    <2>1. /\ b \in Seq(S) /\ Len(b) = IF i + 1 <= Len(s) THEN Len(s) - (i + 1) + 1 ELSE 0
          /\ \A j \in 1..(Len(s) - (i + 1) + 1) : b[j] = s[(i + 1) + j - 1]
        BY <1>1, SubSeqProperties
    <2> QED
        BY <2>1, <1>1
<1> HIDE DEF a, b
<1>4. /\ a \o b \in Seq(S) /\ Len(a \o b) = Len(a) + Len(b)
      /\ \A j \in 1..(Len(a) + Len(b)) : (a \o b)[j] = IF j <= Len(a) THEN a[j] ELSE b[j - Len(a)]
    BY <1>2, <1>3, ConcatProperties
<1>5. a \o b \in Seq(S) /\ Len(a \o b) = Len(s) - 1
    BY <1>1, <1>2, <1>3, <1>4
<1>6. ASSUME NEW j \in 1..(Len(s) - 1) PROVE (a \o b)[j] = IF j < i THEN s[j] ELSE s[j + 1]
    <2>1. CASE j < i
        BY <2>1, <1>1, <1>2, <1>3, <1>4
    <2>2. CASE ~(j < i)
        <3>1. (a \o b)[j] = b[j - (i - 1)] /\ j - (i - 1) \in 1..(Len(s) - i)
            BY <2>2, <1>1, <1>2, <1>3, <1>4
        <3>2. b[j - (i - 1)] = s[i + (j - (i - 1))]
            BY <3>1, <1>3
        <3>3. i + (j - (i - 1)) = j + 1
            BY <1>1
        <3> QED
            BY <2>2, <3>1, <3>2, <3>3
    <2> QED
        BY <2>1, <2>2
<1> QED
    BY <1>5, <1>6 DEF RemoveAt, a, b

(* "server" stays last, whatever comes or goes before it.                  *)
LEMMA RemoveBeforeLast ==
    ASSUME NEW S, NEW s \in Seq(S), NEW x \in S, NEW i \in 1..Len(s)
    PROVE  RemoveAt(Append(s, x), i) = Append(RemoveAt(s, i), x)
<1> DEFINE t == Append(s, x)
           r == RemoveAt(s, i)
           u == Append(r, x)
<1>1. Len(s) \in Nat
    BY LenProperties
<1>2. /\ t \in Seq(S) /\ Len(t) = Len(s) + 1 /\ t[Len(s) + 1] = x
      /\ \A j \in 1..Len(s) : t[j] = s[j]
    BY AppendProperties
<1>3. /\ r \in Seq(S) /\ Len(r) = Len(s) - 1
      /\ \A j \in 1..(Len(s) - 1) : r[j] = IF j < i THEN s[j] ELSE s[j + 1]
    BY RemoveAtProperties
<1>4. /\ u \in Seq(S) /\ Len(u) = Len(r) + 1 /\ u[Len(r) + 1] = x
      /\ \A j \in 1..Len(r) : u[j] = r[j]
    BY <1>3, AppendProperties
<1> HIDE DEF r, t, u
<1>5. /\ RemoveAt(t, i) \in Seq(S) /\ Len(RemoveAt(t, i)) = Len(t) - 1
      /\ \A j \in 1..(Len(t) - 1) : RemoveAt(t, i)[j] = IF j < i THEN t[j] ELSE t[j + 1]
    <2>1. t \in Seq(S) /\ i \in 1..Len(t)
        BY <1>1, <1>2
    <2> QED
        BY <2>1, RemoveAtProperties
<1> DEFINE v == RemoveAt(t, i)
<1> HIDE DEF v
<1>6. v \in Seq(S) /\ Len(v) = Len(s) /\ Len(u) = Len(s)
    BY <1>1, <1>2, <1>3, <1>4, <1>5 DEF v
<1>7. ASSUME NEW j \in 1..Len(s) PROVE v[j] = u[j]
    <2>1. v[j] = IF j < i THEN t[j] ELSE t[j + 1]
        BY <1>1, <1>2, <1>5 DEF v
    <2>2. CASE j = Len(s)
        BY <2>1, <2>2, <1>1, <1>2, <1>3, <1>4
    <2>3. CASE j < Len(s)
        <3>1. u[j] = r[j] /\ r[j] = IF j < i THEN s[j] ELSE s[j + 1]
            BY <2>3, <1>1, <1>3, <1>4
        <3>2. t[j] = s[j] /\ t[j + 1] = s[j + 1]
            BY <2>3, <1>1, <1>2
        <3> QED
            BY <2>1, <3>1, <3>2
    <2> QED
        BY <2>2, <2>3, <1>1
<1>8. v = u
    BY <1>4, <1>6, <1>7, SeqEqual
<1> QED
    BY <1>8 DEF r, t, u, v

LEMMA InsertBeforeLast ==
    ASSUME NEW S, NEW s \in Seq(S), NEW x \in S, NEW d \in S
    PROVE  InsertAt(Append(s, x), Len(s) + 1, d) = Append(Append(s, d), x)
<1> DEFINE t == Append(s, x)
<1>1. Len(s) \in Nat
    BY LenProperties
<1>2. /\ t \in Seq(S) /\ Len(t) = Len(s) + 1 /\ t[Len(s) + 1] = x
      /\ \A j \in 1..Len(s) : t[j] = s[j]
    BY AppendProperties
<1> HIDE DEF t
<1>3. SubSeq(t, 1, Len(s)) = s
    <2>1. /\ SubSeq(t, 1, Len(s)) \in Seq(S) /\ Len(SubSeq(t, 1, Len(s))) = Len(s)
          /\ \A j \in 1..Len(s) : SubSeq(t, 1, Len(s))[j] = t[j]
        <3>1. \A j \in 1..Len(s) : t[j] \in S
            BY <1>1, <1>2, ElementOfSeq
        <3>2. /\ SubSeq(t, 1, Len(s)) \in Seq(S)
              /\ Len(SubSeq(t, 1, Len(s))) = IF 1 <= Len(s) THEN Len(s) - 1 + 1 ELSE 0
              /\ \A j \in 1..(Len(s) - 1 + 1) : SubSeq(t, 1, Len(s))[j] = t[1 + j - 1]
            BY <1>1, <3>1, SubSeqProperties
        <3> QED
            BY <1>1, <3>2
    <2> QED
        BY <2>1, <1>1, <1>2, SeqEqual
<1>4. SubSeq(t, Len(s) + 1, Len(t)) = <<x>>
    <2> DEFINE e == SubSeq(t, Len(s) + 1, Len(t))
    <2>1. \A j \in (Len(s) + 1)..Len(t) : t[j] \in S
        BY <1>1, <1>2, ElementOfSeq
    <2>2. /\ e \in Seq(S)
          /\ Len(e) = IF Len(s) + 1 <= Len(t) THEN Len(t) - (Len(s) + 1) + 1 ELSE 0
          /\ \A j \in 1..(Len(t) - (Len(s) + 1) + 1) : e[j] = t[(Len(s) + 1) + j - 1]
        BY <1>1, <1>2, <2>1, SubSeqProperties
    <2> HIDE DEF e
    <2>3. Len(e) = 1 /\ e[1] = x
        BY <1>1, <1>2, <2>2
    <2>4. <<x>> \in Seq(S) /\ Len(<<x>>) = 1 /\ <<x>>[1] = x
        OBVIOUS
    <2>5. e = <<x>>
        BY <2>2, <2>3, <2>4, SeqEqual
    <2> QED
        BY <2>5 DEF e
<1>5. (s \o <<d>>) \o <<x>> = Append(Append(s, d), x)
    BY AppendIsConcat, AppendProperties
<1>6. (Len(s) + 1) - 1 = Len(s)
    BY <1>1
<1> QED
    BY <1>3, <1>4, <1>5, <1>6 DEF InsertAt, t

LEMMA InsertAtSeq ==
    ASSUME NEW S, NEW s \in Seq(S), NEW i \in 1..(Len(s) + 1), NEW d \in S
    PROVE  InsertAt(s, i, d) \in Seq(S)
<1>1. Len(s) \in Nat /\ \A j \in 1..Len(s) : s[j] \in S
    BY LenProperties, ElementOfSeq
<1>2. SubSeq(s, 1, i - 1) \in Seq(S)
    BY <1>1, SubSeqProperties
<1>3. SubSeq(s, i, Len(s)) \in Seq(S)
    BY <1>1, SubSeqProperties
<1>4. <<d>> \in Seq(S)
    OBVIOUS
<1> QED
    BY <1>2, <1>3, <1>4, ConcatProperties DEF InsertAt

-----------------------------------------------------------------------------
(* The names of a list.                                                    *)

LEMMA NamesSeq ==
    ASSUME NEW list \in Seq(Entries)
    PROVE  /\ Names(list) \in Seq(Devices) /\ Len(Names(list)) = Len(list)
           /\ \A i \in 1..Len(list) : Names(list)[i] = list[i].dev
<1>1. Len(list) \in Nat /\ \A i \in 1..Len(list) : list[i] \in Entries
    BY LenProperties, ElementOfSeq
<1>2. \A i \in 1..Len(list) : list[i].dev \in Devices
    BY <1>1 DEF Entries
<1> QED
    BY <1>1, <1>2, IsASeq DEF Names

LEMMA NamesAppend ==
    ASSUME NEW list \in Seq(Entries), NEW e \in Entries
    PROVE  Names(Append(list, e)) = Append(Names(list), e.dev)
<1> DEFINE t == Append(list, e)
           n == Names(list)
           u == Append(n, e.dev)
<1>1. /\ t \in Seq(Entries) /\ Len(t) = Len(list) + 1 /\ t[Len(list) + 1] = e
      /\ \A j \in 1..Len(list) : t[j] = list[j]
    BY AppendProperties
<1>2. /\ n \in Seq(Devices) /\ Len(n) = Len(list)
      /\ \A i \in 1..Len(list) : n[i] = list[i].dev
    BY NamesSeq
<1> HIDE DEF t, n
<1>3. /\ Names(t) \in Seq(Devices) /\ Len(Names(t)) = Len(t)
      /\ \A i \in 1..Len(t) : Names(t)[i] = t[i].dev
    BY <1>1, NamesSeq
<1>4. e.dev \in Devices
    BY DEF Entries
<1>5. /\ u \in Seq(Devices) /\ Len(u) = Len(n) + 1 /\ u[Len(n) + 1] = e.dev
      /\ \A j \in 1..Len(n) : u[j] = n[j]
    BY <1>2, <1>4, AppendProperties
<1> HIDE DEF u
<1>6. Len(list) \in Nat
    BY LenProperties
<1>7. \A j \in 1..Len(u) : Names(t)[j] = u[j]
    BY <1>1, <1>2, <1>3, <1>5, <1>6
<1>8. Len(Names(t)) = Len(u)
    BY <1>1, <1>2, <1>3, <1>5
<1>9. Names(t) = u
    BY <1>3, <1>5, <1>7, <1>8, SeqEqual
<1> QED
    BY <1>9 DEF t, n, u

LEMMA NamesRemoveAt ==
    ASSUME NEW list \in Seq(Entries), NEW i \in 1..Len(list)
    PROVE  Names(RemoveAt(list, i)) = RemoveAt(Names(list), i)
<1> DEFINE t == RemoveAt(list, i)
           n == Names(list)
           u == RemoveAt(n, i)
<1>1. /\ t \in Seq(Entries) /\ Len(t) = Len(list) - 1
      /\ \A j \in 1..(Len(list) - 1) : t[j] = IF j < i THEN list[j] ELSE list[j + 1]
    BY RemoveAtProperties
<1>2. /\ n \in Seq(Devices) /\ Len(n) = Len(list)
      /\ \A j \in 1..Len(list) : n[j] = list[j].dev
    BY NamesSeq
<1> HIDE DEF t, n
<1>3. /\ Names(t) \in Seq(Devices) /\ Len(Names(t)) = Len(t)
      /\ \A j \in 1..Len(t) : Names(t)[j] = t[j].dev
    BY <1>1, NamesSeq
<1>4. /\ u \in Seq(Devices) /\ Len(u) = Len(n) - 1
      /\ \A j \in 1..(Len(n) - 1) : u[j] = IF j < i THEN n[j] ELSE n[j + 1]
    <2>1. i \in 1..Len(n)
        BY <1>2
    <2> QED
        BY <1>2, <2>1, RemoveAtProperties
<1> HIDE DEF u
<1>5. Len(list) \in Nat
    BY LenProperties
<1>6. ASSUME NEW j \in 1..(Len(list) - 1) PROVE Names(t)[j] = u[j]
    <2>1. Names(t)[j] = t[j].dev
        BY <1>1, <1>3, <1>5
    <2>2. j \in 1..Len(list) /\ j + 1 \in 1..Len(list)
        BY <1>5
    <2>3. n[j] = list[j].dev /\ n[j + 1] = list[j + 1].dev
        BY <2>2, <1>2
    <2>4. u[j] = IF j < i THEN n[j] ELSE n[j + 1]
        BY <1>2, <1>4
    <2>5. t[j] = IF j < i THEN list[j] ELSE list[j + 1]
        BY <1>1
    <2> QED
        BY <2>1, <2>3, <2>4, <2>5
<1>7. Len(Names(t)) = Len(u) /\ Len(u) = Len(list) - 1
    BY <1>1, <1>2, <1>3, <1>4
<1>8. Names(t) = u
    BY <1>3, <1>4, <1>6, <1>7, SeqEqual
<1> QED
    BY <1>8 DEF t, n, u

-----------------------------------------------------------------------------
(* The types.                                                              *)

LEMMA TypedInit == Init => Typed
BY EmptySeq DEF Init, Typed

LEMMA TypedStep == Typed /\ [Next]_vars => Typed'
<1> SUFFICES ASSUME Typed, [Next]_vars PROVE Typed'
    OBVIOUS
<1>1. /\ Size \in Nat /\ Len(combo) \in Nat /\ Len(uiq) \in Nat
      /\ \A i \in 1..Len(uiq) : uiq[i] \in Events
    BY LenProperties, ElementOfSeq DEF Typed, Size
<1>2. ASSUME uiq # <<>>, uiq' = Tail(uiq)
      PROVE  uiq' \in Seq(Events) /\ Head(uiq) \in Events
    BY <1>2, HeadTailProperties DEF Typed
<1>3. Listed \in Seq(Devices)
    BY NamesSeq DEF Typed, Listed
<1>4. ASSUME NEW d \in Devices, RegistryAdd(d) PROVE Typed'
    <2>1. [dev |-> d, id |-> Size] \in Entries /\ [kind |-> "added", at |-> Size, dev |-> d] \in Events
        BY <1>1 DEF Entries, Events
    <2> QED
        BY <1>4, <2>1, AppendProperties DEF RegistryAdd, Typed
<1>5. ASSUME NEW i \in 0..(Size - 1), RegistryRemove(i) PROVE Typed'
    <2>1. [kind |-> "removed", at |-> i] \in Events
        BY DEF Events
    <2>2. i + 1 \in 1..Len(inputDeviceList)
        BY <1>1 DEF Size
    <2>3. inputDeviceList' \in Seq(Entries)
        BY <1>5, <2>2, RemoveAtProperties DEF RegistryRemove, Typed
    <2> QED
        BY <1>5, <2>1, <2>3, AppendProperties DEF RegistryRemove, Typed
<1>6. CASE CoreDone
    <2>1. [kind |-> "ready"] \in Events
        BY DEF Events
    <2> QED
        BY <1>6, <2>1, AppendProperties DEF CoreDone, Typed
<1>7. ASSUME NEW junk, OnDeviceListsReady(junk) PROVE Typed'
    <2>1. Listed \in Seq(Devices \cup {"server"})
        BY <1>3, SeqMonotonic
    <2>2. combo \o Listed \in Seq(Devices \cup {"server"})
        BY <2>1, ConcatProperties DEF Typed
    <2>3. combo' = Append(combo \o Listed, "server")
        BY <1>7 DEF OnDeviceListsReady, Listed, Names, Size
    <2>4. combo' \in Seq(Devices \cup {"server"})
        BY <2>2, <2>3, AppendProperties
    <2> QED
        BY <1>2, <1>7, <2>4 DEF OnDeviceListsReady, Handle, Typed
<1>8. ASSUME NEW junk, OnInputDeviceAdded(junk) PROVE Typed'
    <2> DEFINE at == IF Head(uiq).at <= Len(combo) THEN Head(uiq).at ELSE Len(combo)
    <2>1. uiq # <<>> /\ uiq' = Tail(uiq) /\ Head(uiq).kind = "added"
        BY <1>8 DEF OnInputDeviceAdded, Handle
    <2>2. Head(uiq).at \in Nat /\ Head(uiq).dev \in Devices
        BY <1>2, <2>1 DEF Events
    <2>3. at + 1 \in 1..(Len(combo) + 1)
        BY <1>1, <2>2
    <2>4. combo' = InsertAt(combo, at + 1, Head(uiq).dev)
        BY <1>8 DEF OnInputDeviceAdded
    <2> HIDE DEF at
    <2>5. combo' \in Seq(Devices \cup {"server"})
        BY <2>2, <2>3, <2>4, InsertAtSeq DEF Typed
    <2> QED
        BY <1>2, <1>8, <2>1, <2>5 DEF OnInputDeviceAdded, Typed
<1>9. ASSUME NEW junk, NEW opened \in BOOLEAN, OnInputDeviceRemoved(opened, junk) PROVE Typed'
    <2>1. uiq # <<>> /\ uiq' = Tail(uiq) /\ Head(uiq).kind = "removed"
        BY <1>9 DEF OnInputDeviceRemoved, Handle
    <2>2. Head(uiq).at \in Nat
        BY <1>2, <2>1 DEF Events
    <2>3. combo' \in Seq(Devices \cup {"server"})
        <3>1. CASE Head(uiq).at < Len(combo)
            <4>1. combo' = RemoveAt(combo, Head(uiq).at + 1)
                BY <1>9, <3>1 DEF OnInputDeviceRemoved
            <4>2. Head(uiq).at + 1 \in 1..Len(combo)
                BY <1>1, <2>2, <3>1
            <4> QED
                BY <4>1, <4>2, RemoveAtProperties DEF Typed
        <3>2. CASE ~(Head(uiq).at < Len(combo))
            BY <1>9, <3>2 DEF OnInputDeviceRemoved, Typed
        <3> QED
            BY <3>1, <3>2
    <2> QED
        BY <1>2, <1>9, <2>1, <2>3 DEF OnInputDeviceRemoved, Typed
<1>10. ASSUME NEW junk, NEW i, Pick(i, junk) PROVE Typed'
    BY <1>10 DEF Pick, Typed
<1>11. CASE UNCHANGED vars
    BY <1>11 DEF vars, Typed
<1> QED
    BY <1>4, <1>5, <1>6, <1>7, <1>8, <1>9, <1>10, <1>11 DEF Next, Registry, Main

-----------------------------------------------------------------------------
(* The mirror.                                                             *)

(* A signal more, telling of the list's change, leads to the new list.     *)
LEMMA LeadsMore ==
    ASSUME Typed, NEW past \in Seq(Seq(Devices)), Leads(past),
           NEW e, uiq' = Append(uiq, e), UNCHANGED combo,
           Listed' \in Seq(Devices), Follows(Listed, e, Listed')
    PROVE  \E p \in Seq(Seq(Devices)) : Leads(p)'
<1>1. Len(uiq) \in Nat /\ Len(past) = Len(uiq) + 1
    BY LenProperties DEF Typed, Leads
<1>2. PICK p \in Seq(Seq(Devices)) :
          /\ Len(p) = Len(past) + 1 /\ p[Len(past) + 1] = Listed'
          /\ \A j \in 1..Len(past) : p[j] = past[j]
    <2>1. Listed' \in Seq(Devices) /\ past \in Seq(Seq(Devices))
        OBVIOUS
    <2> DEFINE n == Listed'
    <2> HIDE DEF n
    <2>2. /\ Append(past, n) \in Seq(Seq(Devices))
          /\ Len(Append(past, n)) = Len(past) + 1 /\ Append(past, n)[Len(past) + 1] = n
          /\ \A j \in 1..Len(past) : Append(past, n)[j] = past[j]
        BY <2>1, AppendProperties DEF n
    <2> QED
        BY <2>2 DEF n
<1>3. /\ Len(uiq') = Len(uiq) + 1 /\ uiq'[Len(uiq) + 1] = e
      /\ \A j \in 1..Len(uiq) : uiq'[j] = uiq[j]
    BY DEF Typed
<1>4. p[1] = past[1] /\ combo' = Append(p[1], "server")
    BY <1>1, <1>2 DEF Leads
<1>5. Len(p) = Len(uiq') + 1 /\ p[Len(p)] = Listed'
    BY <1>1, <1>2, <1>3
<1>6. ASSUME NEW k \in 1..Len(uiq') PROVE Follows(p[k], uiq'[k], p[k + 1])
    <2>1. CASE k \in 1..Len(uiq)
        <3>1. k \in 1..Len(past) /\ k + 1 \in 1..Len(past)
            BY <1>1, <2>1
        <3>2. p[k] = past[k] /\ p[k + 1] = past[k + 1] /\ uiq'[k] = uiq[k]
            BY <1>2, <1>3, <2>1, <3>1
        <3> QED
            BY <2>1, <3>2 DEF Leads
    <2>2. CASE k = Len(uiq) + 1
        <3>1. p[k] = Listed /\ p[k + 1] = Listed' /\ uiq'[k] = e
            BY <1>1, <1>2, <1>3, <2>2 DEF Leads
        <3> QED
            BY <3>1
    <2> QED
        BY <1>1, <1>3, <2>1, <2>2
<1>7. Leads(p)'
    BY <1>4, <1>5, <1>6 DEF Leads
<1> QED
    BY <1>2, <1>7

(* A signal less, the combo box having followed it.                        *)
LEMMA LeadsLess ==
    ASSUME Typed, NEW past \in Seq(Seq(Devices)), Leads(past),
           uiq # <<>>, uiq' = Tail(uiq), UNCHANGED inputDeviceList,
           combo' = Append(past[2], "server")
    PROVE  \E p \in Seq(Seq(Devices)) : Leads(p)'
<1>1. Len(uiq) \in Nat \ {0} /\ Len(past) = Len(uiq) + 1
    BY EmptySeq, LenProperties DEF Typed, Leads
<1>2. past # <<>>
    BY <1>1
<1>3. PICK p \in Seq(Seq(Devices)) :
          /\ Len(p) = Len(past) - 1
          /\ \A j \in 1..Len(p) : p[j] = past[j + 1]
    BY <1>2, HeadTailProperties
<1>4. /\ Len(uiq') = Len(uiq) - 1
      /\ \A j \in 1..Len(uiq') : uiq'[j] = uiq[j + 1]
    BY HeadTailProperties DEF Typed
<1>5. p[1] = past[2] /\ combo' = Append(p[1], "server")
    <2>1. 1 \in 1..Len(p) /\ 1 + 1 = 2
        BY <1>1, <1>3
    <2>2. p[1] = past[2]
        BY <1>3, <2>1
    <2> QED
        BY <2>2
<1>6. Len(p) = Len(uiq') + 1
    BY <1>1, <1>3, <1>4
<1>7. p[Len(p)] = past[Len(past)]
    <2>1. Len(p) \in 1..Len(p) /\ Len(p) + 1 = Len(past)
        BY <1>1, <1>3
    <2> QED
        BY <1>3, <2>1
<1>8. Listed' = Listed
    BY DEF Listed
<1>9. ASSUME NEW k \in 1..Len(uiq') PROVE Follows(p[k], uiq'[k], p[k + 1])
    <2>1. k \in 1..Len(p) /\ k + 1 \in 1..Len(p) /\ k + 1 \in 1..Len(uiq)
        BY <1>1, <1>3, <1>4
    <2>2. p[k] = past[k + 1] /\ p[k + 1] = past[(k + 1) + 1] /\ uiq'[k] = uiq[k + 1]
        BY <1>3, <1>4, <2>1
    <2> QED
        BY <2>1, <2>2 DEF Leads
<1>10. Leads(p)'
    BY <1>5, <1>6, <1>7, <1>8, <1>9 DEF Leads
<1> QED
    BY <1>3, <1>10

LEMMA MirrorStep == Typed /\ Typed' /\ "early" \notin cases /\ (Before \/ After) /\ [Next]_vars
                        => (Before \/ After)'
<1> SUFFICES ASSUME Typed, Typed', "early" \notin cases, Before \/ After, [Next]_vars
             PROVE  Before' \/ After'
    OBVIOUS
<1>1. /\ Size \in Nat /\ Len(uiq) \in Nat /\ Len(combo) \in Nat
      /\ \A i \in 1..Len(uiq) : uiq[i] \in Events
    BY LenProperties, ElementOfSeq DEF Typed, Size
<1>2. /\ Listed \in Seq(Devices) /\ Len(Listed) = Size
      /\ Listed' \in Seq(Devices)
    BY NamesSeq DEF Typed, Listed, Size
<1>3. ~firstRun /\ Before => Early
    <2> SUFFICES ASSUME ~firstRun, Before PROVE Early
        OBVIOUS
    <2>1. Len(uiq) \in 1..Len(uiq)
        BY <1>1, EmptySeq DEF Before, Typed
    <2>2. uiq[Len(uiq)].kind = "ready"
        BY <2>1 DEF Before
    <2>3. Len(uiq) \in DOMAIN uiq
        BY <2>1, LenProperties DEF Typed
    <2> QED
        BY <2>2, <2>3 DEF Early
<1>4. ASSUME uiq # <<>>, uiq' = Tail(uiq)
      PROVE  /\ 1 \in 1..Len(uiq) /\ Head(uiq) = uiq[1] /\ uiq[1] \in Events
             /\ Len(uiq') = Len(uiq) - 1
             /\ \A j \in 1..Len(uiq') : uiq'[j] = uiq[j + 1]
    <2>1. Len(uiq) # 0
        BY <1>4, EmptySeq DEF Typed
    <2> QED
        BY <1>1, <1>4, <2>1, HeadTailProperties DEF Typed
<1>5. ASSUME NEW d \in Devices, RegistryAdd(d) PROVE Before' \/ After'
    <2>1. CASE firstRun
        BY <1>5, <2>1 DEF RegistryAdd, Before, After
    <2>2. CASE ~firstRun
        <3>1. PICK past \in Seq(Seq(Devices)) : Leads(past)
            BY <1>3, <1>5, <2>2 DEF RegistryAdd, After
        <3> DEFINE e == [kind |-> "added", at |-> Size, dev |-> d]
        <3>2. Listed' = Append(Listed, d)
            <4>1. [dev |-> d, id |-> Size] \in Entries
                BY <1>1 DEF Entries
            <4> QED
                BY <1>5, <4>1, NamesAppend DEF RegistryAdd, Typed, Listed
        <3>3. Follows(Listed, e, Listed')
            BY <1>2, <3>2 DEF Follows
        <3>4. uiq' = Append(uiq, e) /\ UNCHANGED <<combo, firstRun>>
            BY <1>5, <2>2 DEF RegistryAdd
        <3> HIDE DEF e
        <3>5. \E p \in Seq(Seq(Devices)) : Leads(p)'
            BY <1>2, <3>1, <3>3, <3>4, LeadsMore
        <3> QED
            BY <2>2, <3>4, <3>5 DEF After
    <2> QED
        BY <2>1, <2>2
<1>6. ASSUME NEW i \in 0..(Size - 1), RegistryRemove(i) PROVE Before' \/ After'
    <2> DEFINE e == [kind |-> "removed", at |-> i]
    <2>1. uiq' = Append(uiq, e) /\ UNCHANGED <<combo, firstRun, cases>>
        BY <1>6 DEF RegistryRemove
    <2>2. /\ Len(uiq') = Len(uiq) + 1 /\ uiq'[Len(uiq) + 1] = e
          /\ \A j \in 1..Len(uiq) : uiq'[j] = uiq[j]
        BY <2>1 DEF Typed
    <2>3. e.kind = "removed" /\ e.at = i
        OBVIOUS
    <2> HIDE DEF e
    <2>4. CASE Before
        <3>1. firstRun
            BY <1>3, <1>6, <2>4 DEF RegistryRemove, Typed
        <3>2. \A j \in 1..Len(uiq') : uiq'[j].kind = "removed"
            BY <1>1, <2>2, <2>3, <2>4, <3>1 DEF Before
        <3> QED
            BY <2>1, <2>4, <3>1, <3>2 DEF Before
    <2>5. CASE After
        <3>1. PICK past \in Seq(Seq(Devices)) : Leads(past)
            BY <2>5 DEF After
        <3>2. i + 1 \in 1..Len(inputDeviceList)
            BY <1>1 DEF Size
        <3>3. Listed' = RemoveAt(Listed, i + 1)
            BY <1>6, <3>2, NamesRemoveAt DEF RegistryRemove, Typed, Listed
        <3>4. Follows(Listed, e, Listed')
            BY <1>2, <2>3, <3>3 DEF Follows
        <3>5. \E p \in Seq(Seq(Devices)) : Leads(p)'
            BY <1>2, <2>1, <3>1, <3>4, LeadsMore
        <3> QED
            BY <2>1, <2>5, <3>5 DEF After
    <2> QED
        BY <2>4, <2>5
<1>7. CASE CoreDone
    <2> DEFINE e == [kind |-> "ready"]
    <2>1. Before /\ firstRun /\ firstRun' = FALSE /\ uiq' = Append(uiq, e) /\ UNCHANGED combo
        BY <1>7 DEF CoreDone, After
    <2>2. /\ Len(uiq') = Len(uiq) + 1 /\ uiq'[Len(uiq) + 1] = e
          /\ \A j \in 1..Len(uiq) : uiq'[j] = uiq[j]
        BY <2>1 DEF Typed
    <2>3. e.kind = "ready"
        OBVIOUS
    <2> HIDE DEF e
    <2>4. uiq' # <<>>
        BY <1>1, <2>2
    <2>5. \A j \in 1..Len(uiq') : uiq'[j].kind = IF j = Len(uiq') THEN "ready" ELSE "removed"
        BY <1>1, <2>1, <2>2, <2>3 DEF Before
    <2> QED
        BY <2>1, <2>4, <2>5 DEF Before
<1>8. ASSUME NEW junk, OnDeviceListsReady(junk) PROVE Before' \/ After'
    <2>1. uiq # <<>> /\ uiq' = Tail(uiq) /\ Head(uiq).kind = "ready" /\ UNCHANGED <<inputDeviceList, firstRun>>
        BY <1>8 DEF OnDeviceListsReady, Handle
    <2>2. 1 \in 1..Len(uiq) /\ uiq[1].kind = "ready"
        BY <1>4, <2>1
    <2>3. ~After
        BY <2>2 DEF After, Leads, Follows
    <2>4. Before /\ ~firstRun /\ Len(uiq) = 1
        BY <2>2, <2>3 DEF Before, Typed
    <2>5. uiq' = <<>> /\ Len(uiq') = 0
        BY <1>4, <2>1, <2>4, EmptySeq DEF Typed
    <2>6. combo' = Append(Listed, "server")
        <3>1. combo' = Append(combo \o Listed, "server")
            BY <1>8 DEF OnDeviceListsReady, Listed, Names, Size
        <3> QED
            BY <1>2, <2>4, <3>1, ConcatEmptySeq DEF Before
    <2>7. Listed' = Listed
        BY <2>1 DEF Listed
    <2>8. PICK p \in Seq(Seq(Devices)) : Len(p) = 1 /\ p[1] = Listed
        <3>1. <<Listed>> \in Seq(Seq(Devices)) /\ Len(<<Listed>>) = 1 /\ <<Listed>>[1] = Listed
            BY <1>2
        <3> QED
            BY <3>1
    <2>9. Leads(p)'
        BY <2>5, <2>6, <2>7, <2>8 DEF Leads
    <2> QED
        BY <2>1, <2>4, <2>8, <2>9 DEF After
<1>9. ASSUME NEW junk, OnInputDeviceAdded(junk) PROVE Before' \/ After'
    <2>1. uiq # <<>> /\ uiq' = Tail(uiq) /\ Head(uiq).kind = "added" /\ UNCHANGED <<inputDeviceList, firstRun>>
        BY <1>9 DEF OnInputDeviceAdded, Handle
    <2>2. 1 \in 1..Len(uiq) /\ uiq[1].kind = "added" /\ Head(uiq) = uiq[1]
        BY <1>4, <2>1
    <2>3. ~Before
        BY <2>2 DEF Before, Typed
    <2>4. ~firstRun
        BY <2>3 DEF After
    <2>5. PICK past \in Seq(Seq(Devices)) : Leads(past)
        BY <2>3 DEF After
    <2>6. /\ past[1] \in Seq(Devices) /\ combo = Append(past[1], "server")
          /\ uiq[1].at = Len(past[1]) /\ uiq[1].dev \in Devices
          /\ past[2] = Append(past[1], uiq[1].dev)
        <3>1. 1 \in 1..Len(past) /\ 1 + 1 = 2
            BY <1>1, <2>5 DEF Leads
        <3>2. Follows(past[1], uiq[1], past[2])
            BY <2>2, <2>5, <3>1 DEF Leads
        <3>3. past[1] \in Seq(Devices)
            BY <3>1, ElementOfSeq
        <3> QED
            BY <2>2, <2>5, <3>2, <3>3 DEF Leads, Follows
    <2>7. past[1] \in Seq(Devices \cup {"server"}) /\ Len(past[1]) \in Nat
        BY <2>6, SeqMonotonic, LenProperties
    <2>8. Len(combo) = Len(past[1]) + 1
        BY <2>6, <2>7, AppendProperties
    <2>9. combo' = InsertAt(combo, Len(past[1]) + 1, uiq[1].dev)
        BY <1>9, <2>2, <2>6, <2>7, <2>8 DEF OnInputDeviceAdded
    <2>10. combo' = Append(past[2], "server")
        <3> DEFINE S == Devices \cup {"server"}
        <3>1. past[1] \in Seq(S) /\ "server" \in S /\ uiq[1].dev \in S
            BY <2>6, <2>7
        <3> HIDE DEF S
        <3>2. InsertAt(Append(past[1], "server"), Len(past[1]) + 1, uiq[1].dev)
                  = Append(Append(past[1], uiq[1].dev), "server")
            BY <3>1, InsertBeforeLast
        <3> QED
            BY <2>6, <2>9, <3>2
    <2>11. \E p \in Seq(Seq(Devices)) : Leads(p)'
        BY <2>1, <2>5, <2>10, LeadsLess
    <2> QED
        BY <2>1, <2>4, <2>11 DEF After
<1>10. ASSUME NEW junk, NEW opened \in BOOLEAN, OnInputDeviceRemoved(opened, junk)
       PROVE  Before' \/ After'
    <2>1. uiq # <<>> /\ uiq' = Tail(uiq) /\ Head(uiq).kind = "removed" /\ UNCHANGED <<inputDeviceList, firstRun>>
        BY <1>10 DEF OnInputDeviceRemoved, Handle
    <2>2. 1 \in 1..Len(uiq) /\ uiq[1].kind = "removed" /\ Head(uiq) = uiq[1] /\ uiq[1].at \in Nat
        BY <1>4, <2>1 DEF Events
    <2>3. CASE Before
        <3>1. combo' = <<>>
            BY <1>10, <2>2, <2>3, EmptySeq DEF OnInputDeviceRemoved, Before
        <3>2. CASE firstRun
            <4>1. \A i \in 1..Len(uiq') : uiq'[i].kind = "removed"
                BY <1>1, <1>4, <2>1, <2>3, <3>2 DEF Before
            <4> QED
                BY <2>1, <3>1, <3>2, <4>1 DEF Before
        <3>3. CASE ~firstRun
            <4>1. Len(uiq) > 1
                BY <1>1, <2>2, <2>3, <3>3 DEF Before
            <4>2. uiq' # <<>>
                BY <1>1, <1>4, <2>1, <4>1
            <4>3. \A i \in 1..Len(uiq') : uiq'[i].kind = IF i = Len(uiq') THEN "ready" ELSE "removed"
                BY <1>1, <1>4, <2>1, <2>3, <3>3 DEF Before
            <4> QED
                BY <2>1, <3>1, <3>3, <4>2, <4>3 DEF Before
        <3> QED
            BY <3>2, <3>3
    <2>4. CASE After
        <3>1. PICK past \in Seq(Seq(Devices)) : Leads(past)
            BY <2>4 DEF After
        <3>2. /\ past[1] \in Seq(Devices) /\ combo = Append(past[1], "server")
              /\ uiq[1].at \in 0..(Len(past[1]) - 1)
              /\ past[2] = RemoveAt(past[1], uiq[1].at + 1)
            <4>1. 1 \in 1..Len(past) /\ 1 + 1 = 2
                BY <1>1, <3>1 DEF Leads
            <4>2. Follows(past[1], uiq[1], past[2])
                BY <2>2, <3>1, <4>1 DEF Leads
            <4>3. past[1] \in Seq(Devices)
                BY <4>1, ElementOfSeq
            <4> QED
                BY <2>2, <3>1, <4>2, <4>3 DEF Leads, Follows
        <3>3. past[1] \in Seq(Devices \cup {"server"}) /\ Len(past[1]) \in Nat
            BY <3>2, SeqMonotonic, LenProperties
        <3>4. Len(combo) = Len(past[1]) + 1
            BY <3>2, <3>3, AppendProperties
        <3>5. uiq[1].at < Len(combo) /\ uiq[1].at + 1 \in 1..Len(past[1])
            <4> DEFINE n == Len(past[1])
                       at == uiq[1].at
            <4>1. n \in Nat /\ at \in 0..(n - 1) /\ Len(combo) = n + 1
                BY <3>2, <3>3, <3>4
            <4> HIDE DEF n, at
            <4>2. at < Len(combo) /\ at + 1 \in 1..n
                BY <4>1
            <4> QED
                BY <4>2 DEF n, at
        <3>6. combo' = RemoveAt(combo, uiq[1].at + 1)
            BY <1>10, <2>2, <3>5 DEF OnInputDeviceRemoved
        <3>7. combo' = Append(past[2], "server")
            <4> DEFINE S == Devices \cup {"server"}
            <4>1. past[1] \in Seq(S) /\ "server" \in S /\ uiq[1].at + 1 \in 1..Len(past[1])
                BY <3>3, <3>5
            <4> HIDE DEF S
            <4>2. RemoveAt(Append(past[1], "server"), uiq[1].at + 1)
                      = Append(RemoveAt(past[1], uiq[1].at + 1), "server")
                BY <4>1, RemoveBeforeLast
            <4> QED
                BY <3>2, <3>6, <4>2
        <3>8. \E p \in Seq(Seq(Devices)) : Leads(p)'
            BY <2>1, <3>1, <3>7, LeadsLess
        <3> QED
            BY <2>1, <2>4, <3>8 DEF After
    <2> QED
        BY <2>3, <2>4
<1>11. ASSUME UNCHANGED <<inputDeviceList, firstRun, uiq, combo>> PROVE Before' \/ After'
    BY <1>11 DEF Before, After, Leads, Listed
<1>12. ASSUME NEW junk, NEW i, Pick(i, junk) PROVE Before' \/ After'
    BY <1>11, <1>12 DEF Pick
<1>13. CASE UNCHANGED vars
    BY <1>11, <1>13 DEF vars
<1> QED
    BY <1>5, <1>6, <1>7, <1>8, <1>9, <1>10, <1>12, <1>13 DEF Next, Registry, Main

LEMMA MirrorInvInductive == Init /\ [][Next]_vars => []MirrorInv
<1>1. Init => MirrorInv
    <2>1. Init => Before
        BY EmptySeq DEF Init, Before
    <2> QED
        BY <2>1, TypedInit DEF MirrorInv
<1>2. MirrorInv /\ [Next]_vars => MirrorInv'
    <2> SUFFICES ASSUME MirrorInv, [Next]_vars PROVE MirrorInv'
        OBVIOUS
    <2>1. cases' = cases
        BY DEF Next, Registry, Main, vars, RegistryAdd, RegistryRemove, CoreDone,
               OnDeviceListsReady, OnInputDeviceAdded, OnInputDeviceRemoved, Pick
    <2> QED
        BY <2>1, TypedStep, MirrorStep DEF MirrorInv
<1> QED
    BY <1>1, <1>2, PTL

(* Once the signals are handled the combo box shows the list of devices,   *)
(* "server" after it, whatever came and went.                              *)
THEOREM ComboMirrors == Spec => []Mirror
<1>1. MirrorInv => Mirror
    <2> SUFFICES ASSUME MirrorInv, Quiet, "early" \notin cases
                 PROVE  combo = Append(Listed, "server")
        BY DEF Mirror, Listed, Names, Size
    <2>1. ~Before
        BY DEF Quiet, Before
    <2>2. PICK past \in Seq(Seq(Devices)) : Leads(past)
        BY <2>1 DEF MirrorInv, After
    <2>3. Len(past) = 1
        BY <2>2, EmptySeq DEF Leads, Quiet
    <2> QED
        BY <2>2, <2>3 DEF Leads
<1> QED
    BY <1>1, MirrorInvInductive, PTL DEF Spec

-----------------------------------------------------------------------------
(* The selection.                                                          *)

(* The selection is of the combo box's n entries: the device in use, if    *)
(* any, has the number of the entry.                                       *)
Good(s, n) ==
    /\ s \in Selection /\ ~s.freed
    /\ s.index \in -1..(n - 1) /\ s.primary = s.index
    /\ s.cur = IF s.index \in 0..(n - 2) THEN s.index ELSE -1

Numbered == \A i \in 1..Size : inputDeviceList[i].id = i - 1

(* When nothing of Circumstances happens.                                  *)
SelectedInv ==
    cases = {} =>
        /\ Numbered
        /\ Good(sel, Len(combo))
        /\ combo = <<>> => /\ firstRun => uiq = <<>>
                           /\ ~firstRun => Size # 1 /\ Len(uiq) = 1 /\ uiq[1].kind = "ready"
        /\ combo # <<>> => /\ ~firstRun
                           /\ Len(combo) + Len(uiq) = Size + 1
                           /\ \A i \in 1..Len(uiq) :
                                 uiq[i].kind = "added" /\ uiq[i].at = Len(combo) - 2 + i

AtIndex(s, i) == [s EXCEPT !.index = i]

LEMMA InUseOf ==
    ASSUME NEW s \in Selection, NEW k \in Int
    PROVE  LET c == [s EXCEPT !.cur = k, !.freed = FALSE]
           IN  c \in Selection /\ ~c.freed /\ c.index = s.index /\ c.cur = k
BY DEF Selection

(* A selection made is of the entry chosen, whichever device was in use.   *)
LEMMA SetCurrentIndexGood ==
    ASSUME Size \in Nat, Numbered,
           NEW s \in Selection, ~s.freed, s.cur = -1 \/ s.cur \in 0..(Size - 1),
           NEW texts \in Seq(Devices \cup {"server"}), Len(texts) - 1 <= Size,
           NEW i \in 0..(Len(texts) - 1), NEW junk,
           s.primary # i
    PROVE  /\ Good(IndexChanged(AtIndex(s, i), i, texts, junk), Len(texts))
           /\ IndexChanged(AtIndex(s, i), i, texts, junk).index = i
<1>1. Len(texts) \in Nat /\ i + 1 \in 1..Len(texts) /\ texts[i + 1] \in Devices \cup {"server"}
    BY LenProperties, ElementOfSeq
<1> DEFINE b == AtIndex(s, i)
<1>2. /\ b \in Selection /\ ~b.freed /\ b.index = i /\ b.primary # i
      /\ b.cur = -1 \/ b.cur \in 0..(Size - 1)
    BY DEF Selection, AtIndex
<1> HIDE DEF b
<1> DEFINE r == IndexChanged(b, i, texts, junk)
<1>3. CASE i \in 0..(Len(texts) - 2)
    <2> DEFINE c == SetActiveInput(b, i, junk)
    <2>1. r = [c EXCEPT !.primary = i, !.saved = texts[i + 1]]
        BY <1>2, <1>3 DEF IndexChanged, At
    <2>2. i \in 0..(Size - 1)
        BY <1>1, <1>3
    <2>3. b.cur # -1 => ActiveInput(b, junk) = b.cur
        <3> SUFFICES ASSUME b.cur # -1 PROVE ActiveInput(b, junk) = b.cur
            OBVIOUS
        <3>1. Alive(b) /\ b.cur + 1 \in 1..Size
            BY <1>2 DEF Alive
        <3>2. inputDeviceList[b.cur + 1].id = b.cur
            BY <1>2, <3>1 DEF Numbered
        <3> QED
            BY <3>1, <3>2 DEF ActiveInput, At
    <2>4. c \in Selection /\ ~c.freed /\ c.index = i /\ c.cur = i
        <3>1. CASE b.cur # -1 /\ ActiveInput(b, junk) = i
            BY <1>2, <2>2, <2>3, <3>1 DEF SetActiveInput
        <3>2. CASE ~(b.cur # -1 /\ ActiveInput(b, junk) = i)
            <4>1. c = [b EXCEPT !.cur = i, !.freed = FALSE]
                BY <2>2, <3>2 DEF SetActiveInput
            <4> QED
                BY <1>2, <4>1 DEF Selection
        <3> QED
            BY <3>1, <3>2
    <2> HIDE DEF c
    <2>5. r \in Selection /\ ~r.freed /\ r.index = i /\ r.cur = i /\ r.primary = i
        BY <1>1, <2>1, <2>4 DEF Selection
    <2> HIDE DEF r
    <2>6. Good(r, Len(texts))
        BY <1>1, <1>3, <2>5 DEF Good
    <2> QED
        BY <2>5, <2>6 DEF r, b
<1>4. CASE i = Len(texts) - 1
    <2> DEFINE c == SetActiveInput(b, -1, junk)
    <2>1. r = [c EXCEPT !.primary = i, !.saved = "server"]
        BY <1>1, <1>2, <1>4 DEF IndexChanged
    <2>2. c \in Selection /\ ~c.freed /\ c.index = i /\ c.cur = -1
        <3>1. c = [b EXCEPT !.cur = -1, !.freed = FALSE]
            BY DEF SetActiveInput
        <3> HIDE DEF c
        <3>2. -1 \in Int
            OBVIOUS
        <3> QED
            BY <1>2, <3>1, <3>2, InUseOf
    <2> HIDE DEF c
    <2>3. r \in Selection /\ ~r.freed /\ r.index = i /\ r.cur = -1 /\ r.primary = i
        BY <2>1, <2>2 DEF Selection
    <2> HIDE DEF r
    <2>4. Good(r, Len(texts))
        BY <1>1, <1>4, <2>3 DEF Good
    <2> QED
        BY <2>3, <2>4 DEF r, b
<1> QED
    BY <1>1, <1>3, <1>4

(* The same of setCurrentIndex, which does nothing for the current entry.  *)
LEMMA ChosenGood ==
    ASSUME Size \in Nat, Numbered,
           NEW n \in Nat, NEW s, Good(s, n), n - 1 <= Size,
           NEW texts \in Seq(Devices \cup {"server"}), Len(texts) - 1 <= Size,
           NEW i \in 0..(Len(texts) - 1), NEW junk,
           s.index = i => Good(s, Len(texts))
    PROVE  Good(SetCurrentIndex(s, i, texts, junk), Len(texts))
<1>1. CASE s.index = i
    BY <1>1 DEF SetCurrentIndex
<1>2. CASE s.index # i
    <2>1. s \in Selection /\ ~s.freed /\ s.primary # i
        BY <1>2 DEF Good
    <2>2. s.cur = -1 \/ s.cur \in 0..(Size - 1)
        BY DEF Good
    <2>3. Good(IndexChanged(AtIndex(s, i), i, texts, junk), Len(texts))
        BY <2>1, <2>2, SetCurrentIndexGood
    <2> QED
        BY <1>2, <2>3 DEF SetCurrentIndex, AtIndex
<1> QED
    BY <1>1, <1>2

(* What is saved does not matter to the selection.                         *)
LEMMA SavedGood ==
    ASSUME NEW s, NEW n \in Nat, Good(s, n),
           NEW d \in Devices \cup {"server", "none"}
    PROVE  Good([s EXCEPT !.saved = d], n)
BY DEF Good, Selection

LEMMA SelectedInit == Init => SelectedInv
<1> SUFFICES ASSUME Init PROVE SelectedInv
    OBVIOUS
<1>1. Size = 0 /\ Len(combo) = 0 /\ combo = <<>>
    BY EmptySeq DEF Init, Size
<1>2. Good(sel, 0)
    BY DEF Init, Good, Selection
<1> QED
    BY <1>1, <1>2 DEF Init, SelectedInv, Numbered

(* The first copy: its first entry, "server" if there is none, and then    *)
(* the saved device.                                                       *)
LEMMA ReadyGood ==
    ASSUME Typed, Numbered, Good(sel, 0), Size # 1, combo = <<>>,
           NEW junk, OnDeviceListsReady(junk)
    PROVE  /\ combo' = Append(Listed, "server") /\ Len(combo') = Size + 1
           /\ Good(sel', Len(combo'))
<1> DEFINE S == Devices \cup {"server"}
           texts == combo \o [i \in 1..Size |-> inputDeviceList[i].dev]
           first == IF texts = <<>> THEN <<"server">> ELSE texts
           t == SetCurrentIndex(sel, 0, first, junk)
           l == [t EXCEPT !.saved = sel.saved]
<1>1. /\ Listed \in Seq(Devices) /\ Listed \in Seq(S) /\ Len(Listed) = Size /\ Size \in Nat
    BY NamesSeq, SeqMonotonic, LenProperties DEF Typed, Listed, Size
<1>2. /\ combo' = Append(texts, "server")
      /\ sel' = IF sel.saved = "none" THEN t
                ELSE IF Contains(texts, sel.saved)
                THEN SetCurrentIndex(l, CHOOSE i \in 0..(Len(texts) - 1) :
                          texts[i + 1] = sel.saved, combo', junk)
                ELSE l
    BY DEF OnDeviceListsReady, At
<1>10. texts = Listed
    <2>1. <<>> \o Listed = Listed
        BY <1>1, ConcatEmptySeq
    <2> QED
        BY <2>1 DEF Listed, Names, Size
<1> HIDE DEF texts
<1>3. combo' \in Seq(S) /\ Len(combo') = Size + 1
    BY <1>1, <1>2, <1>10, AppendProperties
<1>4. /\ first \in Seq(S) /\ Len(first) \in Nat /\ Len(first) - 1 <= Size /\ 0 \in 0..(Len(first) - 1)
      /\ Size = 0 => Len(first) = 1
      /\ Size # 0 => Len(first) = Size
    <2>1. <<"server">> \in Seq(S) /\ Len(<<"server">>) = 1
        OBVIOUS
    <2>2. texts = <<>> <=> Size = 0
        BY <1>1, <1>10, EmptySeq
    <2> HIDE DEF first
    <2>3. CASE Size = 0
        <3>1. first = <<"server">>
            BY <2>2, <2>3 DEF first
        <3> QED
            BY <1>1, <2>1, <2>3, <3>1
    <2>4. CASE Size # 0
        <3>1. first = Listed
            BY <1>10, <2>2, <2>4 DEF first
        <3> QED
            BY <1>1, <2>4, <3>1
    <2> QED
        BY <2>3, <2>4
<1> HIDE DEF first
<1>5. /\ sel.index = -1 /\ sel.primary = -1 /\ sel.cur = -1 /\ sel \in Selection /\ ~sel.freed
    BY DEF Good
<1>6. Good(t, Len(first)) /\ t.index = 0
    <2>1. t = IndexChanged(AtIndex(sel, 0), 0, first, junk)
        BY <1>5 DEF SetCurrentIndex, AtIndex
    <2>2. sel.primary # 0 /\ sel.cur = -1
        BY <1>5
    <2>3. /\ Good(IndexChanged(AtIndex(sel, 0), 0, first, junk), Len(first))
          /\ IndexChanged(AtIndex(sel, 0), 0, first, junk).index = 0
        BY <1>1, <1>4, <1>5, <2>2, SetCurrentIndexGood
    <2> QED
        BY <2>1, <2>3
<1> HIDE DEF t
<1>7. Good(t, Size + 1)
    BY <1>1, <1>4, <1>6 DEF Good
<1>8. Good(l, Size + 1)
    <2>1. sel.saved \in Devices \cup {"server", "none"}
        BY <1>5 DEF Selection
    <2> QED
        BY <1>1, <1>7, <2>1, SavedGood
<1> HIDE DEF l
<1>9. ASSUME Contains(texts, sel.saved)
      PROVE  Good(SetCurrentIndex(l, CHOOSE i \in 0..(Len(texts) - 1) :
                          texts[i + 1] = sel.saved, combo', junk), Len(combo'))
    <2> DEFINE i == CHOOSE i \in 0..(Len(texts) - 1) : texts[i + 1] = sel.saved
    <2>1. \E j \in 0..(Len(texts) - 1) : texts[j + 1] = sel.saved
        <3>1. PICK k \in 1..Len(texts) : texts[k] = sel.saved
            BY <1>1, <1>9, <1>10 DEF Contains
        <3>2. k - 1 \in 0..(Len(texts) - 1) /\ (k - 1) + 1 = k
            BY <1>1, <1>10
        <3> QED
            BY <3>1, <3>2
    <2>2. i \in 0..(Len(texts) - 1)
        BY <2>1
    <2> HIDE DEF i
    <2>3. /\ Len(combo') \in Nat /\ Good(l, Len(combo')) /\ i \in 0..(Len(combo') - 1)
          /\ Len(combo') - 1 <= Size
        BY <1>1, <1>3, <1>8, <1>10, <2>2
    <2> DEFINE c == combo'
    <2> HIDE DEF c
    <2>4. /\ Len(c) \in Nat /\ Good(l, Len(c)) /\ i \in 0..(Len(c) - 1)
          /\ Len(c) - 1 <= Size /\ c \in Seq(S)
        BY <1>3, <2>3 DEF c
    <2>5. Good(SetCurrentIndex(l, i, c, junk), Len(c))
        BY <1>1, <2>4, ChosenGood
    <2> QED
        BY <2>5 DEF i, c
<1> QED
    BY <1>2, <1>3, <1>7, <1>8, <1>9, <1>10

(* An entry more, the last before "server".                                *)
LEMMA AddedGood ==
    ASSUME Typed, Numbered, Good(sel, Len(combo)), combo # <<>>, Len(combo) <= Size,
           NEW junk, OnInputDeviceAdded(junk), Head(uiq).at = Len(combo) - 1,
           Head(uiq).dev \in Devices, combo' \in Seq(Devices \cup {"server"})
    PROVE  Len(combo') = Len(combo) + 1 /\ Good(sel', Len(combo'))
<1> DEFINE S == Devices \cup {"server"}
           at == Len(combo) - 1
           c == combo'
           t == Inserted(sel, at, c, junk)
<1>1. Size \in Nat /\ Len(combo) \in Nat \ {0}
    BY LenProperties, EmptySeq DEF Typed, Size
<1>2. /\ combo' = InsertAt(combo, at + 1, Head(uiq).dev)
      /\ sel' = IF t.saved = Head(uiq).dev THEN SetCurrentIndex(t, at, c, junk) ELSE t
    BY <1>1 DEF OnInputDeviceAdded
<1>3. Len(combo') = Len(combo) + 1
    <2>1. \A i \in 1..Len(combo) : combo[i] \in S
        BY ElementOfSeq DEF Typed
    <2>2. /\ SubSeq(combo, 1, at) \in Seq(S)
          /\ Len(SubSeq(combo, 1, at)) = IF 1 <= at THEN at - 1 + 1 ELSE 0
        BY <1>1, <2>1, SubSeqProperties
    <2>3. /\ SubSeq(combo, at + 1, Len(combo)) \in Seq(S)
          /\ Len(SubSeq(combo, at + 1, Len(combo)))
                  = IF at + 1 <= Len(combo) THEN Len(combo) - (at + 1) + 1 ELSE 0
        BY <1>1, <2>1, SubSeqProperties
    <2>4. <<Head(uiq).dev>> \in Seq(S) /\ Len(<<Head(uiq).dev>>) = 1
        OBVIOUS
    <2>5. (at + 1) - 1 = at
        BY <1>1
    <2> DEFINE x == SubSeq(combo, 1, at)
               y == SubSeq(combo, at + 1, Len(combo))
               z == <<Head(uiq).dev>>
    <2>6. combo' = (x \o z) \o y
        BY <1>2, <2>5 DEF InsertAt
    <2>12. at \in Nat /\ at + 1 = Len(combo)
        BY <1>1
    <2> HIDE DEF x, y, z, S, at
    <2>7. x \in Seq(S) /\ Len(x) = at
        BY <2>2, <2>12 DEF x
    <2>8. y \in Seq(S) /\ Len(y) = 1
        BY <2>3, <2>12 DEF y
    <2>9. z \in Seq(S) /\ Len(z) = 1
        BY <2>4 DEF z
    <2>10. x \o z \in Seq(S) /\ Len(x \o z) = at + 1
        <3>1. x \o z \in Seq(S) /\ Len(x \o z) = Len(x) + Len(z)
            BY <2>7, <2>9, ConcatProperties, Zenon
        <3> QED
            BY <2>7, <2>9, <3>1
    <2>11. Len((x \o z) \o y) = (at + 1) + 1
        <3>1. Len((x \o z) \o y) = Len(x \o z) + Len(y)
            BY <2>8, <2>10, ConcatProperties, Zenon
        <3> QED
            BY <2>8, <2>10, <3>1
    <2> QED
        BY <2>6, <2>11, <2>12
<1>4. c \in Seq(S) /\ Len(c) = Len(combo) + 1 /\ Len(c) - 1 <= Size
    BY <1>1, <1>3
<1> HIDE DEF c
<1>5. Good(t, Len(c))
    <2>1. CASE sel.index >= at
        <3>1. sel.index = at /\ at + 1 = Len(combo) /\ Len(combo) \in 0..(Len(c) - 1)
            BY <1>1, <1>4, <2>1 DEF Good
        <3>2. t = SetCurrentIndex(sel, Len(combo), c, junk)
            BY <1>1, <2>1, <3>1 DEF Inserted
        <3>3. sel.index # Len(combo)
            BY <1>1, <2>1 DEF Good
        <3>4. Len(combo) \in Nat /\ Len(combo) - 1 <= Size
            BY <1>1
        <3> QED
            BY <1>1, <1>4, <3>1, <3>2, <3>3, <3>4, ChosenGood
    <2>2. CASE ~(sel.index >= at)
        BY <1>1, <1>4, <2>2 DEF Inserted, Good
    <2> QED
        BY <2>1, <2>2
<1> HIDE DEF t
<1>6. Good(SetCurrentIndex(t, at, c, junk), Len(c))
    <2>1. at \in 0..(Len(c) - 1) /\ Len(c) \in Nat
        BY <1>1, <1>4
    <2> HIDE DEF at
    <2> QED
        BY <1>1, <1>4, <1>5, <2>1, ChosenGood
<1> QED
    BY <1>2, <1>3, <1>5, <1>6 DEF c

LEMMA SelectedStep == Typed /\ Typed' /\ SelectedInv /\ [Next]_vars => SelectedInv'
<1> SUFFICES ASSUME Typed, Typed', SelectedInv, [Next]_vars, cases' = {} PROVE SelectedInv'
    BY DEF SelectedInv
<1>1. cases = {}
    BY DEF Next, Registry, Main, vars, RegistryAdd, RegistryRemove, CoreDone,
           OnDeviceListsReady, OnInputDeviceAdded, OnInputDeviceRemoved, Pick
<1>2. /\ Numbered /\ Good(sel, Len(combo))
      /\ combo = <<>> => /\ firstRun => uiq = <<>>
                         /\ ~firstRun => Size # 1 /\ Len(uiq) = 1 /\ uiq[1].kind = "ready"
      /\ combo # <<>> => /\ ~firstRun
                         /\ Len(combo) + Len(uiq) = Size + 1
                         /\ \A i \in 1..Len(uiq) :
                               uiq[i].kind = "added" /\ uiq[i].at = Len(combo) - 2 + i
    BY <1>1 DEF SelectedInv
<1>3. /\ Size \in Nat /\ Len(uiq) \in Nat /\ Len(combo) \in Nat
      /\ Len(combo) = 0 <=> combo = <<>>
      /\ Len(uiq) = 0 <=> uiq = <<>>
      /\ \A i \in 1..Len(uiq) : uiq[i] \in Events
    BY LenProperties, EmptySeq, ElementOfSeq DEF Typed, Size
<1>4. ASSUME UNCHANGED inputDeviceList PROVE Size' = Size /\ Numbered'
    BY <1>2, <1>4 DEF Size, Numbered
<1>5. ASSUME uiq # <<>>, uiq' = Tail(uiq)
      PROVE  /\ 1 \in 1..Len(uiq) /\ Head(uiq) = uiq[1] /\ uiq[1] \in Events
             /\ Len(uiq') = Len(uiq) - 1
             /\ \A j \in 1..Len(uiq') : uiq'[j] = uiq[j + 1]
    BY <1>3, <1>5, HeadTailProperties DEF Typed
<1>6. ASSUME NEW d \in Devices, RegistryAdd(d) PROVE SelectedInv'
    <2>1. Size' = Size + 1 /\ Numbered'
        <3> DEFINE e == [dev |-> d, id |-> Size]
        <3>1. inputDeviceList' = Append(inputDeviceList, e) /\ e.id = Size
            BY <1>6 DEF RegistryAdd
        <3> HIDE DEF e
        <3>2. /\ Len(inputDeviceList') = Len(inputDeviceList) + 1
              /\ inputDeviceList'[Len(inputDeviceList) + 1] = e
              /\ \A j \in 1..Len(inputDeviceList) : inputDeviceList'[j] = inputDeviceList[j]
            BY <3>1 DEF Typed
        <3> QED
            BY <1>2, <1>3, <3>1, <3>2 DEF Size, Numbered
    <2>2. Good(sel', Len(combo))
        <3>1. CASE sel.cur = -1 /\ sel' = [sel EXCEPT !.freed = sel.cur # -1]
            <4>1. (sel.cur # -1) = FALSE
                BY <3>1
            <4>2. sel' = [sel EXCEPT !.freed = FALSE]
                BY <3>1, <4>1
            <4> QED
                BY <1>2, <4>2 DEF Good, Selection
        <3>2. CASE sel' = sel
            BY <1>2, <3>2
        <3> QED
            BY <1>1, <1>6, <3>1, <3>2 DEF RegistryAdd
    <2>3. combo' = combo /\ firstRun' = firstRun
        BY <1>6 DEF RegistryAdd
    <2>4. CASE combo = <<>>
        <3>1. firstRun
            <4>1. ~Early
                BY <1>1, <1>6 DEF RegistryAdd
            <4>2. Len(uiq) = 1 => 1 \in DOMAIN uiq
                BY <1>3 DEF Typed
            <4> QED
                BY <1>2, <2>4, <4>1, <4>2 DEF Early, Typed
        <3>2. uiq' = <<>>
            BY <1>2, <1>6, <2>4, <3>1 DEF RegistryAdd
        <3> QED
            BY <2>1, <2>2, <2>3, <2>4, <3>1, <3>2 DEF SelectedInv
    <2>5. CASE combo # <<>>
        <3> DEFINE e == [kind |-> "added", at |-> Size, dev |-> d]
        <3>1. uiq' = Append(uiq, e) /\ e.kind = "added" /\ e.at = Size
            BY <1>2, <1>6, <2>5 DEF RegistryAdd
        <3> HIDE DEF e
        <3>2. /\ Len(uiq') = Len(uiq) + 1 /\ uiq'[Len(uiq) + 1] = e
              /\ \A j \in 1..Len(uiq) : uiq'[j] = uiq[j]
            BY <3>1 DEF Typed
        <3>3. ASSUME NEW i \in 1..Len(uiq')
              PROVE  uiq'[i].kind = "added" /\ uiq'[i].at = Len(combo') - 2 + i
            <4>1. CASE i \in 1..Len(uiq)
                BY <1>2, <2>3, <2>5, <3>2, <4>1
            <4>2. CASE i = Len(uiq) + 1
                <5>1. uiq'[i] = e /\ Size = Len(combo) - 2 + i
                    BY <1>2, <1>3, <2>5, <3>2, <4>2
                <5> QED
                    BY <2>3, <3>1, <5>1
            <4> QED
                BY <1>3, <3>2, <4>1, <4>2
        <3>4. Len(combo') + Len(uiq') = Size' + 1
            BY <1>2, <1>3, <2>1, <2>3, <2>5, <3>2
        <3> QED
            BY <1>2, <2>1, <2>2, <2>3, <2>5, <3>3, <3>4 DEF SelectedInv
    <2> QED
        BY <2>4, <2>5
<1>7. ASSUME NEW i, RegistryRemove(i) PROVE SelectedInv'
    BY <1>1, <1>7 DEF RegistryRemove
<1>8. CASE CoreDone
    <2>1. /\ combo' = combo /\ combo = <<>> /\ uiq = <<>> /\ firstRun' = FALSE
          /\ Size # 1 /\ uiq' = Append(uiq, [kind |-> "ready"]) /\ sel' = sel
          /\ inputDeviceList' = inputDeviceList
        BY <1>1, <1>2, <1>8 DEF CoreDone
    <2>2. uiq' = <<[kind |-> "ready"]>>
        BY <2>1
    <2>3. Len(uiq') = 1 /\ uiq'[1].kind = "ready"
        BY <2>2
    <2> QED
        BY <1>2, <1>4, <2>1, <2>3 DEF SelectedInv
<1>9. ASSUME NEW junk, OnDeviceListsReady(junk) PROVE SelectedInv'
    <2>1. /\ uiq # <<>> /\ uiq' = Tail(uiq) /\ Head(uiq).kind = "ready"
          /\ UNCHANGED <<inputDeviceList, firstRun>>
        BY <1>9 DEF OnDeviceListsReady, Handle
    <2>2. 1 \in 1..Len(uiq) /\ uiq[1].kind = "ready" /\ Len(uiq') = Len(uiq) - 1
        BY <1>5, <2>1
    <2>3. combo = <<>>
        BY <1>2, <2>2
    <2>4. ~firstRun /\ Size # 1 /\ Len(uiq) = 1 /\ Len(uiq') = 0
        BY <1>2, <2>1, <2>2, <2>3
    <2>5. Good(sel, 0)
        BY <1>2, <1>3, <2>3
    <2>6. Len(combo') = Size + 1 /\ Good(sel', Len(combo'))
        BY <1>2, <1>9, <2>3, <2>4, <2>5, ReadyGood
    <2>7. combo' # <<>> /\ Len(combo') + Len(uiq') = Size + 1
        BY <1>3, <2>4, <2>6
    <2>8. \A i \in 1..Len(uiq') : uiq'[i].kind = "added" /\ uiq'[i].at = Len(combo') - 2 + i
        BY <2>4
    <2> QED
        BY <1>4, <2>1, <2>4, <2>6, <2>7, <2>8 DEF SelectedInv
<1>10. ASSUME NEW junk, OnInputDeviceAdded(junk) PROVE SelectedInv'
    <2>1. /\ uiq # <<>> /\ uiq' = Tail(uiq) /\ Head(uiq).kind = "added"
          /\ UNCHANGED <<inputDeviceList, firstRun>>
        BY <1>10 DEF OnInputDeviceAdded, Handle
    <2>2. /\ 1 \in 1..Len(uiq) /\ Head(uiq) = uiq[1] /\ uiq[1].kind = "added" /\ uiq[1] \in Events
          /\ Len(uiq') = Len(uiq) - 1
          /\ \A j \in 1..Len(uiq') : uiq'[j] = uiq[j + 1]
        BY <1>5, <2>1
    <2>3. combo # <<>> /\ ~firstRun
        BY <1>2, <1>3, <2>2
    <2>4. Len(combo) <= Size /\ uiq[1].at = Len(combo) - 1 /\ uiq[1].dev \in Devices
        <3>1. uiq[1].at = Len(combo) - 2 + 1
            BY <1>2, <2>2, <2>3
        <3>2. uiq[1].dev \in Devices
            BY <2>2 DEF Events
        <3> QED
            BY <1>2, <1>3, <2>2, <2>3, <3>1, <3>2
    <2>5. Len(combo') = Len(combo) + 1 /\ Good(sel', Len(combo'))
        <3>1. combo' \in Seq(Devices \cup {"server"})
            BY DEF Typed
        <3> QED
            BY <1>2, <1>10, <2>2, <2>3, <2>4, <3>1, AddedGood
    <2>6. Len(combo') + Len(uiq') = Size + 1
        <3>1. Len(combo) + Len(uiq) = Size + 1
            BY <1>2, <2>3
        <3>2. Len(uiq') = Len(uiq) - 1 /\ Len(combo') = Len(combo) + 1
            BY <2>2, <2>5
        <3> QED
            BY <1>3, <3>1, <3>2
    <2>7. ASSUME NEW i \in 1..Len(uiq')
          PROVE  uiq'[i].kind = "added" /\ uiq'[i].at = Len(combo') - 2 + i
        <3>1. i + 1 \in 1..Len(uiq) /\ uiq'[i] = uiq[i + 1]
            BY <1>3, <2>2
        <3>2. uiq[i + 1].kind = "added" /\ uiq[i + 1].at = Len(combo) - 2 + (i + 1)
            BY <1>2, <2>3, <3>1
        <3> QED
            BY <1>3, <2>5, <3>1, <3>2
    <2>8. combo' # <<>>
        BY <1>3, <2>5
    <2> QED
        BY <1>4, <2>1, <2>3, <2>5, <2>6, <2>7, <2>8 DEF SelectedInv
<1>11. ASSUME NEW junk, NEW opened \in BOOLEAN, OnInputDeviceRemoved(opened, junk)
       PROVE  SelectedInv'
    <2>1. uiq # <<>> /\ uiq' = Tail(uiq) /\ Head(uiq).kind = "removed"
        BY <1>11 DEF OnInputDeviceRemoved, Handle
    <2>2. 1 \in 1..Len(uiq) /\ uiq[1].kind = "removed"
        BY <1>5, <2>1
    <2> QED
        BY <1>2, <1>3, <2>1, <2>2
<1>12. ASSUME NEW junk, NEW i \in 0..(Len(combo) - 1), Pick(i, junk) PROVE SelectedInv'
    <2>1. sel' = SetCurrentIndex(sel, i, combo, junk) /\ UNCHANGED <<inputDeviceList, firstRun, uiq, combo>>
        BY <1>12 DEF Pick
    <2>2. combo # <<>> /\ Len(combo) - 1 <= Size
        BY <1>2, <1>3
    <2>3. combo \in Seq(Devices \cup {"server"})
        BY DEF Typed
    <2>4. Good(SetCurrentIndex(sel, i, combo, junk), Len(combo))
        BY <1>2, <1>3, <2>2, <2>3, ChosenGood
    <2> QED
        BY <1>2, <1>4, <2>1, <2>2, <2>4 DEF SelectedInv
<1>13. CASE UNCHANGED vars
    BY <1>1, <1>2, <1>4, <1>13 DEF vars, SelectedInv
<1> QED
    BY <1>6, <1>7, <1>8, <1>9, <1>10, <1>11, <1>12, <1>13 DEF Next, Registry, Main

LEMMA SelectedInvInductive == Spec => [](Typed /\ SelectedInv)
<1>1. Init => Typed /\ SelectedInv
    BY TypedInit, SelectedInit
<1>2. Typed /\ SelectedInv /\ [Next]_vars => (Typed /\ SelectedInv)'
    BY TypedStep, SelectedStep
<1> QED
    BY <1>1, <1>2, PTL DEF Spec

(* Without the four circumstances, Start finds the device in use to be the *)
(* one selected.                                                           *)
THEOREM SelectionStarts == Spec => []SelectedStarts
<1>1. Typed /\ SelectedInv /\ Mirror => SelectedStarts
    <2> SUFFICES ASSUME Typed, SelectedInv, Mirror, Quiet, Local, cases = {}
                 PROVE  Validated(-1) /\ ValidatedIsShown
        BY DEF SelectedStarts
    <2>1. Size \in Nat /\ Listed \in Seq(Devices) /\ Len(Listed) = Size
        BY NamesSeq, LenProperties DEF Typed, Listed, Size
    <2>2. combo = Append(Listed, "server")
        BY DEF Mirror, Listed, Names, Size
    <2>3. Listed \in Seq(Devices \cup {"server"})
        BY <2>1, SeqMonotonic
    <2>4. Len(combo) = Size + 1 /\ \A i \in 1..Size : combo[i] = Listed[i]
        BY <2>1, <2>2, <2>3, AppendProperties
    <2>5. /\ sel.index \in 0..(Size - 1) /\ sel.cur = sel.index /\ ~sel.freed
          /\ sel.cur + 1 \in 1..Size
        BY <2>1, <2>4 DEF SelectedInv, Good, Local
    <2>6. Alive(sel)
        BY <2>5 DEF Alive
    <2>7. At(inputDeviceList, sel.cur).id = sel.index
        BY <2>1, <2>5 DEF At, SelectedInv, Numbered
    <2>8. Validated(-1)
        BY <2>5, <2>6, <2>7 DEF Validated, ActiveInput
    <2>9. At(inputDeviceList, sel.cur).dev = At(combo, sel.index)
        BY <2>4, <2>5 DEF At, Listed, Names, Size
    <2> QED
        BY <2>8, <2>9 DEF ValidatedIsShown
<1> QED
    BY <1>1, SelectedInvInductive, ComboMirrors, PTL

=============================================================================
