--------------------------- MODULE DevAccessProofs ---------------------------
(* For any configuration files, devices, fields and values: what is started  *)
(* on which configuration, and that the table has the devices' events whole  *)
(* and in order.                                                             *)
EXTENDS DevAccess, FiniteSetTheorems, TLAPS

\* The snapshot a device inserts is that of its last event.
Inserted ==
    \A d \in Slots : row[d] > 0 =>
        Len(events[d]) > 0 /\ view[d] = events[d][Len(events[d])]

\* The configuration is loaded before anything is started, and objects are
\* created for devices that have a class.
Started ==
    /\ main = "init" => devs = {} /\ session = "null"
    /\ process = "returned" => main = "init" /\ ~Parses
    /\ main # "init" => Parses /\ plcLst = file.plc
    /\ \A d \in devs : d \in 1..Len(plcLst) /\ HasClass(plcLst[d])
    /\ main = "loop" => Created = 1..Len(plcLst)

\* What WholeEvents says of the n-th row of a table, and of a device.
RowFits(rows, raised, n) ==
    \E e \in 1..Len(raised[rows[n].dev]), f \in Fields :
        /\ RowsOf(rows, rows[n].dev, n) = NFields * (e - 1) + f
        /\ rows[n].field = f
        /\ \/ rows[n].val = raised[rows[n].dev][e][f]
           \/ f \in StatusFields /\ raised[rows[n].dev][e][f] \notin Statuses

DeviceFits(rows, raised, at, d) ==
    RowsOf(rows, d, Len(rows)) =
        IF at[d] = 0 THEN NFields * Len(raised[d])
        ELSE NFields * (Len(raised[d]) - 1) + at[d] - 1

LEMMA WholeEventsParts ==
    /\ WholeEvents <=> /\ \A d \in Slots : DeviceFits(table, events, row, d)
                      /\ \A n \in 1..Len(table) : RowFits(table, events, n)
    /\ WholeEvents' <=> /\ \A d \in Slots : DeviceFits(table', events', row', d)
                       /\ \A n \in 1..Len(table') : RowFits(table', events', n)
BY DEF WholeEvents, RowFits, DeviceFits

LEMMA ElementOfRows ==
    ASSUME NEW S, NEW rows \in Seq(S), NEW n \in 1..Len(rows)
    PROVE  rows[n] \in S
OBVIOUS

LEMMA RowTyped ==
    ASSUME TypeOK, NEW n \in 1..Len(table)
    PROVE  table[n].dev \in Slots
<1>1. table \in Seq([dev : Slots, field : Fields, val : Vals \cup {Garbage}])
  BY DEF TypeOK
<1>2. table[n] \in [dev : Slots, field : Fields, val : Vals \cup {Garbage}]
  BY <1>1, ElementOfRows
<1> QED
  BY <1>2

LEMMA InitHolds == Init => TypeOK /\ Inserted /\ Started /\ WholeEvents
<1> SUFFICES ASSUME Init PROVE TypeOK /\ Inserted /\ Started /\ WholeEvents
  OBVIOUS
<1> USE DEF Init
<1>1. TypeOK
  BY DevAccessAssumption DEF TypeOK, Blank, Snapshot, Fields
<1>2. Inserted /\ Started
  BY DEF Inserted, Started
<1>3. {m \in 1..Len(table) : table[m].dev = 0} = {} /\ Len(table) = 0
  OBVIOUS
<1>4. \A d \in Slots : RowsOf(table, d, Len(table)) = 0
  <2> TAKE d \in Slots
  <2>1. {m \in 1..Len(table) : table[m].dev = d} = {}
    OBVIOUS
  <2> QED
    BY <2>1, FS_EmptySet DEF RowsOf
<1>5. WholeEvents
  BY <1>3, <1>4, DevAccessAssumption DEF WholeEvents
<1> QED
  BY <1>1, <1>2, <1>5

-----------------------------------------------------------------------------
\* What main does concerns no row and no event.
LEMMA MainKeeps ==
    ASSUME TypeOK, Started, Main
    PROVE  TypeOK' /\ Started' /\ UNCHANGED <<poll, row, table>>
<1>1. CASE LoadConfig
  <2>1. file.plc \in Seq(DevTypes) /\ plcLst' \in {<<>>, file.plc}
    BY <1>1, DevAccessAssumption DEF LoadConfig, TypeOK
  <2>2. TypeOK'
    BY <1>1, <2>1 DEF LoadConfig, TypeOK, poll
  <2>3. Started'
    BY <1>1, <2>1 DEF LoadConfig, Started, Parses, poll
  <2> QED
    BY <1>1, <2>2, <2>3 DEF LoadConfig
<1>2. CASE StartMes
  BY <1>2 DEF StartMes, TypeOK, Started, Parses, poll
<1>3. CASE StartDevice
  <2>1. PICK d \in (1..Len(plcLst)) \ Created : devs' = devs \cup {d}
    BY <1>3 DEF StartDevice
  <2>2. HasClass(plcLst[d]) /\ plcLst = file.plc
    BY <1>3, <2>1 DEF StartDevice, Created, Started
  <2>3. d \in Slots
    BY <2>1, <2>2 DEF TypeOK, Slots
  <2>4. TypeOK'
    BY <1>3, <2>1, <2>3 DEF StartDevice, TypeOK, poll
  <2>5. Started'
    BY <1>3, <2>1, <2>2 DEF StartDevice, Started, Parses, poll
  <2> QED
    BY <1>3, <2>4, <2>5 DEF StartDevice
<1>4. CASE EnterLoop
  BY <1>4 DEF EnterLoop, TypeOK, Started, Parses, poll, Created
<1> QED
  BY <1>1, <1>2, <1>3, <1>4 DEF Main

-----------------------------------------------------------------------------
\* One more row: what the rows before it count is unchanged, and the device it
\* is of has one more.
LEMMA RowsOfAppend ==
    ASSUME NEW T, table \in Seq(T), NEW r \in T, table' = Append(table, r)
    PROVE  /\ Len(table') = Len(table) + 1
           /\ table'[Len(table) + 1] = r
           /\ \A n \in 1..Len(table) : table'[n] = table[n]
           /\ \A d \in Slots : \A n \in 0..Len(table) : RowsOf(table', d, n) = RowsOf(table, d, n)
           /\ \A d \in Slots : RowsOf(table', d, Len(table) + 1) =
                        IF r.dev = d THEN RowsOf(table, d, Len(table)) + 1 ELSE RowsOf(table, d, Len(table))
<1>1. /\ Len(table) \in Nat
      /\ Len(table') = Len(table) + 1
      /\ table'[Len(table) + 1] = r
      /\ \A n \in 1..Len(table) : table'[n] = table[n]
  OBVIOUS
<1> DEFINE S(d, n) == {m \in 1..n : table[m].dev = d}
           N(d, n) == {m \in 1..n : table'[m].dev = d}
<1>2. \A d \in Slots, n \in 0..Len(table) : N(d, n) = S(d, n)
  BY <1>1
<1>3. \A d \in Slots : N(d, Len(table) + 1) =
              IF r.dev = d THEN S(d, Len(table)) \cup {Len(table) + 1} ELSE S(d, Len(table))
  BY <1>1
<1>4. ASSUME NEW d \in Slots
      PROVE  /\ IsFiniteSet(S(d, Len(table)))
             /\ Len(table) + 1 \notin S(d, Len(table))
  <2>1. IsFiniteSet(1..Len(table)) /\ S(d, Len(table)) \in SUBSET (1..Len(table))
    BY <1>1, FS_Interval
  <2>2. IsFiniteSet(S(d, Len(table)))
    BY <2>1, FS_Subset
  <2> QED
    BY <1>1, <2>1, <2>2
<1>5. ASSUME NEW d \in Slots
      PROVE  Cardinality(N(d, Len(table) + 1)) =
                 IF r.dev = d THEN Cardinality(S(d, Len(table))) + 1
                 ELSE Cardinality(S(d, Len(table)))
  <2> HIDE DEF S, N
  <2> QED
    BY <1>3, <1>4, FS_AddElement
<1> QED
  BY <1>1, <1>2, <1>5 DEF RowsOf

\* Steps that concern no row and no event.
LEMMA OthersKeep ==
    ASSUME Inserted, WholeEvents, UNCHANGED <<view, events, row, table>>
    PROVE  Inserted' /\ WholeEvents'
<1>1. view' = view /\ events' = events /\ row' = row /\ table' = table
  OBVIOUS
<1>2. Inserted'
  BY <1>1 DEF Inserted
<1>3. WholeEvents'
  BY <1>1 DEF WholeEvents
<1> QED
  BY <1>2, <1>3

LEMMA RaiseEventKeeps ==
    ASSUME TypeOK, Inserted, Started, WholeEvents, NEW d \in Slots, RaiseEvent(d)
    PROVE  TypeOK' /\ Inserted' /\ Started' /\ WholeEvents'
<1>0. NFields \in Nat \ {0} /\ Vals \subseteq Vals \cup {Garbage}
  BY DevAccessAssumption
<1>1. PICK s \in Payloads(d) :
        view' = [view EXCEPT ![d] = s] /\ events' = [events EXCEPT ![d] = Append(@, s)]
  BY DEF RaiseEvent
<1>2. s \in Snapshot
  BY <1>1 DEF Payloads, Snapshot
<1>3. /\ row[d] = 0 /\ row' = [row EXCEPT ![d] = 1] /\ told' = [told EXCEPT ![d] = TRUE]
      /\ UNCHANGED <<start, process, table>>
  BY DEF RaiseEvent, Polling
<1>4. TypeOK'
  BY <1>0, <1>1, <1>2, <1>3 DEF TypeOK, start
<1>5. /\ Len(events'[d]) = Len(events[d]) + 1
      /\ events'[d][Len(events[d]) + 1] = s
      /\ \A e \in 1..Len(events[d]) : events'[d][e] = events[d][e]
      /\ \A c \in Slots \ {d} : events'[c] = events[c]
      /\ \A c \in Slots : Len(events[c]) \in Nat
  BY <1>1, <1>2 DEF TypeOK
<1>6. Inserted'
  <2> SUFFICES ASSUME NEW c \in Slots, row'[c] > 0
               PROVE  Len(events'[c]) > 0 /\ view'[c] = events'[c][Len(events'[c])]
    BY DEF Inserted
  <2>1. CASE c = d
    BY <1>1, <1>5, <2>1 DEF TypeOK
  <2>2. CASE c # d
    BY <1>1, <1>3, <1>5, <2>2 DEF TypeOK, Inserted
  <2> QED
    BY <2>1, <2>2
<1>7. Started'
  BY <1>3 DEF Started, start, Parses, Created
<1>8. WholeEvents'
  <2>1. table' = table
    BY <1>3
  <2>2. ASSUME NEW c \in Slots PROVE DeviceFits(table, events', row', c)
    <3> USE DEF DeviceFits
    <3>1. CASE c = d
      <4>1. RowsOf(table, c, Len(table)) = NFields * Len(events[c])
        BY <1>3, <3>1 DEF WholeEvents
      <4>2. row'[c] = 1 /\ Len(events'[c]) - 1 = Len(events[c]) /\ Len(events[c]) \in Nat
        BY <1>3, <1>5, <3>1 DEF TypeOK
      <4>3. NFields * Len(events[c]) \in Int
        BY <1>0, <4>2
      <4>4. NFields * (Len(events'[c]) - 1) + row'[c] - 1 = NFields * Len(events[c])
        BY <4>2, <4>3
      <4> QED
        BY <4>1, <4>2, <4>4
    <3>2. CASE c # d
      BY <1>3, <1>5, <3>2 DEF WholeEvents, TypeOK
    <3> QED
      BY <3>1, <3>2
  <2>3. ASSUME NEW n \in 1..Len(table) PROVE RowFits(table, events', n)
    <3>1. table[n].dev \in Slots
      BY RowTyped
    <3>2. PICK e \in 1..Len(events[table[n].dev]), f \in Fields :
                 /\ RowsOf(table, table[n].dev, n) = NFields * (e - 1) + f
                 /\ table[n].field = f
                 /\ \/ table[n].val = events[table[n].dev][e][f]
                    \/ f \in StatusFields /\ events[table[n].dev][e][f] \notin Statuses
      BY WholeEventsParts DEF RowFits
    <3>3. e \in 1..Len(events'[table[n].dev]) /\ events'[table[n].dev][e] = events[table[n].dev][e]
      <4>1. CASE table[n].dev = d
        BY <1>5, <3>1, <4>1
      <4>2. CASE table[n].dev # d
        BY <1>5, <3>1, <4>2
      <4> QED
        BY <4>1, <4>2
    <3> QED
      BY <3>2, <3>3 DEF RowFits
  <2> QED
    BY <2>1, <2>2, <2>3, WholeEventsParts
<1> QED
  BY <1>4, <1>6, <1>7, <1>8

\* A row that goes in is the next field of its device's last event, as it is, or
\* whatever is sent for a status without a text.
LEMMA AddRowKeeps ==
    ASSUME TypeOK, Inserted, Started, WholeEvents, NEW d \in Slots,
           row[d] > 0, NEW val \in Vals \cup {Garbage},
           val = view[d][row[d]] \/ ~InTable(d), AddRow(d, val)
    PROVE  TypeOK' /\ Inserted' /\ Started' /\ WholeEvents'
<1>0. NFields \in Nat \ {0} /\ row[d] \in Fields
  BY DevAccessAssumption DEF TypeOK, Fields
<1> DEFINE T == [dev : Slots, field : Fields, val : Vals \cup {Garbage}]
           r == [dev |-> d, field |-> row[d], val |-> val]
           L == Len(events[d])
<1>1. /\ table \in Seq(T) /\ r \in T /\ table' = Append(table, r)
      /\ row' = [row EXCEPT ![d] = NextRow(d)]
      /\ UNCHANGED <<start, process, poll>>
  BY <1>0 DEF AddRow, TypeOK
<1>2. NextRow(d) \in 0..NFields
  BY <1>0 DEF NextRow, Fields
<1>3. TypeOK'
  BY <1>1, <1>2 DEF TypeOK, start, poll
<1>4. Inserted'
  BY <1>1, <1>2 DEF Inserted, TypeOK, poll
<1>5. Started'
  BY <1>1 DEF Started, start, Parses, Created
<1>6. L \in Nat \ {0} /\ view[d] = events[d][L]
  BY DEF Inserted, TypeOK
<1>7. /\ Len(table') = Len(table) + 1 /\ Len(table) \in Nat
      /\ table'[Len(table) + 1] = r
      /\ \A n \in 1..Len(table) : table'[n] = table[n]
      /\ \A c \in Slots : \A n \in 0..Len(table) : RowsOf(table', c, n) = RowsOf(table, c, n)
      /\ \A c \in Slots : RowsOf(table', c, Len(table) + 1) =
                    IF d = c THEN RowsOf(table, c, Len(table)) + 1 ELSE RowsOf(table, c, Len(table))
  <2> HIDE DEF T
  <2> QED
    BY <1>1, RowsOfAppend
<1>8. RowsOf(table, d, Len(table)) = NFields * (L - 1) + row[d] - 1
  BY <1>0 DEF WholeEvents
<1>9. ASSUME NEW c \in Slots PROVE DeviceFits(table', events, row', c)
  <2> USE <1>7 DEF DeviceFits
  <2>1. CASE c = d
    <3>1. RowsOf(table', d, Len(table) + 1) = NFields * (L - 1) + row[d]
      BY <1>0, <1>6, <1>7, <1>8 DEF Fields
    <3>2. row'[d] = NextRow(d)
      BY <1>1 DEF TypeOK
    <3>3. CASE row[d] = NFields
      <4>1. NFields * (L - 1) + NFields = NFields * L
        BY <1>0, <1>6
      <4> QED
        BY <2>1, <3>1, <3>2, <3>3, <4>1 DEF NextRow
    <3>4. CASE row[d] # NFields
      <4>1. row'[d] = row[d] + 1 /\ row'[d] # 0 /\ row[d] \in Nat
        BY <1>0, <3>2, <3>4 DEF NextRow, Fields
      <4>2. NFields * (L - 1) \in Int
        BY <1>0, <1>6
      <4> QED
        BY <2>1, <3>1, <4>1, <4>2
    <3> QED
      BY <3>3, <3>4
  <2>2. CASE c # d
    BY <1>1, <1>7, <2>2 DEF WholeEvents, TypeOK
  <2> QED
    BY <2>1, <2>2
<1>10. ASSUME NEW n \in 1..(Len(table) + 1) PROVE RowFits(table', events, n)
  <2>1. CASE n \in 1..Len(table)
    <3>1. table'[n] = table[n] /\ RowsOf(table', table[n].dev, n) = RowsOf(table, table[n].dev, n)
      BY <1>7, <2>1, RowTyped
    <3>2. RowFits(table, events, n)
      BY <2>1, WholeEventsParts
    <3> QED
      BY <3>1, <3>2 DEF RowFits
  <2>2. CASE n = Len(table) + 1
    <3>1. table'[n].dev = d /\ table'[n].field = row[d] /\ table'[n].val = val
      BY <1>7, <2>2
    <3>2. RowsOf(table', d, n) = NFields * (L - 1) + row[d]
      BY <1>0, <1>6, <1>7, <1>8, <2>2 DEF Fields
    <3>3. val = events[d][L][row[d]] \/ (row[d] \in StatusFields /\ events[d][L][row[d]] \notin Statuses)
      BY <1>6 DEF InTable
    <3>4. L \in 1..Len(events[d])
      BY <1>6
    <3> QED
      BY <1>0, <3>1, <3>2, <3>3, <3>4 DEF RowFits
  <2> QED
    BY <1>7, <2>1, <2>2
<1>11. WholeEvents'
  <2>1. events' = events
    BY <1>1 DEF poll
  <2> QED
    BY <1>7, <1>9, <1>10, <2>1, WholeEventsParts
<1> QED
  BY <1>3, <1>4, <1>5, <1>11

LEMMA InsertKeeps ==
    ASSUME TypeOK, Inserted, Started, WholeEvents, NEW d \in Slots, Insert(d)
    PROVE  TypeOK' /\ Inserted' /\ Started' /\ WholeEvents'
<1>1. row[d] > 0
  BY DEF Insert, InsertOk, InsertWild, InsertFails, InsertNoSession, Inserting
<1>2. CASE Terminate
  <2>1. TypeOK' /\ Started'
    BY <1>1, <1>2 DEF Terminate, TypeOK, Started, start, poll, Parses, Created
  <2> QED
    BY <1>2, <2>1, OthersKeep DEF Terminate, poll
<1>3. CASE AddRow(d, view[d][row[d]])
  <2>1. view[d][row[d]] \in Vals \cup {Garbage}
    BY <1>1, DevAccessAssumption DEF TypeOK, Snapshot, Fields
  <2> QED
    BY <1>1, <1>3, <2>1, AddRowKeeps
<1>4. CASE ~InTable(d) /\ AddRow(d, Garbage)
  BY <1>1, <1>4, AddRowKeeps
<1> QED
  BY <1>2, <1>3, <1>4 DEF Insert, InsertOk, InsertWild, InsertFails, InsertNoSession

LEMMA StepKeeps ==
    ASSUME TypeOK, Inserted, Started, WholeEvents, [Next]_vars
    PROVE  TypeOK' /\ Inserted' /\ Started' /\ WholeEvents'
<1>1. CASE Main
  BY <1>1, MainKeeps, OthersKeep DEF poll
<1>2. ASSUME NEW d \in Slots, RaiseEvent(d) PROVE TypeOK' /\ Inserted' /\ Started' /\ WholeEvents'
  BY <1>2, RaiseEventKeeps
<1>3. ASSUME NEW d \in Slots, Reconnect(d) PROVE TypeOK' /\ Inserted' /\ Started' /\ WholeEvents'
  <2>1. TypeOK' /\ Started'
    BY <1>3 DEF Reconnect, TypeOK, Started, start, Parses, Created
  <2> QED
    BY <1>3, <2>1, OthersKeep DEF Reconnect
<1>4. ASSUME NEW d \in Slots, Insert(d) PROVE TypeOK' /\ Inserted' /\ Started' /\ WholeEvents'
  BY <1>4, InsertKeeps
<1>5. CASE UNCHANGED vars
  <2>1. TypeOK' /\ Started'
    BY <1>5 DEF vars, TypeOK, Started, start, poll, Parses, Created
  <2> QED
    BY <1>5, <2>1, OthersKeep DEF vars, poll
<1> QED
  BY <1>1, <1>2, <1>3, <1>4, <1>5 DEF Next

\* All parts of the process together: a device's rows, its events and the row it
\* is at agree, and main has started what the configuration asks for.
THEOREM TableInvariant == Spec => [](TypeOK /\ Inserted /\ Started /\ WholeEvents)
<1>1. (TypeOK /\ Inserted /\ Started /\ WholeEvents) /\ [Next]_vars
        => (TypeOK /\ Inserted /\ Started /\ WholeEvents)'
  BY StepKeeps
<1> QED
  BY InitHolds, <1>1, PTL DEF Spec

\* The rows of each device in TB_DEVICECJJL are its events, whole and in order,
\* however many device threads insert between each other.
THEOREM WholeEventsHolds == Spec => []WholeEvents
BY TableInvariant, PTL

\* Nothing is started on a configuration with a section missing; with a complete
\* one every device with a class gets its object and no other does.
THEOREM ConfigGateHolds == Spec => []ConfigGate
<1>1. TypeOK /\ Started => ConfigGate
  BY DEF TypeOK, Started, ConfigGate, Parses, Created
<1> QED
  BY TableInvariant, <1>1, PTL
==============================================================================
