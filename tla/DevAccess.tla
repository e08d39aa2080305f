------------------------------- MODULE DevAccess -------------------------------
(***************************************************************************)
(* The process: main, DevManager, the configuration, the device factory,   *)
(* the MES server object and its database helper, with one poller thread   *)
(* per PLC.  A poller is taken as ChangeReport promises (PlcPoller shows   *)
(* that a Fx3u object keeps the promise); an event is handled on the       *)
(* poller's own thread, one INSERT per field, and the threads share one    *)
(* database session without a lock.                                        *)
(***************************************************************************)
EXTENDS Integers, Sequences, FiniteSets

CONSTANTS
    Files,         \* the configuration files: what ParseConf finds in them
    NFields,       \* fields of an event, one row each (8)
    StatusFields,  \* the fields sent as a text out of the table pSt
    Vals,          \* values of a field; 0 is one
    Statuses,      \* the values pSt has a text for (0..10)
    Garbage,       \* an indeterminate value
    MaxRows        \* bound: no event is raised once the table is longer

Slots == UNION {1..Len(f.plc) : f \in Files}
Fields == 1..NFields
Snapshot == [Fields -> Vals \cup {Garbage}]
Blank == [f \in Fields |-> 0]

\* PLCDEVTYPE; a device of a type with no class gets no object, and a Q02U
\* object has no thread.
DevTypes == {"XinJie", "Q02U", "Q03UDV", "FX3U"}
HasClass(type) == type \in {"XinJie", "Q02U", "FX3U"}
HasThread(type) == type \in {"XinJie", "FX3U"}

ASSUME DevAccessAssumption ==
    /\ NFields \in Nat \ {0} /\ StatusFields \subseteq Fields
    /\ 0 \in Vals /\ Statuses \subseteq Vals /\ Garbage \notin Vals
    /\ MaxRows \in Nat
    /\ \A f \in Files :
          /\ f.plc \in Seq(DevTypes)
          /\ {f.hasRoot, f.hasPlc, f.hasSql, f.hasSvr} \subseteq BOOLEAN

VARIABLES
    file,      \* the file found on disk
    main,      \* where main is in DevManager::Start
    process,   \* "running", "returned" (main gave up) or "terminated"
    plcLst,    \* m_plcLst
    session,   \* m_ses: "null" or "open"
    devs,      \* the slots of plcLst that have an object, in m_plcObjLst
    view,      \* per device: the snapshot of its last event
    told,      \* per device: an event was raised on the present connection
    row,       \* per device: the next field to insert, 0 between events
    events,    \* per device: the snapshots it has raised so far
    table      \* the rows of TB_DEVICECJJL in insertion order

start == <<file, main, plcLst, session, devs>>
poll  == <<view, told, events>>
vars  == <<start, process, poll, row, table>>

TypeOK ==
    /\ file \in Files
    /\ main \in {"init", "mes", "plc", "loop"}
    /\ process \in {"running", "returned", "terminated"}
    /\ plcLst \in {<<>>} \cup {f.plc : f \in Files}
    /\ session \in {"null", "open"}
    /\ devs \subseteq Slots
    /\ view \in [Slots -> Snapshot] /\ told \in [Slots -> BOOLEAN]
    /\ row \in [Slots -> 0..NFields]
    /\ events \in [Slots -> Seq(Snapshot)]
    /\ table \in Seq([dev : Slots, field : Fields, val : Vals \cup {Garbage}])

Init ==
    /\ file \in Files
    /\ main = "init" /\ process = "running"
    /\ plcLst = <<>> /\ session = "null" /\ devs = {}
    /\ view = [d \in Slots |-> Blank] /\ told = [d \in Slots |-> FALSE]
    /\ row = [d \in Slots |-> 0]
    /\ events = [d \in Slots |-> <<>>]
    /\ table = <<>>

------------------------------------------------------------------------------
(* DevManager::Start on the main thread.                                   *)

(* Variant: a file with no database server is let through.                 *)
ParsesWithoutSvr == file.hasRoot /\ file.hasPlc /\ file.hasSql

(* ParseConf succeeds.                                                     *)
Parses == file.hasRoot /\ file.hasPlc /\ file.hasSql /\ file.hasSvr

(* m_config->Init(): the device list is kept even when a later section is  *)
(* missing, but then Start returns and main with it.                       *)
LoadConfig ==
    /\ process = "running" /\ main = "init"
    /\ plcLst' = IF file.hasRoot /\ file.hasPlc THEN file.plc ELSE <<>>
    /\ IF Parses
         THEN main' = "mes" /\ UNCHANGED process
         ELSE process' = "returned" /\ UNCHANGED main
    /\ UNCHANGED <<file, session, devs, poll, row, table>>

(* m_mesSvr.Start(): an exception from the connection pool is logged, the  *)
(* session stays null, and nobody is told.                                 *)
StartMes ==
    /\ process = "running" /\ main = "mes"
    /\ session' \in {"null", "open"}
    /\ main' = "plc"
    /\ UNCHANGED <<file, process, plcLst, devs, poll, row, table>>

Created == {d \in 1..Len(plcLst) : d \in devs \/ ~HasClass(plcLst[d])}

(* One turn of the loop over plcLst: create the object, start its thread.  *)
(* The SQL devices before it have a class with empty Start and Stop.       *)
StartDevice ==
    /\ process = "running" /\ main = "plc"
    /\ \E d \in (1..Len(plcLst)) \ Created :
          /\ \A e \in 1..(d - 1) : e \in Created
          /\ devs' = devs \cup {d}
    /\ UNCHANGED <<file, main, process, plcLst, session, poll, row, table>>

EnterLoop ==
    /\ process = "running" /\ main = "plc"
    /\ Created = 1..Len(plcLst)
    /\ main' = "loop"
    /\ UNCHANGED <<file, process, plcLst, session, devs, poll, row, table>>

------------------------------------------------------------------------------
(* A poller thread between two events.                                     *)
Polling(d) ==
    /\ process = "running"
    /\ d \in devs /\ HasThread(plcLst[d])
    /\ row[d] = 0

Baseline(d) == IF told[d] THEN view[d] ELSE Blank

(* What the event carries: registers that changed, or, from the XinJie     *)
(* class, a structure of another type whose members were never written.    *)
Payloads(d) ==
    IF plcLst[d] = "FX3U"
      THEN [Fields -> Vals] \ {Baseline(d)}
      ELSE {[f \in Fields |-> Garbage]}

(* m_fn(eEVENT_MITSUBISHI_FX3U_32M, &data, m_pUser): EventMsg and          *)
(* DoEventProcess run on the poller's thread, which polls no more until    *)
(* all rows are in.                                                        *)
RaiseEvent(d) ==
    /\ Polling(d) /\ Len(table) <= MaxRows
    /\ \E s \in Payloads(d) :
          /\ view' = [view EXCEPT ![d] = s]
          /\ events' = [events EXCEPT ![d] = Append(@, s)]
    /\ told' = [told EXCEPT ![d] = TRUE]
    /\ row' = [row EXCEPT ![d] = 1]
    /\ UNCHANGED <<start, process, table>>

Reconnect(d) ==
    /\ Polling(d)
    /\ told' = [told EXCEPT ![d] = FALSE]
    /\ UNCHANGED <<start, process, view, events, row, table>>

------------------------------------------------------------------------------
(* The eight calls of InsertToSvr in DoEventProcess.                       *)
Inserting(d) == process = "running" /\ row[d] > 0

NextRow(d) == IF row[d] = NFields THEN 0 ELSE row[d] + 1

InTable(d) == row[d] \in StatusFields => view[d][row[d]] \in Statuses

AddRow(d, val) ==
    /\ table' = Append(table, [dev |-> d, field |-> row[d], val |-> val])
    /\ row' = [row EXCEPT ![d] = NextRow(d)]
    /\ UNCHANGED <<start, process, poll>>

Terminate ==
    /\ process' = "terminated"
    /\ UNCHANGED <<start, poll, row, table>>

(* The row of a statement that failed is given up, the next one tried.     *)
SkipRow(d) ==
    /\ row' = [row EXCEPT ![d] = NextRow(d)]
    /\ UNCHANGED <<start, process, poll, table>>

InsertOk(d) ==
    /\ Inserting(d) /\ session = "open" /\ InTable(d)
    /\ AddRow(d, view[d][row[d]])

(* pSt is indexed with a status it has no entry for: whatever lies there   *)
(* is sent as a text, or the read faults.                                  *)
InsertWild(d) ==
    /\ Inserting(d) /\ ~InTable(d)
    /\ Terminate \/ (session = "open" /\ AddRow(d, Garbage))

(* Variant: the exception is caught in InsertData.                         *)
InsertFailsCaught(d) ==
    /\ Inserting(d) /\ session = "open"
    /\ SkipRow(d)

(* The statement throws.  InsertData catches pointers to exceptions, Poco  *)
(* throws objects, and nothing above catches: the runtime ends the process.*)
InsertFails(d) ==
    /\ Inserting(d) /\ session = "open"
    /\ Terminate

(* Variant: InsertData returns when it has no session.                     *)
InsertNoSessionReturns(d) ==
    /\ Inserting(d) /\ session = "null" /\ InTable(d)
    /\ SkipRow(d)

(* InsertData makes a statement on the session, which is null.             *)
InsertNoSession(d) ==
    /\ Inserting(d) /\ session = "null" /\ InTable(d)
    /\ Terminate

------------------------------------------------------------------------------
Main == LoadConfig \/ StartMes \/ StartDevice \/ EnterLoop

Insert(d) == InsertOk(d) \/ InsertWild(d) \/ InsertFails(d) \/ InsertNoSession(d)

Next == Main \/ \E d \in Slots : RaiseEvent(d) \/ Reconnect(d) \/ Insert(d)

Spec == Init /\ [][Next]_vars

(* The threads run and the database answers, well or badly.                *)
FairSpec ==
    /\ Spec /\ WF_vars(Main)
    /\ \A d \in Slots : WF_vars(Insert(d))

------------------------------------------------------------------------------
(* The rows of a device among the first n of a table.                      *)
RowsOf(rows, d, n) == Cardinality({m \in 1..n : rows[m].dev = d})

(* The rows a device has in the table are its events, whole and in order,  *)
(* each field in its place, but for the rest of the event in progress;     *)
(* other devices' rows come between them in any order.                     *)
WholeEvents ==
    /\ \A d \in Slots :
          RowsOf(table, d, Len(table)) =
              IF row[d] = 0 THEN NFields * Len(events[d])
              ELSE NFields * (Len(events[d]) - 1) + row[d] - 1
    /\ \A n \in 1..Len(table) :
          LET d == table[n].dev
          IN  \E e \in 1..Len(events[d]), f \in Fields :
                 /\ RowsOf(table, d, n) = NFields * (e - 1) + f
                 /\ table[n].field = f
                 /\ \/ table[n].val = events[d][e][f]
                    \/ f \in StatusFields /\ events[d][e][f] \notin Statuses

(* A configuration that cannot be used stops the program before it has a   *)
(* database session or a device; one that can, gives an object to each     *)
(* device that has a class and to no other.                                *)
ConfigGate ==
    /\ process = "returned" => ~Parses /\ devs = {} /\ session = "null"
    /\ main # "init" => file.hasSvr /\ plcLst = file.plc
    /\ main = "loop" => devs = {d \in 1..Len(file.plc) : HasClass(file.plc[d])}

(* A database that was not there at the start is never tried again: the    *)
(* first event of any device ends the program.                             *)
NoSessionNoService ==
    (session = "null" /\ \E d \in Slots : row[d] > 0) ~> process = "terminated"
==============================================================================
