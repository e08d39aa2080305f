# A verification development for dev_access

`dev_access` polls programmable controllers (PLCs) on a factory floor over
Modbus/TCP and writes what changed into a table of a MES database. This
directory holds TLA+ models of its parts, the TLC configurations that check
them on small instances, and theorems checked by TLAPS.

Paths below are relative to `src/dev_accesss/`.

## 1. The system

```
 main ── DevManager::Start ── ConfigHelper   (conf file -> device list, database list)
             │            ├── MesSvr ── DbHelper ── Poco::Data session ── TB_DEVICECJJL
             │            └── DevFactory ── one object + one thread per PLC
             │                                  │  DoStart: connect, scan, report, sleep
             │                                  └── Modbus ── socket ── PLC
             └── EventMsg / DoEventProcess  <── m_fn(event, data, user), on the poller's thread
 every part ── WLog ── files in the log directory
 WLog ── CResGuard (a critical section)
 ConfigHelper ── _xml... functions of myXmlParse ── TinyXML
 no caller in the program: RWLock, OSSem, CSimpleLog, string helpers, SimpleXMLMaker,
                           the socket calls with a time-out, class SimpleXmlMaker
```

| Component | State | Operations | How it interacts | What is hard | What makes it correct |
|---|---|---|---|---|---|
| PLC pollers `dev_accesss/src/mitsubishi_fx3u_32m.cpp`, `xinjie_xc3_32t.cpp` | `OldValue[8]`, `Update`, `m_bStop`, the `Modbus` object | `Start`, `Stop`, `DoStart`, `ModbusInit`, `ModbusStart` | calls Modbus; calls `m_fn` with a snapshot | one flag is both Stop's request and the error path's; a scan that ends half-way; reconnection forgets the old values | the listener is told every change once, as a whole snapshot; a broken connection is replaced |
| Modbus/TCP client `dev_accesss/src/modbus.cpp` | socket, `_connected`, `_msg_id`, slave id | `ModbusConnect`, `ModbusClose`, reads and writes of coils and registers, `ModbusErrorHandle` | bytes on a TCP stream | one `recv()` is one reply; nothing matches replies to requests; frames built by hand; `_connected` is never lowered | a read returns what the register held; a write writes that and nothing else; a dead connection gives no result |
| DevManager, `main` | `m_plcObjLst`, `m_sqlObjLst` | `Start`, `Stop`, `EventMsg`, `DoEventProcess` | starts every thing, receives events of all threads | several threads in one handler, a failure half-way through eight rows | rows of an event are whole and in order |
| ConfigHelper | `m_plcLst`, `m_sqlLst`, `m_svrConf` | `Init`, `ParseConf` | read once by DevManager | a list filled before a later section fails | nothing starts with half a configuration |
| DevFactory, stub devices | - | `CreatePlcDev`, `CreateSqlDev` | creates the objects | types without a class | an object for each type that has one |
| MesSvr, DbHelper | `m_ses` | `Start`, `InsertToSvr`, `ConnectToSvr`, `InsertData` | the database | exceptions of a type nobody catches, a session that is null | a failure is contained (it is not) |
| RWLock, AutoRLock, AutoWLock `common/Locker` | status, three counters, an event | `lock_shared`, `lock_unique`, `try_…`, `unlock` | none in the program; offered to any threads | wait outside the critical section, manual-reset event shared by all waiters | exclusion, exact counters, no lost wake-up |
| WLog `common/wLog/wLog.cpp` | file list, count, open file, size, clock ticks | `WLogInit`, `vWriteLog`, `WriteLog`, `SwitchNewFile`, `CleanFile_` | called by all threads under `m_lock` | a list that caches a directory, over restarts, failing opens, deletions and writes that fail unnoticed, two files in one second | no line is lost but by cleaning or a full disk, old files go first, the bounds on files hold |
| CSimpleLog, CSimpleWrite `common/wLog/CSimpleLog.cpp` | per object: number drawn, files opened, size, file; per class: the counter `g_iNum` | `PrintfV`, `write` | none in the program; offered to any threads | a counter shared by objects that lock only themselves, an `unsigned char`, `fopen("w")`, a size that is never reset | each object's lines are in files of its own |
| OSSem, internallock `common/Locker` | a semaphore and a count beside it | `Wait` (with a time-out), `PostN`, `Post`, `Count` | only `CResGuard` is used, by WLog | two operations that are atomic each, and not together; a release that fails | the count accounts for the semaphore and for every call under way |
| SocketAPI `common/SocketAPI` | sockets | `Connect`, `Send`, `Recv`, `Close`, the same with a time-out | Modbus uses the plain ones | partial sends, half seconds counted in place of time, blocking and non-blocking sockets | what a caller is told is what was moved; the call returns, and in time |
| StrUtilty, StringUtilty `common/StrUtilty` | – | trimming, lines, numbers, pairs, splitting, parameters, for `char *` and for `string` | none in the program | boundaries; two families that should agree | each keeps what it is given; the families agree |
| SimpleXMLParser, SimpleXMLMaker `common/tinyxml/SimpleXmlMaker.cpp` | a document, the current node | `Parse`, `Goto`, `GotoFirstChild`, `Next`, `GetValue`, `AddNode`, `AddValue`, `UpdateValue`, `EraseValue`, `SimpleAdd…` | TinyXML | paths with indexes, nodes made on the way, a current node that another call frees | what is made is found; what is updated is read; no call uses a freed node |
| SimpleXmlMaker `common/tinyxml/myXmlParse.cpp` | a text, an indentation, a stack of titles | `AddNode`, `EndNode`, `AddValue`, `AddText`, `str` | none in the program | nesting, indentation past the table | the text is well formed up to the open nodes |
| TinyXML, POCO | third-party | | | | |

`PROJECT.json` lists the components with the modules that model them, and the
hazards at the lines where they bite.

## 2. The modules

| Module | Models | Composed with |
|---|---|---|
| `ModbusTcp` | what one single-register read makes of the bytes one `recv()` returned | extended by `PlcPoller` |
| `ChangeReport` | abstract: what a device object promises its listener | implemented by `PlcPoller`, assumed by `DevAccess` |
| `PlcPoller` | a device object of either class, its thread, its connection, the PLC and a caller of `Stop` | |
| `DevAccess` | the whole process from configuration to table rows, several devices | takes each device as `ChangeReport` |
| `ReadWriteExclusion` | abstract: a read/write lock | implemented by `RWLock` |
| `RWLock` | the lock with its guards | |
| `ModbusFrames` | requests and replies byte by byte, and the PLC's side of the protocol | extended by `ModbusClient` |
| `ModbusClient` | every public call of class `Modbus` against a PLC | |
| `WLogFiles` | the log directory, the list, change of file, cleaning, restarts | |
| `OSSem` | `COSSema`: the semaphore, the count, the steps of `PostN` and `Wait` | a part of `Libraries` |
| `SocketTimeout` | the calls with a time-out, against a peer | a part of `Libraries` |
| `SimpleLog` | `CSimpleLog` and `CSimpleWrite` objects with their shared counters | a part of `Libraries` |
| `XmlText` | class `SimpleXmlMaker` of `myXmlParse.cpp` | a part of `Libraries` |
| `Texts` | bytes and hexadecimal text, `SplitStr_x`, WLog's `MatchingString` | a part of `Libraries` |
| `StrUtilty` | the text functions of both families | a part of `Libraries` |
| `Libraries` | the six parts above side by side, each as it behaves by itself, and the inputs of the text functions | |
| `XmlTree` | `SimpleXMLParser` and `SimpleXMLMaker` over a tree | |
| `MC…` | the constants of the instances TLC checks | |
| `PlcPollerProofs`, `RWLockProofs`, `DevAccessProofs`, `ModbusClientProofs`, `WLogFilesProofs`, `XmlTreeProofs` | theorems about the module they extend | |
| `TextsProofs` | theorems about the operators of `Texts` and `StrUtilty` | |
| `LibraryProofs` | theorems about `SocketTimeout`, `OSSem`, `SimpleLog`, `XmlText` and `Libraries` | |

A definition marked "Variant" or "not the code" in its comment is a changed form of the one that
follows it; the specification does not use it. Each was used to see that a
property really does depend on the code it is about, and `PROJECT.json` pairs
them under `mutants`.

### PlcPoller

The thread's program counter `pc` has five places: `connect` (the outer loop's
`ModbusInit`), `check` (the test of `m_bStop`), `send` and `recv` (inside
`ModbusReadHoldingRegisters`), `emit` (the test of `Update`, the callback and
the sleep). A step ends where the thread can wait or reads the flag another
thread writes, so that every order of the thread, `Stop`, the network and the
PLC that the program can tell apart is a behaviour.

| Code | Action |
|---|---|
| `while (!ModbusInit(id)) Sleep(5000)` | `ConnectOk`, `ConnectFails`; where `ModbusConnect` asks for no socket (no host, no port, `InitSocket` fails) nothing changes, which is a stuttering step |
| `while (!m_bStop)` | `StartScan`, `LeaveLoop` (with `m_bStop = false` and the `memset` of `OldValue`) |
| `ModbusRead`, `ModbusSend` | `Send` |
| `ModbusReceive`, `ModbusErrorHandle`, the value, the comparison | `Receive`, `ReceiveError`, by `Store` and `ReadFailed` |
| `if (Update)`, `m_fn`, `Sleep(interval)` | `Emit` |
| `Stop` | `StopDevice` |
| outside the repository | `PlcWrite`, `PlcAnswer`, `PlcAnswerCut`, `RestArrives`, `PlcRefuses`, `PlcIgnores`, `PeerCloses`, `PeerResets` |

`Driver` chooses the class. The two share the loop. Where they differ, a
definition tests it: an exception ends a `Fx3u` scan and is swallowed by
`XinJie` (`ReadFailed`), and the event of a `XinJie` object carries a structure
it never filled (`Payloads`).

`lost` counts the sockets that `ModbusConnect` has overwritten: the old one is
not closed, whether it was up or dead.

`Disturbances` is the set of things a run lets happen (cut replies, refusals,
requests never answered, orderly close, reset, Stop). The PLC's register values come from `Vals`; `Junk`
stands for the number that the bytes of a header give when read as a value.

### DevAccess

`file` is what `ParseConf` finds on disk: which sections are there and the
device types in order. `main` walks through `DevManager::Start`. A device is in
one of two states: polling (`row[d] = 0`), where it raises events as
`ChangeReport` allows, or inserting row `row[d]` of its last event, because
`DoEventProcess` runs on its thread. All devices share the session. A statement
that fails ends the process, since `InsertData` catches `std::exception *` and
Poco throws objects. `InsertWild` is the read of `pSt` with a status it has no
entry for, whose outcome is left open: any text, or a fault.

### RWLock

The code between `EnterCriticalSection` and `LeaveCriticalSection` is one step.
`leaving` is the place between `LeaveCriticalSection` and
`WaitForSingleObject`, where a wake-up could be lost. `hEvent` is
manual-reset: `Wake` releases all that are blocked. The model is of the WIN32
branch; the other one hands everything to `pthread_rwlock`. `Owner` puts guards
in threads: two guards of one thread are nested scopes.

### ModbusFrames and ModbusClient

A request is the sequence of bytes the code builds, from a real address,
amount, values and transaction id. The PLC parses it by the protocol, serves or
refuses it (a read of more than 125 registers or 2000 bits too, which the class
lets through), and its reply is decoded as the code decodes it: out of a buffer of
260 bytes that starts zeroed. The amounts the class accepts (65535 registers, 2040
bits) reach past it, and when there is no answer to decode the code goes on into
what lies behind it on the stack; `ByteRead` takes those bytes from `stack`, any
of the contents in `Stacks`. What fresh memory from `new[]` holds (`ModbusWriteCoils` adds to it) is chosen from `HeapBytes`.
`ModbusConnect` and `ModbusClose` can come between any two calls, and
the connection can end at any moment (`LinkEnds`), before or after the PLC has
served the request. While it lasts a reply arrives whole; cut replies are
`PlcPoller`'s.

### WLogFiles

A file name is the second in which it was opened. `WriteLog` is
`LogData::WriteLog` in one step (it runs under `m_lock`): cleaning, change of
file, write, in this order. `vWriteLog` may write a second line, of system
information, under the same lock: `due`, `InfoLine`. `Start` and `End` are a
process's life; the directory outlives it. `Shortages` is by how much the free
space falls short of the reserve. Cleaning is written as "how many entries go":
`Surplus` for the loop on the number of files, `Taken` for the loop on space.
Any deletion can fail (`failing`, besides that of the open file, which always
does), and any write may get only a part of its line onto the disk: the code
looks at neither result. `undeleted` is a history variable, the names this
process took off its list without deleting them. `GetFileSize_` is taken to fail
only for a file that is gone.

### OSSem, SocketTimeout, SimpleLog, XmlText

These parts share no state, so `Libraries` puts them into one specification,
checked in one run: `subject` says which of them a behaviour is about, and the
others stand still. That each part is then what its own specification says is a
theorem (`PartsRun`).

- `OSSem`: the steps of a `PostN` are the raising of the count (`PostN`), the
  release (`Release`) or its failure (`ReleaseFails`) and the count taken back
  (`TakeBack`); those of a `Wait` are the semaphore (`WaitTakes`) and the count
  (`Lower`). A release that would exceed the maximum sleeps and tries again,
  which is `Release` not being enabled. `Long` is a `long`'s arithmetic, with
  `Limit` as its largest value and the semaphore's.
- `SocketTimeout`: one thread makes calls on one socket. A turn of the loop is
  one step: `SendSome`, `RecvSome`, `Fails` or `HalfSecond`. `iIndex` and
  `iCount` are the code's; `waits` counts the calls of `select`. On a blocking
  socket (one of `Connect`) a `send` that has begun stays inside the system
  until all is taken: `InsideSend`.
- `SimpleLog`: `g_iNum++` is two steps, `ReadNum` and `StoreNum`, because each
  object has a lock of its own and the counter is the class's. `Width` is the
  number of values of an `unsigned char`. `met` and `wrapped` record the two
  things that give one name to two objects of a process. `LogRestart` ends the
  process at any place of its calls and begins another in the same directory: the
  counters begin at 1 again, so its files empty those of the process before.
  `opened` is the files of the present process. A full disk takes a line or not
  (`PutLine`); that it may take a part of one is left out, and so is the wrap of
  `m_iFilesize`, an `int`, after 2 GiB.
- `XmlText`: a text is a sequence of lines, a line a kind, a title and an
  indentation. `base` is the indentation at which the present text began.

### Texts and StrUtilty

Pure functions as operators on sequences of characters. A loop of the code is a
recursive function over the places of a text (`SplitStr`, `HexstrToArray`) or
over the number of turns made (`ArrayToString`, `Behind`, `SplitParamStr`). Each
rule is an operator of the input: `HexRoundTrip(bytes, fmt)`,
`SplitRejoins(s, sep)` and so on. `Libraries` has one input for a behaviour;
`InputsAssumption` says what kinds of input there are, and TLC tries all short
ones over small alphabets (`MCInputs`), one initial state each.

- What a pattern means (`Glob`, the other systems' `fnmatch`) is said without an
  algorithm: each of its characters has a place in the name, one behind the
  other, and a star leaves room.
- Two of the rules say less than the names promise, because the code does.
  `FamiliesAgree` speaks of numbers only where no blank comes first. `PairRule` is
  about what a caller's strings or buffers hold afterwards: of an empty key or
  value what they held before, and the `char *` form never ends the value, whose
  terminator it puts into the key's buffer. A buffer is all its characters;
  `TextIn` is the text in it.

### XmlTree

A node is a number, `tree` gives its title and its items in order. A new element
is numbered from above all others, so from above its parent; `IsTree` says that,
and that every element has exactly one place. TinyXML gives the document itself
no title (`Empty`), which no path can name. A freed element leaves the function;
`Dangling` marks a current node that was freed, from which only calls with a path
from the document go on. `Below`, what goes with a node that is freed, is the
least set closed under children. A path is a sequence of steps (name,
index); taking one out of a text (`a:1/b`) is left out. `..` of a child of the
root leads to the document itself, cast to an element, as in the code. `_goto`
and `_create_mult_node` go along the path with a recursive function (`Walk`,
`MakeWay`), the loop that adds elements up to an index is `Grown`. The constants
have assumptions: names are not empty, nor `.` or `..`, and `Parse` succeeds on
trees. The TinyXML calls are modelled
as the code uses them. `crashed` ends a behaviour in which `UpdateValue` or
`EraseValue` was given a path that leads to no node (`/`), whose null pointer
they follow.

## 3. What is checked

| Run | Instance | Properties and what they show |
|---|---|---|
| `poller_fx3u` | Fx3u, 2 registers, values 0..2, 2 faults of any kind but cut, 1 register change, one Stop | `TypeOK`. `ReportedAtRest`: between scans the object's `OldValue` is what the listener was last told, however the scan ended. `ReadsTheRegister`: a stored value other than 0 was held by the register asked for since it was asked for, though the transaction id is never compared. `ReportsSpec`: implements `ChangeReport`. `StopReconnects`: every raised `m_bStop` ends in a new connection, so `Stop` does not stop. `Recovers`: a broken connection is replaced. `Converges`: on a connection that stays up, object and listener come to know the registers, with one exception it spells out (all registers 0 after a reconnection). `LostByFaults`: no more sockets are lost than there were faults and calls of `Stop`, however often the attempts to connect fail. |
| `poller_xinjie` | XinJie, values 0..1, 2 faults of any kind, cut included, 1 register change, one Stop | `OnlyStopReconnects`, `DeadReadsZero`: a dead connection is replaced only after somebody called `Stop`; until then every register reads as 0. `HeldUntilLost`: a thread whose request the PLC dropped waits until the connection ends, and `Stop` does not reach it. |
| `poller_cut` | Fx3u, one cut reply | **violation** of `ReadReturnsRegister`, see section 5. |
| `rwlock` | 3 guards in 3 threads, each read or write, `lock` or `try` | `LockInv` (counters exact, status exact, no lost wake-up), `ExclusionSpec` (implements `ReadWriteExclusion`), `Served` (who asks is served once the others stop coming back). No deadlock. |
| `rwlock_recursive` | 2 nested guards of a thread, 1 of another | **violation** of `RecursiveRead`. |
| `devaccess` | 6 configurations (2 complete, 4 with a section missing), up to 3 devices, 2 fields, events until the table has more than 2 rows | `WholeEvents`: a device's rows are its events, whole, in order, each field in its place, however the threads interleave and whenever the process ends. `ConfigGate`: nothing is started on half a configuration, and a complete one gives an object to each device that has a class and to no other. `NoSessionNoService`: with no database at the start, the first event ends the process. |
| `modbus` | 12 addresses around 256, 76 calls with amounts on both sides of a byte and of the 260-byte buffer, values in both bytes, rejected arguments, ids up to 65536, 3 calls, connecting and closing among them, and connections that end | `TypeOK` (each byte is a byte). `ReadsMatch`: a read that returns has the PLC's values in order; where a refusal or a closed connection passed for an answer, zeros as far as the buffer reaches. `NoStrayWrite`: nothing but the named table changes and only as asked. `DeadCallsRaise`: no call returns a result over a connection that is not there, although `_connected` stays true for ever. `MultipleWritesFail`: the two calls that write several values never succeed. |
| `modbus_refused_write` | single writes, a PLC that may be busy | **violation** of `WritesLand`. |
| `modbus_write_registers` | `ModbusWriteRegisters` only | **violation** of `WritesSucceed`. |
| `wlog` | 4 seconds, 1 to 3 files, limit 1, lines of 1 or 2 bytes, lists up to 5 entries, any restarts, any failing opens, writes and deletions | `Listed`: the list has every file of the directory but those this process could not delete, and `m_iLogSize` is never less than the open file. `SizeBound`. `OldestFirst`: an older file that stays is one that could not be deleted. `MinKept` and `CleanBounds`: the bounds of cleaning, with the exceptions the code has. `LostOnlyByName`: what is in a file stays until cleaning, except when two files are opened in one second. |
| `libraries` | 3 threads, a semaphore up to 2; 3 socket calls of 1 or 3 bytes, 0 or 1 second, a connection that holds 2 bytes; 2 `CSimpleLog` and 1 `CSimpleWrite` object, 6 lines in all, restarts, a disk that takes a line or not, a counter of 4 values; XML texts of 4 lines, indentations up to 9; all inputs of the text functions up to 5 characters, pairs into strings and buffers of 25 kinds | `CountCovers`: the count is the semaphore, the units of each post under way and one for each wait that has not lowered it yet, so a refused post leaves no trace. `InStep`: until a call returns -1 the callers were told what the socket moved, time-outs included. `InTime`: a call selects at most `2 * iSecond + 1` times and once for each byte. `Returns`: every call returns, except a send on a blocking socket. `LinesKept`: in a process an object's lines are in its own files, in the order it took them and none missing between, unless two objects drew their number at once or the counter wrapped; of the files of an earlier process it says nothing, they are overwritten. `OneLineFiles`: past its first file a `CSimpleLog` opens a file for each line. `Balanced`: XML text is well formed up to the open nodes, which are those of the stack, and indented by depth. `TextRules`: bytes written as hexadecimal text are read back in every format; split pieces give the text again; no file a pattern means is missed; what is trimmed stays trimmed; the two families agree where they can; parameters are read back, and pairs, except where the code leaves old text. |
| `xml` | 4 calls with 9 paths (absolute, relative, through `..`, with an index of 1 and of -1), 2 titles, 2 values, 4 starting documents, trees of up to 4 elements | `AddedIsFound`: a path that `AddNode` made is found, and made only once. `UpdatedIsRead`: after `UpdateValue` the value is read at its path, alone. `LoopMeetsIndex`: the loop of the header over siblings visits what the indexes 0, 1, … lead to. `DownwardIsSound`: only `Parse`, a path from the document or a path through `..` can leave the current node freed. |

### Bounds and why they are enough

- **poller**: two registers, because a reply can then belong to a register other
  than the one it is stored for, and a scan can end between them. Three values
  tell "0", "changed" and "changed again" apart. Two faults give a fault during
  the recovery from another. The bounds are `MaxFaults` and `MaxWrites`; nothing
  else is bounded, the behaviours are infinite.
- **rwlock**: three guards give a holder, a waiter, and one that comes between a
  waiter's `LeaveCriticalSection` and its wait; the theorems cover any number.
- **devaccess**: two fields give a first and a last row; `MaxRows` lets two
  devices each be in the middle of an event and one begin another.
- **modbus**: addresses 250..261 make the high byte of an address matter, bit
  amounts 7, 8, 9 and 12 cross a byte. Ids 1 and 65535 are followed by 2 and
  65536, which does not fit the field. 125 and 126 registers, 2008 and 2009 bits
  are the last read from within the buffer of a reply and the first from behind
  it, 2040 bits the most that is accepted.
- **wlog**: four seconds allow one file more than `MaxFiles` and a cleaning
  after it; the deletion of any of the files it takes can fail, so that older
  files stay among younger ones that go. `MaxList` bounds a list that restarts within one second would let
  grow.
- **libraries**: a semaphore of 2 with posts of 2 makes releases wait, and the
  count pass the largest `long`. Three bytes over a connection that holds two
  make every transfer a partial one at some time. A counter of four values
  wraps within three objects' files; `FileLimit` 1 reaches the second file with
  the third line, and six lines the third file, or the second after a restart. Seven is the last indentation of the table, so texts start
  at 6 as well.
- **xml**: an index of 1 makes elements on the way; three children of a node
  and two levels below let a current node be freed from above. `LongestPath` is
  the most elements one path adds, so that a call is looked at before
  `MaxNodes` ends the behaviour.

### Fairness

- `PlcPoller!FairSpec`: weak fairness of the thread's own actions (the operating
  system schedules it; `Sleep` ends), of a successful connection (the code tries
  for ever; the liveness properties are about a PLC that is there) and of a live
  PLC's answer (`recv` has no timeout, so nothing can be promised without it).
  Faults, register changes and `Stop` have none. Each liveness property about a
  state of the connection has that state as its premise.
- `RWLock!FairSpec`: a thread that can take its next step in the lock does, and
  a thread leaves the scope of a guard it holds. Nobody has to construct one.
- `DevAccess!FairSpec`: `main` and the inserting threads run, and the database
  answers, well or badly. Raising events has no fairness.

- `Libraries!FairSpec`: a socket call takes its next step, since `select`
  returns after half a second at most. Not assumed: that the peer ever sends,
  takes or closes.

Deadlock is checked for the Fx3u poller and for the lock with a guard per thread.
It is not checked where the system stops by design (`DevAccess`: the process
ends) or where the bound ends the behaviours (`ModbusClient`: `MaxCalls`;
`WLogFiles`: `MaxTime`; the libraries and `XmlTree`: their calls), nor in
`rwlock_recursive`, whose subject it is, nor in `poller_xinjie`, where a PLC
that never answers stops the thread.

### Deviations the properties spell out

Where the code does less than one would expect, the property says exactly how
much, and the run shows that nothing else goes wrong: `Converges` (all registers
0), `OnlyStopReconnects`, `MultipleWritesFail`, `MinKept`, `LostOnlyByName`,
`CleanBounds`, `LinesKept`, `OneLineFiles`, `ReadsMatch`, `PairRule`,
`FamiliesAgree`, `DownwardIsSound`.

## 4. What is proved

TLAPS checks every proof with no step left out.

`PlcPollerProofs` — for any number of registers, any values, any bound on
faults and register changes:

- `TypeCorrect`: `Spec => []TypeOK`, both classes.
- `ScanInvariant`, `ReportedAtRestHolds`, `ImplementsChangeReport`, for
  `Driver = "Fx3u"`. `ReportedAtRest` says nothing of the middle of a scan, so
  it is not inductive. `ScanInv` is: in a scan the registers from `i` on are
  still as the listener knows them, and `Update` is true exactly if one before
  `i` is not. A failed read jumps from any `i` to `emit`, where both together
  give `Update <=> OldValue # ` baseline; `Emit` then re-establishes equality.
  The same invariant makes each `Emit` a `Report` of the abstract
  specification. For XinJie these do not hold: the event's data are not
  `OldValue`.
- `StreamInvariant`, `ReadsTheRegisterHolds`, for `"cut" \notin Disturbances`.
  `StreamInv` says that a read in progress has at most one request or one
  answer under way, of a value in `held`, and between reads nothing is under
  way; this is why order alone suffices to match replies with requests. A
  single cut breaks it, which run `poller_cut` shows.
- `SocketInvariant`, `LostByFaultsHolds`, both classes. That the lost sockets
  are at most the faults and stops is not inductive: a fault is counted several
  steps before the socket is overwritten. `SocketInv` adds one for a socket that
  is about to be replaced and one for a reason to replace it that is still under
  way (a raised flag, an error not read yet): each has been paid for.
- `OnlyStopReconnectsHolds` for `Driver = "XinJie"`: with nobody asking, `m_bStop`
  stays false and `connect` is the place of the first connection only.
- `HeldUntilLostHolds`, both classes.

`RWLockProofs` — for any finite set of guards and any placing of guards in
threads:

- `LockInvariant`: `TypeOK` and `LockInv`. The counters are cardinalities of
  sets of guards, so each action has a lemma that says which sets it changes
  and by whom. `LockInv` is inductive with `TypeOK`.
- `ImplementsExclusion`: each action maps to an `AcquireRead`, `AcquireWrite`,
  `Release` or a stutter.

`WLogFilesProofs` — for any limits, intervals, line sizes and times:

- `SizeInvariant`, `SizeBoundHolds`: `m_iLogSize` is at least the size of the open
  file, writes that failed included, over changes of file, cleaning (which may remove the open file's entry but not
  the file in use), failing opens and restarts; from this a file passes the
  limit by its last call only.
- `LostOnlyByNameHolds`: a file shrinks only by a second opening in the second
  that named it.
- `OrderInvariant`, `ListedHolds`, `OldestFirstHolds`, `MinKeptHolds`,
  `CleanBoundsHolds`, under `MinFiles > 0`. The program has 5
  (`dev_accesss/src/dev_manager.cpp:6`); with 0, cleaning could take the open
  file's own entry off the list. Which deletions fail, and how much of a line is written,
  is any choice. `OrderInv` says what `Listed` leaves out: the
  list is in the order of time, the open file comes last, and no name stands in
  it twice unless one was given twice. So the first `k` entries, which cleaning
  takes, are the oldest, and what is left can be counted. A start reads the list
  from the directory anew, for which every finite set of names must have a
  sorted list (`CanBeListed`); the number of entries taken is a least one
  (`TakenBounds`). Such inductions are done with the least element of a set of
  numbers (`Least`, `Induct`), since the library's induction theorems take an
  operator for a parameter.

`DevAccessProofs` — for any set of configurations, any number of fields and
devices, any bound on the table:

- `TableInvariant`, `WholeEventsHolds`. `WholeEvents` looks at one device's rows
  within a table several threads append to. The lemma `RowsOfAppend` says that
  a row of another device leaves them alone; `Inserted` ties the number of a
  device's rows to `row[d]`, the place in the event it is inserting.
- `ConfigGateHolds`, by `Started`: what was created is what the whole
  configuration names.

`ModbusClientProofs` — for any operations, tables, ids, heap contents and
exception codes. `ClientAssumption` says what callers may give (addresses and
amounts that are not negative, one word to be written by a single write, one
value for each register or coil of a multiple one), that
connections end with `fin` or `rst`, and that no exception code is 0;
`ContentsAssumption` that tables hold words and bits, ids are numbers, codes and
fresh memory and what lies behind a reply's buffer bytes. Arguments the calls
reject are among them.

- `DeadCallsRaiseHolds`: an answer exists only on a connection that was up when
  it was given (`CallInv`).
- `MultipleWritesFailHolds`: for an amount of `a` registers byte 5 holds
  `(5 + 2a) % 256`, the bytes after it are `7 + 2a`; coils are one short. The
  lemma `NeverWellFormed` shows it from the concatenations the request is made
  of; `Unanswered` carries it to the PLC, `RefusedWrite` to the caller, who must
  find the function code with its high bit in byte 7 of the refusal.
- `NoStrayWriteHolds`: `WordBack` and `ShortRequest` say that the bytes an
  address and a value are split into give them back to the PLC, `ServedAsMeant`
  that what it then does is what the caller meant, `AnswerCode` that its echo is
  not taken for an error. `Asked` and `Answered` tie the tables to the call
  between its sending and its return, of which `NoStrayWrite` says nothing;
  multiple writes are left to the invariant before.
- `TypeOKHolds`: every byte of a request and of a reply is one. `RequestBytes`
  goes through the four kinds of request, `WriteCoils`' additions to fresh memory
  included.
- `ReadsMatchHolds`: a read gives back the table, through two conversions each
  way. `WordBack` gives the PLC the address and the amount, `DataReply` places
  the data in the reply, `WordsPlaces` and `PackedBits` say that word and bit `k`
  are found where the code looks for them; a bit for every one of the 256 sums of
  eight bits (`OctetDigit`). `Turned` and `Served` are what an answer is between
  the PLC and `recv()`. That a reply's length fits its one byte of count rests on
  the protocol's limits, 125 registers and 2000 bits; the class checks others. The
  same limits keep what is decoded within the buffer, so that it does not depend
  on the stack; `NothingIn` says how far an answer that is none reads as zeros.

`LibraryProofs` — for any number of calls and threads:

- `InStepHolds`, `InTimeHolds`, for times in `Nat` and lengths in `Nat \ {0}`
  (`Arguments`) and any capacity of the connection. The invariant ties what the
  socket moved in this call to `iIndex` (`UnderWay`), and the half seconds to
  `iCount`; `waits` is then at most the bound and the bytes moved.
- `CountCoversHolds`, for any finite set of threads, any units and any largest
  `long`. The property is a sum over the threads; each step changes the share of
  one thread, and the count or the semaphore, by the same amount.

- `BalancedHolds`, for any titles and indentations (`Ints`) and texts of any
  length. `Opened` reads a text with a recursive function. Instead of an
  induction over the text, the invariant speaks of every function with this
  recurrence: there is one, and each ends with the tags of the stack. A step adds
  a line, and so a value, to each (`OneMore`).

- `LinesKeptHolds`, `OneLineFilesHolds`, for any number of objects, lines and
  limits (`Sizes`: an `unsigned char` has more than one value, an object is of
  one class). `LogInv` says nothing once two objects have
  drawn a number at once or a counter has wrapped, since then the code promises
  nothing (`Apart => Good`). Until then the numbers drawn are all different and
  below the counter (`Numbers`), files under a number belong to its object
  (`Owned`), and `LineCounts` ties the size counted to what a log's files can hold. In each file
  lines follow one another (`InARow`), the last line of an open file is the last
  its object wrote (`LastLines`), later files have later lines (`InOrder`), and each
  line is in some file (`NoneMissing`). A restart gives `Begun`, the state of `LogInit` but for what is on
  the disk, which nothing of this is about: only files in `opened` are.

- `TextRulesHold`: the input never changes, and it is one that `IsInput`
  describes; the rule for its kind is one of the theorems below.
- `PartsRun`, `LibrariesHold`: a step of `Libraries` is a step of one part and
  leaves the others alone, so the theorems about the parts are theorems about the
  specification that the run checks.

`TextsProofs` — for texts of any length over any set of characters, any
separators, keys and counts above 0:

- `HexRoundTripHolds`, `SplitRejoinsHolds`, `MatchCoversGlobHolds`,
  `TrimRuleHolds`, `PairRuleHolds`, `FamiliesAgreeHolds` and `ParamRuleHolds`, one
  for each of the rules. `PairRuleHolds` is for any contents of the caller's strings
  and buffers; a text in a buffer is what stands before its first terminator
  (`TextInIs`), and the two copies and the two terminators are followed through
  the buffers one by one (`CopiedIs`, `ValueAgrees`, `KeyAgrees`).
- The definitions are recursive functions, of which nothing is known before it is
  shown that there is a function with such a recurrence. `Solved` shows it for
  every rule that gives a value from the values at lower ranks, without the
  library's induction theorems (whose parameter is an operator): what holds up to
  a rank is a set of numbers, and `Induct` is the induction over it.
- `HexRoundTripHolds`: what is written is a chain of parts, and each part stands
  in the whole where those before it end (`ChainStands`); reading at such a place
  gives the byte and goes on at the next (`ReadsByte`).
- `SplitRejoinsHolds`: from the last place to the first, the pieces from a place on
  hold no separator and give the rest of the text again (`RejoinsStep`).
  `ParamRuleHolds` needs the converse as well: a text is the join of only one list
  of pieces without the separator (`JoinedOnce`), so what was joined is what is
  split (`ReadBack`).
- `MatchCoversGlobHolds`: a piece between two stars stands in the name as it
  stands in the pattern, since there each place is one behind the last.
- `FamiliesAgreeHolds`: both forms look for the end of the line from the same place;
  the digits in front of a line are those in front of the text from there, since
  a CR ends both (`SameNumber`).

`XmlTreeProofs` — for any names, texts, documents and paths that satisfy the
assumptions, any order of calls and any bounds:

- `TreeHolds`: `TreeInv`, that the document is a tree and the current node one of
  its elements, none, or `Dangling`. Every operation on paths is defined only on
  a tree, so all the other theorems need it. `LinkTree`, `ClearTree` and
  `RemoveTree` show that the three changes keep it: what is freed is closed under
  children, and the only item left that could name a freed element is the one
  removed.
- `LoopMeetsIndexHolds`: the list of siblings of a name has each element once;
  cut at the place of one of them, what remains is the list that `Next` looks at
  (`Split`, `AfterIs`).
- `AddedIsFoundHolds`: making a path only appends, so the list of a name at a node
  keeps what it began with (`Extends`), and each step already made is found again
  in the larger tree (`FindAgain`, `MadeIsFound`). The invariant says of a call
  just made what the property says; only the next call can disturb it.
- `UpdatedIsReadHolds`: on a way down numbers only grow, and all that is below a
  node has larger numbers than it; so clearing the end of a path leaves the way to
  it (`WalkDown`, `LeadsSame`). A node that was made for the update has no other
  children (`MadeIsEmpty`).
- `DownwardIsSoundHolds`: a node reached without `..` is the current node or has a
  larger number than it, so the current node is never below it.

Recursive functions over a path or a list of items are handled one step at a time
(`Folded`, `InductSeq`); no theorem says what they compute in closed form.

Assumptions are those of the modules (`ValsAssumption`, `PollerAssumption`,
`GuardsAssumption`, `LogAssumption`, `DevAccessAssumption`,
`FramesAssumption`, `ClientAssumption`, `ContentsAssumption`, `SemaAssumption`,
`NamesAssumption`, `PathsAssumption`, `DocumentsAssumption`, `InputsAssumption`); they say what kind of value a constant is, and `ClientAssumption` what callers give. TLC evaluates each of them. What a
theorem needs beyond them is in its statement.

Only model-checked is all liveness, out of TLAPS's reach with its installed back
ends: `StopReconnects`, `Recovers`, `Converges` and `DeadReadsZero` of the pollers,
`NoSessionNoService` of the process, `Served` of the lock and `Returns` of the
socket calls.

## 5. Where code and words part

- `poller_cut`: `ModbusReceive` takes what one `recv()` returned for a whole
  reply. A reply cut in two is stored as 0, and its rest stands in front of the
  next reply. Every later value is misframed until a reconnection.
- `rwlock_recursive`: `RWLock.h:24` calls the read lock recursive. A writer that
  comes between two read locks of one thread blocks both for ever.
- `modbus_refused_write`: `ModbusWriteRegister` looks for the error code of
  `WRITE_COIL`; a refused register write returns as if done.
- `modbus_write_registers`: the length field of a multiple-register write is two
  too small; a PLC that checks lengths refuses every one.

The program itself uses only `ModbusReadHoldingRegisters` and does not nest read
locks; all but the first concern the libraries as they are offered.

Seen while modelling, with no run of their own (the models either follow the code
or leave the case out, as said):

- `SocketAPI.h:82` gives `RecvWithTimeout` a time in seconds. Each half second
  without data counts, data in between do not: a peer that sends a byte at a
  time makes the call take longer (`InTime` counts these).
- `SendWithTimeout` on a blocking socket may stay in `send` for ever
  (`Returns` excepts it).
- `ConnectWithTimeout` and `Bind` return without closing the socket when a step
  after its creation fails (`SocketAPI.cpp:262-265`).
- `SimpleXmlMaker.h:237`, `250` and `264-268` say that values added twice are
  merged; `GetValue` reads the first text only.
- `UpdateValue` and `EraseValue` follow a null pointer for a path to the root's
  parent, and leave `m_currNode` on a freed element if the path is above it
  (`crashed` and `Dangling` in `XmlTree`).
- `_Template_HexstrToArray` reads past the terminator if the text ends in half a
  byte; inputs of `Texts` have whole bytes.
- `GetKeyAndValueFromStr` (`StrUtilty.cpp:303`) terminates the key's buffer where
  it means the value's: the value is followed by what its buffer held, and a key
  longer than the value is cut (past the end of a key's buffer shorter than the
  value the terminator goes behind it). Both forms leave a caller's old text where
  key or value is empty, and return true.
- The reads of class `Modbus` accept amounts whose answer no buffer of
  `MAX_MSG_LENGTH` (260) holds; after a refusal with an unknown code, or once the
  PLC has closed, they give what lies behind it on the stack (`ReadsMatch`).
- WLog ignores failed deletions (`wLog.cpp:463`, `476`) and writes (`506`): a file that
  could not be deleted is off its list until the next process (`CleanBounds`).
- A process that starts again overwrites the simple logs of the one before
  (`CSimpleLog.cpp:7`, `79`).
- `GetNumberFromStr` (`StrUtilty.cpp:152`) counts the blanks at the front of the
  whole text and skips as many at the place it has found.
  `StringUtilty`'s `StrTrim` changes no text, so its number reader finds only
  numbers that blanks follow. `FamiliesAgree` says for which texts the families
  agree.

## 6. Not modelled

- Third-party code: TinyXML (six files) and POCO (headers and binaries). They are
  nearly all the lines of the repository. What the program's code needs of them is
  modelled as external, from how the code uses it; so the mapped
  lines are a small part of the repository's, and most of those of its own code.
- The text of log lines, SQL statements and events (timestamps, device names),
  `GBKToUTF8` and the other conversions of encodings, which are system calls: no
  property is about them.
- A race inside the ODBC session two threads share: a statement is one step.
- What a snapshot whose registers changed during its scan should be: the code
  reads one register after the other and promises nothing of them together.
- The end of a process by a read far behind the buffer of a Modbus reply.
- `DevManager::Stop` and `XinJieXc3::GetCompressiveStrength`, which nothing
  reaches.
- `Bind`, `Accept`, `SendTo`, `RecvFrom`, `InitSocket`: each hands its arguments to
  one system call and keeps nothing.
- The readers of `SimpleXMLParser` that turn a text into a number or a date,
  `AddComments`, `SaveToFile`, the bool readers and `GetLastValueFromStr` of the
  string helpers: they repeat what is modelled, with another conversion.
- `CStackLog`, which is compiled only under `_CSIMPLE_LOG_STACK`; the branches for
  other systems than Windows, which the project does not build.
- The wrap of `GetTickCount` after 49.7 days in `WLog`: `CleanInterval` and
  `InfoInterval` are compared with differences of a clock that does not wrap.

## 7. Plan

All parts of the program's own code have a module, every safety property that
holds has a theorem, and liveness is model-checked. What could be added: theorems
about `SplitStr` with separators of several characters, where the code starts the
next piece inside the separator, and the conversions of section 6.

Modules to be proved about use folds and recursive functions only.
