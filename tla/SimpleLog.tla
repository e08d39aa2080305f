----------------------------- MODULE SimpleLog -----------------------------
(* CSimpleLog and CSimpleWrite of common/wLog: objects that each write a     *)
(* file of their own, named after a number drawn from a counter of the class.*)
(* The lock of a CSimpleLog is its own, the counter g_iNum is shared by all  *)
(* objects and an unsigned char: g_iNum++ reads it in one step and stores it *)
(* in another.  Files are opened with "w" ("wb"), which empties one that is  *)
(* there.  Each object is used by one thread at a time.  The counter is in    *)
(* memory: a process that starts again draws the same numbers again.          *)
EXTENDS Integers, SequencesExt

CONSTANTS
    Logs,       \* CSimpleLog objects
    Writes,     \* CSimpleWrite objects
    Width,      \* values of an unsigned char, 256 in the code
    FileLimit,  \* size, in lines, above which PrintfV closes the file (50 MB)
    LogCalls    \* lines the objects are given together

Objects == Logs \cup Writes
Class(o) == IF o \in Logs THEN "CSimpleLog" ELSE "CSimpleWrite"
None == -1      \* m_iId of a CSimpleLog before its first file
Closed == <<>>  \* no file open

VARIABLES
    g_iNum,     \* class -> its counter
    at,         \* object -> where its call is
    seen,       \* object -> the counter as it read it
    m_iId,      \* object -> the number it drew
    m_iNum,     \* object -> files opened after the first
    m_iFilesize,\* object -> lines written to all its files
    g_file,     \* object -> the file it has open
    disk,       \* file -> the lines it holds, <<object, number>>
    logCalls,   \* lines the objects were given
    lines,      \* object -> lines it wrote
    opened,     \* files this process has opened
    met,        \* two objects were between reading and storing a counter
    wrapped     \* a counter passed its largest value
own == <<seen, m_iId, m_iNum, m_iFilesize, g_file>>
logVars == <<g_iNum, at, own, disk, logCalls, lines, opened, met, wrapped>>

LogInit ==
    /\ g_iNum = [c \in {"CSimpleLog", "CSimpleWrite"} |-> 1]
    /\ at = [o \in Objects |-> "idle"]
    /\ seen = [o \in Objects |-> 0]
    /\ m_iId = [o \in Objects |-> None]
    /\ m_iNum = [o \in Objects |-> 0]
    /\ m_iFilesize = [o \in Objects |-> 0]
    /\ g_file = [o \in Objects |-> Closed]
    /\ disk = [f \in {} |-> <<>>]
    /\ logCalls = 0
    /\ lines = [o \in Objects |-> 0]
    /\ opened = {}
    /\ met = FALSE
    /\ wrapped = FALSE

\* The process ends, wherever its calls are, and is started again in the same
\* directory.
LogRestart ==
    /\ g_iNum' = [c \in {"CSimpleLog", "CSimpleWrite"} |-> 1]
    /\ at' = [o \in Objects |-> "idle"]
    /\ seen' = [o \in Objects |-> 0]
    /\ m_iId' = [o \in Objects |-> None]
    /\ m_iNum' = [o \in Objects |-> 0]
    /\ m_iFilesize' = [o \in Objects |-> 0]
    /\ g_file' = [o \in Objects |-> Closed]
    /\ lines' = [o \in Objects |-> 0]
    /\ opened' = {}
    /\ met' = FALSE
    /\ wrapped' = FALSE
    /\ UNCHANGED <<disk, logCalls>>

Moves(o, from, to) == at[o] = from /\ at' = [at EXCEPT ![o] = to]

\* PrintfV and write: the file that is open is written to; without one
\* _create_file numbers it first.  A CSimpleLog keeps its number for good and
\* counts its files, a CSimpleWrite draws a number each time.
Call(o) ==
    /\ logCalls < LogCalls
    /\ logCalls' = logCalls + 1
    /\ \/ g_file[o] # Closed /\ Moves(o, "idle", "print") /\ UNCHANGED m_iNum
       \/ /\ g_file[o] = Closed
          /\ o \in Writes \/ m_iId[o] = None
          /\ Moves(o, "idle", "draw")
          /\ UNCHANGED m_iNum
       \/ /\ g_file[o] = Closed
          /\ o \in Logs /\ m_iId[o] # None
          /\ Moves(o, "idle", "open")
          /\ m_iNum' = [m_iNum EXCEPT ![o] = @ + 1]
    /\ UNCHANGED <<g_iNum, seen, m_iId, m_iFilesize, g_file, disk, lines, opened, met, wrapped>>

\* g_iNum++ reads the counter ...
ReadNum(o) ==
    /\ Moves(o, "draw", "store")
    /\ seen' = [seen EXCEPT ![o] = g_iNum[Class(o)]]
    /\ met' = (met \/ \E p \in Objects \ {o} : Class(p) = Class(o) /\ at[p] = "store")
    /\ UNCHANGED <<logCalls, g_iNum, m_iId, m_iNum, m_iFilesize, g_file, disk, lines, opened, wrapped>>

\* ... and stores it, one higher or 0 again
StoreNum(o) ==
    /\ Moves(o, "store", "open")
    /\ g_iNum' = [g_iNum EXCEPT ![Class(o)] = (seen[o] + 1) % Width]
    /\ seen' = [seen EXCEPT ![o] = 0]
    /\ m_iId' = [m_iId EXCEPT ![o] = seen[o]]
    /\ wrapped' = (wrapped \/ seen[o] + 1 = Width)
    /\ UNCHANGED <<logCalls, m_iNum, m_iFilesize, g_file, disk, lines, opened, met>>

File(o) == <<Class(o), m_iId[o], m_iNum[o]>>

\* what fopen leaves of the files
Emptied(file) == [f \in DOMAIN disk \cup {file} |-> IF f = file THEN <<>> ELSE disk[f]]

\* not the code: every object opens the one name of its class
OpenUnnumbered(o) ==
    /\ Moves(o, "open", "print")
    /\ g_file' = [g_file EXCEPT ![o] = <<Class(o), 0, 0>>]
    /\ disk' = Emptied(<<Class(o), 0, 0>>)
    /\ opened' = opened \cup {<<Class(o), 0, 0>>}
    /\ UNCHANGED <<logCalls, g_iNum, seen, m_iId, m_iNum, m_iFilesize, lines, met, wrapped>>

\* fopen makes the file or empties it.  When it fails the call returns with
\* nothing written; the number drawn, or the file counted, is used up.
Open(o) ==
    \/ /\ Moves(o, "open", "print")
       /\ g_file' = [g_file EXCEPT ![o] = File(o)]
       /\ disk' = Emptied(File(o))
       /\ opened' = opened \cup {File(o)}
       /\ UNCHANGED <<logCalls, g_iNum, seen, m_iId, m_iNum, m_iFilesize, lines, met, wrapped>>
    \/ /\ Moves(o, "open", "idle")
       /\ UNCHANGED <<logCalls, g_iNum, own, disk, lines, opened, met, wrapped>>

\* not the code: the size starts again with each file
PutLineStartsAnew(o) ==
    /\ Moves(o, "print", "idle")
    /\ lines' = [lines EXCEPT ![o] = @ + 1]
    /\ disk' = [disk EXCEPT ![g_file[o]] = Append(@, <<o, lines[o] + 1>>)]
    /\ m_iFilesize' = [m_iFilesize EXCEPT ![o] = IF @ = FileLimit THEN 0 ELSE @ + 1]
    /\ g_file' = IF o \in Logs /\ m_iFilesize[o] = FileLimit
                 THEN [g_file EXCEPT ![o] = Closed]
                 ELSE g_file
    /\ UNCHANGED <<logCalls, g_iNum, seen, m_iId, m_iNum, opened, met, wrapped>>

\* The line goes to the file and is flushed; one that a full disk does not take
\* is lost, and counted in the size all the same.  The size counted is that of all
\* the files of the log: once it is over the limit every line closes its file.
PutLine(o) ==
    /\ Moves(o, "print", "idle")
    /\ \/ /\ lines' = [lines EXCEPT ![o] = @ + 1]
          /\ disk' = [disk EXCEPT ![g_file[o]] = Append(@, <<o, lines[o] + 1>>)]
       \/ UNCHANGED <<lines, disk>>
    /\ m_iFilesize' = [m_iFilesize EXCEPT ![o] = @ + 1]
    /\ g_file' = IF o \in Logs /\ m_iFilesize'[o] > FileLimit
                 THEN [g_file EXCEPT ![o] = Closed]
                 ELSE g_file
    /\ UNCHANGED <<logCalls, g_iNum, seen, m_iId, m_iNum, opened, met, wrapped>>

LogNext ==
    \/ \E o \in Objects : Call(o) \/ ReadNum(o) \/ StoreNum(o) \/ Open(o) \/ PutLine(o)
    \/ LogRestart

LogSpec == LogInit /\ [][LogNext]_logVars

\* The lines an object wrote in this process are in files of its own, in the
\* order it took them, none missing and none of another object between them: in
\* each file one after the other, and in a later file of a log the later lines.
\* This as long as no two objects drew their numbers at the same time and no
\* counter wrapped: else two objects have a name in common, and the one opened
\* later empties it.  Of the files of an earlier process nothing is said: g_iNum
\* begins at 1 again, and a file opened under a name of theirs empties it.
LinesKept ==
    ~met /\ ~wrapped =>
        /\ \A f \in opened : \A i \in 1..(Len(disk[f]) - 1) :
               disk[f][i + 1] = <<disk[f][i][1], disk[f][i][2] + 1>>
        /\ \A f, g \in opened : \A i \in DOMAIN disk[f], j \in DOMAIN disk[g] :
               disk[f][i][1] = disk[g][j][1] /\ f[3] < g[3] => disk[f][i][2] < disk[g][j][2]
        /\ \A o \in Objects : \A n \in 1..lines[o] :
               \E f \in opened : Contains(disk[f], <<o, n>>)

\* Only the first file of a log, of those a process opens, holds more than one
\* line: it takes lines until it is over the limit, and the size is not set back,
\* so each file after it is closed again with the line it was opened for.
OneLineFiles ==
    ~met /\ ~wrapped =>
        \A f, g \in opened :
            f[1] = "CSimpleLog" /\ f[2] = g[2] /\ g[1] = f[1] /\ f[3] < g[3]
                => Len(disk[f]) <= FileLimit + 1 /\ Len(disk[g]) <= 1
=============================================================================
