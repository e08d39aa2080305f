------------------------------ MODULE WLogFiles ------------------------------
(***************************************************************************)
(* The files of WLog (wLog.cpp).  A line goes through cleaning, a change   *)
(* of file and the write, under m_lock.  A file is named after the second  *)
(* it was opened in, so a name is a time here, and the directory lists the *)
(* names in the order of time.  The program may end and start again at any *)
(* moment; only the files remain.                                          *)
(***************************************************************************)
EXTENDS Integers, Sequences, SequencesExt, FiniteSetsExt

CONSTANTS
    MinFiles, MaxFiles,   \* m_iMinFiles, m_iMaxFiles
    FileLimit,            \* m_file_bytes_limit
    CleanInterval,        \* CLEAN_TIME_INTERVAL, in seconds
    InfoInterval,         \* seconds between two lines of system information
    LineSizes,            \* bytes of a line
    Shortages,            \* what the disk may lack of the reserve, 0 for nothing
    MaxTime,              \* bound on the clock
    MaxList               \* bound: a list this long gets no more lines

ASSUME LogAssumption ==
    /\ MinFiles \in Nat /\ MaxFiles \in Nat /\ FileLimit \in Nat
    /\ CleanInterval \in Nat /\ InfoInterval \in Nat
    /\ LineSizes \subseteq Nat \ {0} /\ Shortages \subseteq Nat
    /\ MaxTime \in Nat \ {0} /\ MaxList \in Nat

VARIABLES
    now,       \* the time, in seconds
    disk,      \* the log directory: the size of each file
    running,   \* the process is up and has called WLogInit
    list,      \* m_FileList
    count,     \* m_iFileCount
    fd,        \* m_FileFD: the name of the open file
    size,      \* m_iLogSize
    cleaned,   \* m_lCleanTick
    informed,  \* g_last_printfsystem_time
    due,       \* a thread holds m_lock, its line of system information is next
    clash,     \* history: a file was opened under a name already in use
    undeleted  \* history: names this process took off the list and could not delete

files == <<list, count, fd, size, cleaned, undeleted>>
vars == <<now, disk, running, files, informed, due, clash>>

Times == 1..MaxTime
Closed == 0
Absent == -1
\* The first line of a process is followed by one of system information.
Never == -(InfoInterval + 1)

InUse == {n \in Times : disk[n] # Absent}

Init ==
    /\ now = 1 /\ disk = [n \in Times |-> Absent]
    /\ running = FALSE /\ list = <<>> /\ count = 0
    /\ fd = Closed /\ size = 0 /\ cleaned = 0
    /\ informed = Never /\ due = FALSE
    /\ clash = FALSE /\ undeleted = {}

------------------------------------------------------------------------------
(* Variant: the directory is not searched when the process starts.         *)
SearchNothing == <<>>

(* SerarchLogsByDir: the directory gives its files in the order of names.  *)
SerarchLogsByDir ==
    CHOOSE found \in [1..Cardinality(InUse) -> InUse] :
        \A j, k \in DOMAIN found : j < k => found[j] < found[k]

(* WLogInit in a new process.                                              *)
Start ==
    /\ ~running /\ running' = TRUE
    /\ list' = SerarchLogsByDir /\ count' = Len(list')
    /\ fd' = Closed /\ size' = 0 /\ cleaned' = 0
    /\ informed' = Never /\ due' = FALSE /\ undeleted' = {}
    /\ UNCHANGED <<now, disk, clash>>

(* The process ends, between two lines or before the information line.     *)
End ==
    /\ running /\ running' = FALSE
    /\ list' = <<>> /\ count' = 0
    /\ fd' = Closed /\ size' = 0 /\ cleaned' = 0
    /\ informed' = Never /\ due' = FALSE /\ undeleted' = {}
    /\ UNCHANGED <<now, disk, clash>>

Tick ==
    /\ now < MaxTime
    /\ now' = now + 1
    /\ UNCHANGED <<disk, running, files, informed, due, clash>>

------------------------------------------------------------------------------
(* CleanFile_                                                              *)
CleaningDue == now - cleaned > CleanInterval

(* Variant: a list of m_iMaxFiles is not yet too long.                     *)
SurplusLate == IF count > Max({MaxFiles, MinFiles}) THEN count - Max({MaxFiles, MinFiles}) ELSE 0

(* The files its first loop takes off the list: down to one less than      *)
(* m_iMaxFiles, but not below m_iMinFiles.                                 *)
Surplus ==
    LET keep == Max({MaxFiles - 1, MinFiles})
    IN  IF count > keep THEN count - keep ELSE 0

(* The entries, besides those of the open file, whose deletion fails when  *)
(* their turn comes.                                                       *)
Failing == SUBSET {j \in 1..Len(list) : CleaningDue /\ list[j] # fd}

(* GetFileSize_ of an entry when its turn comes: 0 if the same name was    *)
(* deleted under an earlier entry.                                         *)
SizeAt(j, failing) ==
    IF disk[list[j]] = Absent \/ (list[j] # fd /\ \E h \in (1..(j - 1)) \ failing : list[h] = list[j])
      THEN 0 ELSE disk[list[j]]

Freed(from, to, failing) ==
    SumFunctionOnSet([j \in 1..Len(list) |-> SizeAt(j, failing)], from..to)

(* Variant: the second loop goes on until the list is empty.               *)
TakenToTheLast(short, failing) ==
    LET enough == {k \in Surplus..Len(list) : Freed(Surplus + 1, k, failing) >= short}
    IN  IF enough = {} THEN Len(list) ELSE Min(enough)

(* Its second loop goes on from there until enough is freed, the size of a *)
(* file that could not be deleted counted as freed.                        *)
Taken(short, failing) ==
    LET room == Max({Min({Len(list), count - MinFiles}), Surplus})
        enough == {k \in Surplus..room : Freed(Surplus + 1, k, failing) >= short}
    IN  IF enough = {} THEN room ELSE Min(enough)

(* Variant: the list is emptied from its end.                              *)
GoneFromEnd(k, failing) == {list[j] : j \in ((Len(list) - k + 1)..Len(list)) \ failing} \ {fd}

(* What DeleteFile_ deletes of the first k entries: not a file that is     *)
(* open.                                                                   *)
Gone(k, failing) == {list[j] : j \in (1..k) \ failing} \ {fd}

------------------------------------------------------------------------------
(* Variant: one file for two seconds.                                      *)
NameOfPair(time) == 2 * (time \div 2) + 1

(* The name SwitchNewFile gives a file.                                    *)
NameOf(time) == time

(* Variant: the file is never changed.                                     *)
TooBigNever == FALSE

TooBig == size > FileLimit

(* LogData::WriteLog: CleanFile_, SwitchNewFile, fwrite.  An entry leaves  *)
(* the list whether its file could be deleted or not, and m_iLogSize grows *)
(* by the whole line whatever of it fwrite gets onto the disk.             *)
WriteLog(len) ==
    \E short \in Shortages, failing \in Failing :
        LET taken == IF CleaningDue THEN Taken(short, failing) ELSE 0
            kept == SubSeq(list, taken + 1, Len(list))
            gone == Gone(taken, failing)
            left == [n \in Times |-> IF n \in gone THEN Absent ELSE disk[n]]
        IN  /\ cleaned' = IF CleaningDue THEN now ELSE cleaned
            /\ undeleted' = undeleted \cup ({list[j] : j \in 1..taken} \ gone)
            /\ \/ /\ fd # Closed /\ ~TooBig
                  /\ list' = kept /\ count' = count - taken
                  /\ \E written \in 0..len : disk' = [left EXCEPT ![fd] = @ + written]
                  /\ size' = size + len
                  /\ UNCHANGED <<fd, clash>>
               \/ /\ fd = Closed \/ TooBig     \* fopen(..., "wb")
                  /\ fd' = NameOf(now) /\ size' = len
                  /\ list' = Append(kept, fd') /\ count' = count - taken + 1
                  /\ \E written \in 0..len : disk' = [left EXCEPT ![fd'] = written]
                  /\ clash' = (clash \/ fd' \in InUse \cup Range(list))
               \/ /\ fd = Closed \/ TooBig     \* fopen fails
                  /\ list' = kept /\ count' = count - taken
                  /\ disk' = left
                  /\ fd' = Closed
                  /\ UNCHANGED <<size, clash>>

(* vWriteLog: a line, and after it, still under the lock, a line of system *)
(* information if the last one is old.                                     *)
Line ==
    /\ running /\ ~due /\ Len(list) < MaxList
    /\ \E len \in LineSizes : WriteLog(len)
    /\ due' = (now - informed > InfoInterval)
    /\ informed' = IF due' THEN now ELSE informed
    /\ UNCHANGED <<now, running>>

InfoLine ==
    /\ running /\ due /\ Len(list) < MaxList
    /\ \E len \in LineSizes : WriteLog(len)
    /\ due' = (now - informed > InfoInterval)
    /\ informed' = IF due' THEN now ELSE informed
    /\ UNCHANGED <<now, running>>

Next == Start \/ End \/ Tick \/ Line \/ InfoLine

Spec == Init /\ [][Next]_vars

------------------------------------------------------------------------------
(* The list and the files, kept apart by the code, agree: the list is in   *)
(* the order of time and has every file of the directory but those whose   *)
(* deletion failed in this process, so that each gets its turn, those in   *)
(* the next process; the file being written is its last entry, and         *)
(* m_iLogSize, which the limit is about, never less than that file's size. *)
Listed ==
    running =>
        /\ count = Len(list)
        /\ InUse \subseteq Range(list) \cup undeleted
        /\ \A j, k \in 1..Len(list) : j < k => list[j] <= list[k]
        /\ fd # Closed => /\ list # <<>> /\ Last(list) = fd
                          /\ disk[fd] # Absent /\ disk[fd] <= size

(* A file passes the limit by less than one line.                          *)
SizeBound == \A n \in InUse : \E len \in LineSizes : disk[n] <= FileLimit + len

(* Cleaning deletes the oldest files first: what is older than a file that *)
(* goes and is still there is what this process failed to delete.          *)
OldestFirst ==
    [][\A n, m \in InUse : n \notin InUse' /\ m \in InUse' => n < m \/ m \in undeleted']_vars

(* Cleaning leaves m_iMinFiles files, short as the disk may be, as long as *)
(* no two files shared a name: then the list counts more than there are.   *)
MinKept ==
    [][InUse \subseteq InUse' \/ clash \/ Cardinality(InUse \cap InUse') >= MinFiles]_vars

(* After cleaning there are no more than m_iMaxFiles files, the one opened *)
(* with it included, or one more than m_iMinFiles, besides those that this *)
(* process failed to delete: they are not tried again and not counted.     *)
CleanBounds ==
    [][running /\ running' /\ cleaned' # cleaned
         => Cardinality(InUse' \ undeleted') <= Max({MaxFiles, MinFiles + 1})]_vars

(* Lines already in a file stay there until cleaning deletes the file,     *)
(* unless a second file is opened within the second: it has the name of    *)
(* the first, and starts it again from nothing.                            *)
LostOnlyByName ==
    [][\A n \in InUse \cap InUse' : disk'[n] >= disk[n] \/ (n = now /\ clash')]_vars
==============================================================================
