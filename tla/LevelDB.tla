------------------------------ MODULE LevelDB ------------------------------
(***************************************************************************)
(* The database below the Firestore SDK: how LevelDB makes a write durable *)
(* and finds it again.  Writers queue up and the first logs a group of     *)
(* them; a full memtable gets a new log file and is turned into a table by *)
(* the background thread, which also merges tables; descriptors (MANIFEST  *)
(* files) say which tables count and from which log on; obsolete files are *)
(* deleted; and opening the database replays the logs.                     *)
(*                                                                         *)
(* One action is a stretch of code between two points where the mutex is   *)
(* released or a file changes.  A batch is a number and a sequence number; *)
(* keys are left out, so all tables overlap and a merge keeps every batch. *)
(* SDK writes never ask for a sync, and a write that fails ends the        *)
(* process (an assertion in LevelDbTransaction::Commit).                   *)
(***************************************************************************)
EXTENDS Integers, Sequences, FiniteSets, FiniteSetsExt, Ordering

CONSTANTS Writers,    \* the threads that write
          MaxWrites,  \* the bound on the writes
          MemLimit,   \* write_buffer_size, in batches
          CompactionTrigger,  \* kL0_CompactionTrigger
          StopTrigger,        \* kL0_StopWritesTrigger
          Budget      \* how often each event may happen

\* "crash" ends the process, "powerloss" the machine, "failure" is a file
\* that cannot be written.
Event == {"crash", "powerloss", "failure"}

ASSUME LevelDBAssumption ==
    /\ MaxWrites \in Nat
    /\ MemLimit \in Nat
    /\ CompactionTrigger \in Nat \ {0}
    /\ StopTrigger \in Nat /\ StopTrigger >= CompactionTrigger
    /\ Budget \in [Event -> Nat]

VARIABLES
    logs,        \* the log files: records, each a set of batches
    tables,      \* the table files: their batches, and whether finished
    descriptors, \* the MANIFEST files: what they say, and said when synced
    current,     \* the descriptor the CURRENT file names, or 0
    phase,       \* where opening the database is
    toReplay,    \* the logs to recover from
    version,     \* the tables that count
    logNumber,   \* log_number_: earlier logs are not needed
    logfile,     \* logfile_number_, the log in use
    nextFile,    \* next_file_number_
    descriptor,  \* manifest_file_number_
    lastSeq,     \* last_sequence_
    mem,         \* the memtable
    imm,         \* the full memtable being made a table, or {}
    scheduled,   \* bg_compaction_scheduled_
    bgError,     \* bg_error_
    flush,       \* the memtable's compaction under way
    merge,       \* the tables' compaction under way
    doomed,      \* obsolete files being deleted, with the mutex held
    queue,       \* writers_
    writer,      \* what each writer does
    group,       \* the batches being logged
    written,     \* auxiliary: how many writes were called
    flushed,     \* auxiliary: the batches in tables of an entry that was synced
    budget

files == <<logs, tables, descriptors, current>>
opening == <<phase, toReplay>>
versions == <<version, logNumber, nextFile, descriptor>>
background == <<scheduled, bgError, flush, merge>>
writing == <<queue, writer, group, written>>
vars == <<files, opening, versions, logfile, lastSeq, mem, imm, background,
          doomed, writing, flushed, budget>>

Batch == [id : 1 .. MaxWrites, seq : Nat \ {0}]
Levels == 0 .. 2        \* a memtable's table gets no deeper
File == [num : Nat, level : Levels]
Torn == {}              \* a record that was not written to its end
Idle == [pc |-> "idle", num |-> 0, inputs |-> {}]
Unreadable == [files |-> {}, log |-> 0, next |-> 0, seq |-> 0]

Spend(e) == /\ budget[e] > 0
            /\ budget' = [budget EXCEPT ![e] = @ - 1]

Put(f, n, x) == [m \in DOMAIN f \cup {n} |-> IF m = n THEN x ELSE f[m]]
Without(f, S) == [m \in DOMAIN f \ S |-> f[m]]

Numbers(set) == {f.num : f \in set}
Level0(set) == {f \in set : f.level = 0}
FirstLevels(set) == {f \in set : f.level <= 1}

-----------------------------------------------------------------------------
\* What opening the database would find.

\* The records of a log up to the first that is torn.
ReadRecords(n) ==
    UNION {logs[n][i] : i \in {j \in DOMAIN logs[n] :
                                 \A k \in 1 .. j : logs[n][k] # Torn}}

LiveLogs(first) == {n \in DOMAIN logs : n >= first}

TableBatches(set) == UNION {tables[n].batches : n \in set \cap DOMAIN tables}

Described == descriptors[current].state

Recoverable ==
    IF current = 0 THEN {}
    ELSE TableBatches(Numbers(Described.files))
         \cup UNION {ReadRecords(n) : n \in LiveLogs(Described.log)}

Ids(set) == {b.id : b \in set}

-----------------------------------------------------------------------------
Init ==
    /\ logs = << >>
    /\ tables = << >>
    /\ descriptors = << >>
    /\ current = 0
    /\ phase = "down"
    /\ toReplay = << >>
    /\ version = {}
    /\ logNumber = 0
    /\ logfile = 0
    /\ nextFile = 0
    /\ descriptor = 0
    /\ lastSeq = 0
    /\ mem = {}
    /\ imm = {}
    /\ scheduled = FALSE
    /\ bgError = FALSE
    /\ flush = Idle
    /\ merge = Idle
    /\ doomed = {}
    /\ queue = << >>
    /\ writer = [w \in Writers |-> "idle"]
    /\ group = {}
    /\ written = 0
    /\ flushed = {}
    /\ budget = Budget

\* The mutex can be had: obsolete files are deleted under it.
Unlocked == phase = "open" /\ doomed = {}

\* A process ends: memory is gone, some of the obsolete files may be too.
Forget ==
    /\ phase' = "down"
    /\ toReplay' = << >>
    /\ version' = {}
    /\ logNumber' = 0
    /\ logfile' = 0
    /\ nextFile' = 0
    /\ descriptor' = 0
    /\ lastSeq' = 0
    /\ mem' = {}
    /\ imm' = {}
    /\ scheduled' = FALSE
    /\ bgError' = FALSE
    /\ flush' = Idle
    /\ merge' = Idle
    /\ doomed' = {}
    /\ queue' = << >>
    /\ writer' = [w \in Writers |-> "idle"]
    /\ group' = {}

Of(type, set) == {f.num : f \in {g \in set : g.type = type}}

Crash ==
    /\ phase # "down"
    /\ Spend("crash")
    /\ Forget
    /\ \E gone \in SUBSET doomed :
         /\ logs' = Without(logs, Of("log", gone))
         /\ tables' = Without(tables, Of("table", gone))
         /\ descriptors' = Without(descriptors, Of("descriptor", gone))
    /\ UNCHANGED <<current, written, flushed>>

\* The machine ends: what was not synced may be lost, the tail of each log and
\* the last entry of a descriptor.
PowerLoss ==
    /\ phase # "down"
    /\ Spend("powerloss")
    /\ Forget
    /\ \E gone \in SUBSET doomed :
         LET left == DOMAIN logs \ Of("log", gone)
             here == DOMAIN descriptors \ Of("descriptor", gone)
         IN /\ \E kept \in [left -> 0 .. MaxWrites] :
                 /\ \A n \in left : kept[n] <= Len(logs[n])
                 /\ logs' = [n \in left |-> SubSeq(logs[n], 1, kept[n])]
            /\ \E lost \in SUBSET here :
                 descriptors' = [n \in here |->
                    IF n \in lost
                    THEN [descriptors[n] EXCEPT !.state = descriptors[n].synced]
                    ELSE descriptors[n]]
            /\ tables' = Without(tables, Of("table", gone))
    /\ UNCHANGED <<current, written, flushed>>

-----------------------------------------------------------------------------
\* Opening the database.

\* A new database: the first descriptor is written and closed, not synced.
WriteFirstDescriptor ==
    /\ phase = "down"
    /\ current = 0
    /\ descriptors' = Put(descriptors, 1,
                          [state |-> [files |-> {}, log |-> 0, next |-> 2, seq |-> 0],
                           synced |-> Unreadable])
    /\ phase' = "creating"
    /\ UNCHANGED <<logs, tables, current, toReplay, versions, logfile, lastSeq,
                   mem, imm, background, doomed, writing, flushed, budget>>

\* The CURRENT file is written beside, synced and renamed.
NameFirstDescriptor ==
    /\ phase = "creating"
    /\ current' = 1
    /\ phase' = "down"
    /\ UNCHANGED <<logs, tables, descriptors, toReplay, versions, logfile,
                   lastSeq, mem, imm, background, doomed, writing, flushed,
                   budget>>

\* The descriptor is read; all tables it names must be there.
Recover ==
    /\ phase = "down"
    /\ current # 0
    /\ Described # Unreadable
    /\ Numbers(Described.files) \subseteq DOMAIN tables
    /\ version' = Described.files
    /\ logNumber' = Described.log
    /\ descriptor' = Described.next
    /\ nextFile' = Described.next + 1
    /\ lastSeq' = Described.seq
    /\ toReplay' = Ascending(LiveLogs(Described.log))
    /\ phase' = "replaying"
    /\ UNCHANGED <<files, logfile, mem, imm, background, doomed, writing,
                   flushed, budget>>

LastOf(set, least) == Max({b.seq : b \in set} \cup {least})

\* Mutant: sequence numbers go on where the descriptor says.
RecoverLogFileKeepingSequence ==
    /\ phase = "replaying"
    /\ toReplay # << >>
    /\ LET n == Head(toReplay)
           batches == ReadRecords(n)
           made == IF batches = {} THEN {} ELSE {nextFile}
       IN /\ tables' = IF made = {} THEN tables
                       ELSE Put(tables, nextFile, [batches |-> batches, whole |-> TRUE])
          /\ version' = version \cup {[num |-> f, level |-> 0] : f \in made}
          /\ nextFile' = Max({nextFile + Cardinality(made), n + 1})
    /\ toReplay' = Tail(toReplay)
    /\ UNCHANGED <<logs, descriptors, current, phase, logNumber, descriptor,
                   logfile, lastSeq, mem, imm, background, doomed, writing,
                   flushed, budget>>

\* A log is replayed into a table; its own number is marked as used only then.
RecoverLogFile ==
    /\ phase = "replaying"
    /\ toReplay # << >>
    /\ LET n == Head(toReplay)
           batches == ReadRecords(n)
           made == IF batches = {} THEN {} ELSE {nextFile}
       IN /\ tables' = IF made = {} THEN tables
                       ELSE Put(tables, nextFile, [batches |-> batches, whole |-> TRUE])
          /\ version' = version \cup {[num |-> f, level |-> 0] : f \in made}
          /\ nextFile' = Max({nextFile + Cardinality(made), n + 1})
          /\ lastSeq' = LastOf(batches, lastSeq)
    /\ toReplay' = Tail(toReplay)
    /\ UNCHANGED <<logs, descriptors, current, phase, logNumber, descriptor,
                   logfile, mem, imm, background, doomed, writing, flushed,
                   budget>>

\* All logs are replayed: a new one is begun.
NewLog ==
    /\ phase = "replaying"
    /\ toReplay = << >>
    /\ logs' = Put(logs, nextFile, << >>)
    /\ logfile' = nextFile
    /\ nextFile' = nextFile + 1
    /\ phase' = "describing"
    /\ UNCHANGED <<tables, descriptors, current, toReplay, version, logNumber,
                   descriptor, lastSeq, mem, imm, background, doomed, writing,
                   flushed, budget>>

\* A new descriptor says so and is synced.
WriteDescriptor ==
    /\ phase = "describing"
    /\ LET d == [files |-> version, log |-> logfile, next |-> nextFile, seq |-> lastSeq]
       IN descriptors' = Put(descriptors, descriptor,
                             [state |-> d, synced |-> d])
    /\ phase' = "installing"
    /\ UNCHANGED <<logs, tables, current, toReplay, versions, logfile, lastSeq,
                   mem, imm, background, doomed, writing, flushed, budget>>

-----------------------------------------------------------------------------
\* The files that are not needed: tables that neither count nor are being
\* written, earlier logs and descriptors.
Unneeded(live, pending, log, desc) ==
    {[type |-> "table", num |-> n] : n \in DOMAIN tables \ (live \cup pending)}
    \cup {[type |-> "log", num |-> n] : n \in {l \in DOMAIN logs : l < log}}
    \cup {[type |-> "descriptor", num |-> n] : n \in {d \in DOMAIN descriptors : d < desc}}

\* Mutant: files are deleted although an entry may have been written.
ObsoleteAfterError(live, pending, log, desc, error) ==
    Unneeded(live, pending, log, desc)

\* After an error an entry may have been written or not: nothing is deleted.
Obsolete(live, pending, log, desc, error) ==
    IF error THEN {} ELSE Unneeded(live, pending, log, desc)

DeleteObsoleteFiles ==
    /\ phase = "open"
    /\ doomed # {}
    /\ logs' = Without(logs, Of("log", doomed))
    /\ tables' = Without(tables, Of("table", doomed))
    /\ descriptors' = Without(descriptors, Of("descriptor", doomed))
    /\ doomed' = {}
    /\ UNCHANGED <<current, opening, versions, logfile, lastSeq, mem, imm,
                   background, writing, flushed, budget>>

NeedsCompaction(v) == Cardinality(Level0(v)) >= CompactionTrigger

\* CURRENT names the new descriptor and the database is open.
InstallDescriptor ==
    /\ phase = "installing"
    /\ current' = descriptor
    /\ logNumber' = logfile
    /\ doomed' = Obsolete(Numbers(version), {}, logfile, descriptor, FALSE)
    /\ scheduled' = NeedsCompaction(version)
    /\ flushed' = flushed \cup TableBatches(Numbers(version))
    /\ phase' = "open"
    /\ UNCHANGED <<logs, tables, descriptors, toReplay, version, nextFile,
                   descriptor, logfile, lastSeq, mem, imm, bgError, flush,
                   merge, writing, budget>>

-----------------------------------------------------------------------------
\* Writing.

Write(w) ==
    /\ Unlocked
    /\ writer[w] = "idle"
    /\ written < MaxWrites
    /\ written' = written + 1
    /\ queue' = Append(queue, [writer |-> w, id |-> written + 1])
    /\ writer' = [writer EXCEPT ![w] = IF queue = << >> THEN "awake" ELSE "asleep"]
    /\ UNCHANGED <<files, opening, versions, logfile, lastSeq, mem, imm,
                   background, doomed, group, flushed, budget>>

\* The first writer finds no room: the memtable is full and the one before is
\* still being written, or there are too many tables.
WaitForRoom(w) ==
    /\ Unlocked
    /\ writer[w] = "awake"
    /\ ~bgError
    /\ Cardinality(mem) > MemLimit
    /\ imm # {} \/ Cardinality(Level0(version)) >= StopTrigger
    /\ writer' = [writer EXCEPT ![w] = "waiting"]
    /\ UNCHANGED <<files, opening, versions, logfile, lastSeq, mem, imm,
                   background, doomed, queue, group, written, flushed, budget>>

\* It makes room: a new log and memtable, the old ones to be compacted.
\* (Mutant: though the one before is still being written.)
MakeRoomRegardless(w) ==
    /\ Unlocked
    /\ writer[w] = "awake"
    /\ ~bgError
    /\ Cardinality(mem) > MemLimit
    /\ logs' = Put(logs, nextFile, << >>)
    /\ logfile' = nextFile
    /\ nextFile' = nextFile + 1
    /\ imm' = mem
    /\ mem' = {}
    /\ scheduled' = TRUE
    /\ UNCHANGED <<tables, descriptors, current, opening, version, logNumber,
                   descriptor, lastSeq, bgError, flush, merge, doomed, writing,
                   flushed, budget>>

MakeRoom(w) ==
    /\ Unlocked
    /\ writer[w] = "awake"
    /\ ~bgError
    /\ Cardinality(mem) > MemLimit
    /\ imm = {}
    /\ Cardinality(Level0(version)) < StopTrigger
    /\ logs' = Put(logs, nextFile, << >>)
    /\ logfile' = nextFile
    /\ nextFile' = nextFile + 1
    /\ imm' = mem
    /\ mem' = {}
    /\ scheduled' = TRUE
    /\ UNCHANGED <<tables, descriptors, current, opening, version, logNumber,
                   descriptor, lastSeq, bgError, flush, merge, doomed, writing,
                   flushed, budget>>

\* There is room: the first writer takes some of those behind it along and
\* releases the mutex.
BuildBatchGroup(w) ==
    /\ Unlocked
    /\ writer[w] = "awake"
    /\ ~bgError
    /\ Cardinality(mem) <= MemLimit
    /\ \E n \in 1 .. Len(queue) :
         group' = {[id |-> queue[i].id, seq |-> lastSeq + i] : i \in 1 .. n}
    /\ writer' = [writer EXCEPT ![w] = "logging"]
    /\ UNCHANGED <<files, opening, versions, logfile, lastSeq, mem, imm,
                   background, doomed, queue, written, flushed, budget>>

\* One record for the group; it is flushed to the file.
AddRecord(w) ==
    /\ writer[w] = "logging"
    /\ logs' = [logs EXCEPT ![logfile] = Append(@, group)]
    /\ writer' = [writer EXCEPT ![w] = "logged"]
    /\ UNCHANGED <<tables, descriptors, current, opening, versions, logfile,
                   lastSeq, mem, imm, background, doomed, queue, group, written,
                   flushed, budget>>

\* The record is not written to its end; the assertion that a commit succeeds
\* ends the process.
FailToAddRecord(w) ==
    /\ writer[w] = "logging"
    /\ Spend("failure")
    /\ logs' = [logs EXCEPT ![logfile] = Append(@, Torn)]
    /\ Forget
    /\ UNCHANGED <<tables, descriptors, current, written, flushed>>

\* The group enters the memtable, its writers return and the next one wakes.
FinishWrite(w) ==
    /\ Unlocked
    /\ writer[w] = "logged"
    /\ mem' = mem \cup group
    /\ lastSeq' = lastSeq + Cardinality(group)
    /\ queue' = SubSeq(queue, Cardinality(group) + 1, Len(queue))
    /\ writer' = [v \in Writers |->
                    IF \E i \in 1 .. Cardinality(group) : queue[i].writer = v
                    THEN "idle"
                    ELSE IF queue' # << >> /\ v = Head(queue').writer THEN "awake"
                    ELSE writer[v]]
    /\ group' = {}
    /\ UNCHANGED <<files, opening, versions, logfile, imm, background, doomed,
                   written, flushed, budget>>

\* After a background error a write fails, and the process ends.
FailWrite(w) ==
    /\ Unlocked
    /\ writer[w] = "awake"
    /\ bgError
    /\ Forget
    /\ UNCHANGED <<files, written, flushed, budget>>

-----------------------------------------------------------------------------
\* The background thread: it runs while scheduled is set.

Wake == [w \in Writers |-> IF writer[w] = "waiting" THEN "awake" ELSE writer[w]]

\* It ends its call: another one is scheduled if there is work (imm and v are
\* the new ones), and whoever waits for room is woken.  (Mutant: nobody is.)
EndQuietly(full, v, error) ==
    /\ scheduled' = (~error /\ (full # {} \/ NeedsCompaction(v)))
    /\ UNCHANGED writer

EndBackgroundCall(full, v, error) ==
    /\ scheduled' = (~error /\ (full # {} \/ NeedsCompaction(v)))
    /\ writer' = Wake

\* A memtable compaction within a merge ends: the merge goes on.
EndOfFlush(full, v, error) ==
    \/ merge.pc = "idle" /\ EndBackgroundCall(full, v, error)
    \/ merge.pc # "idle" /\ writer' = Wake /\ UNCHANGED scheduled

\* An entry of the descriptor in use, and its sync.
LogState(d) == descriptors' = [descriptors EXCEPT ![descriptor].state = d]

SyncDescriptor ==
    descriptors' = [descriptors EXCEPT
                      ![descriptor].synced = descriptors[descriptor].state]

PendingOutputs == {j.num : j \in {k \in {flush, merge} : k.pc # "idle"}}

\* The compaction of the full memtable begins, at once if it is found during
\* a merge.
StartFlush ==
    /\ Unlocked
    /\ scheduled
    /\ flush.pc = "idle"
    /\ imm # {}
    /\ merge.pc \in {"idle", "merging"}
    /\ flush' = [pc |-> "building", num |-> nextFile, inputs |-> {}]
    /\ nextFile' = nextFile + 1
    /\ tables' = Put(tables, nextFile, [batches |-> {}, whole |-> FALSE])
    /\ UNCHANGED <<logs, descriptors, current, opening, version, logNumber,
                   descriptor, logfile, lastSeq, mem, imm, scheduled, bgError,
                   merge, doomed, writing, flushed, budget>>

\* All tables overlap: the new one goes above them.
NewTable ==
    [num |-> flush.num,
     level |-> Max({0} \cup {l \in Levels : \A f \in version : f.level > l})]

\* The table is built and synced, and the descriptor gets an entry with it:
\* the log in use is the first that is needed now.
LogFlush ==
    /\ Unlocked
    /\ flush.pc = "building"
    /\ tables' = Put(tables, flush.num, [batches |-> imm, whole |-> TRUE])
    /\ LogState([files |-> version \cup {NewTable}, log |-> logfile,
                 next |-> nextFile, seq |-> lastSeq])
    /\ flush' = [flush EXCEPT !.pc = "logged"]
    /\ UNCHANGED <<logs, current, opening, versions, logfile, lastSeq, mem, imm,
                   scheduled, bgError, merge, doomed, writing, flushed, budget>>

\* Mutant: the descriptor is not synced.
InstallFlushUnsynced ==
    /\ Unlocked
    /\ flush.pc = "logged"
    /\ version' = version \cup {NewTable}
    /\ logNumber' = logfile
    /\ imm' = {}
    /\ flush' = Idle
    /\ flushed' = flushed \cup imm
    /\ doomed' = Obsolete(Numbers(version'), PendingOutputs \ {flush.num},
                          logfile, descriptor, bgError)
    /\ EndOfFlush({}, version', bgError)
    /\ UNCHANGED <<files, opening, nextFile, descriptor, logfile, lastSeq, mem,
                   bgError, merge, queue, group, written, budget>>

\* The entry is synced and the new version is installed.
InstallFlush ==
    /\ Unlocked
    /\ flush.pc = "logged"
    /\ SyncDescriptor
    /\ version' = version \cup {NewTable}
    /\ logNumber' = logfile
    /\ imm' = {}
    /\ flush' = Idle
    /\ flushed' = flushed \cup imm
    /\ doomed' = Obsolete(Numbers(version'), PendingOutputs \ {flush.num},
                          logfile, descriptor, bgError)
    /\ EndOfFlush({}, version', bgError)
    /\ UNCHANGED <<logs, tables, current, opening, nextFile, descriptor, logfile,
                   lastSeq, mem, bgError, merge, queue, group, written, budget>>

\* The table cannot be written, or the entry not synced.  Within a merge the compaction is tried again all the same.
FailFlush ==
    /\ Unlocked
    /\ Spend("failure")
    /\ bgError' = TRUE
    /\ flush' = Idle
    /\ \/ /\ flush.pc = "building"
          /\ tables' = Without(tables, {flush.num})
       \/ /\ flush.pc = "logged"
          /\ UNCHANGED tables
    /\ EndOfFlush(imm, version, TRUE)
    /\ UNCHANGED <<logs, descriptors, current, opening, versions, logfile, lastSeq, mem, imm,
                   merge, doomed, queue, group, written, flushed>>

-----------------------------------------------------------------------------
\* Too many tables are merged into one.
StartMerge ==
    /\ Unlocked
    /\ scheduled
    /\ flush.pc = "idle" /\ merge.pc = "idle"
    /\ imm = {}
    /\ NeedsCompaction(version)
    /\ merge' = [pc |-> "merging", num |-> nextFile, inputs |-> FirstLevels(version)]
    /\ nextFile' = nextFile + 1
    /\ tables' = Put(tables, nextFile, [batches |-> {}, whole |-> FALSE])
    /\ UNCHANGED <<logs, descriptors, current, opening, version, logNumber,
                   descriptor, logfile, lastSeq, mem, imm, scheduled, bgError,
                   flush, doomed, writing, flushed, budget>>

Merged == (version \ merge.inputs) \cup {[num |-> merge.num, level |-> 1]}

LogMerge ==
    /\ Unlocked
    /\ flush.pc = "idle"
    /\ merge.pc = "merging"
    /\ tables' = Put(tables, merge.num,
                     [batches |-> TableBatches(Numbers(merge.inputs)), whole |-> TRUE])
    /\ LogState([files |-> Merged, log |-> logNumber, next |-> nextFile, seq |-> lastSeq])
    /\ merge' = [merge EXCEPT !.pc = "logged"]
    /\ UNCHANGED <<logs, current, opening, versions, logfile, lastSeq, mem, imm,
                   scheduled, bgError, flush, doomed, writing, flushed, budget>>

InstallMerge ==
    /\ Unlocked
    /\ merge.pc = "logged"
    /\ SyncDescriptor
    /\ version' = Merged
    /\ merge' = Idle
    /\ doomed' = Obsolete(Numbers(Merged), {}, logNumber, descriptor, bgError)
    /\ EndBackgroundCall(imm, Merged, bgError)
    /\ UNCHANGED <<logs, tables, current, opening, logNumber, nextFile,
                   descriptor, logfile, lastSeq, mem, imm, bgError, flush,
                   queue, group, written, flushed, budget>>

\* As for a memtable; what is left of the output stays until the next opening.
FailMerge ==
    /\ Unlocked
    /\ flush.pc = "idle"
    /\ merge.pc # "idle"
    /\ Spend("failure")
    /\ bgError' = TRUE
    /\ merge' = Idle
    /\ doomed' = Obsolete(Numbers(version), {}, logNumber, descriptor, bgError')
    /\ EndBackgroundCall(imm, version, TRUE)
    /\ UNCHANGED <<files, opening, versions, logfile, lastSeq, mem, imm, flush,
                   queue, group, written, flushed>>

-----------------------------------------------------------------------------
Open == \/ WriteFirstDescriptor \/ NameFirstDescriptor \/ Recover
        \/ RecoverLogFile \/ NewLog \/ WriteDescriptor \/ InstallDescriptor

WriterStep(w) == \/ WaitForRoom(w) \/ MakeRoom(w) \/ BuildBatchGroup(w)
                 \/ AddRecord(w) \/ FinishWrite(w) \/ FailWrite(w)

BackgroundStep == \/ StartFlush \/ LogFlush \/ InstallFlush
                  \/ StartMerge \/ LogMerge \/ InstallMerge

Next ==
    \/ Open \/ DeleteObsoleteFiles \/ BackgroundStep
    \/ \E w \in Writers : Write(w) \/ WriterStep(w) \/ FailToAddRecord(w)
    \/ FailFlush \/ FailMerge
    \/ Crash \/ PowerLoss

Spec == Init /\ [][Next]_vars

\* Threads run: the program's, and the background thread.
Fairness == /\ WF_vars(Open) /\ WF_vars(DeleteObsoleteFiles)
            /\ WF_vars(BackgroundStep)
            /\ \A w \in Writers : WF_vars(WriterStep(w))

FairSpec == Spec /\ Fairness

-----------------------------------------------------------------------------
Job == [pc : {"idle", "building", "merging", "logged"}, num : Nat,
        inputs : SUBSET File]
State == [files : SUBSET File, log : Nat, next : Nat, seq : Nat]

IsFileMap(f, S) == \A n \in DOMAIN f : n \in Nat /\ f[n] \in S

LevelDBTypeOK ==
    /\ IsFileMap(logs, Seq(SUBSET Batch))
    /\ IsFileMap(tables, [batches : SUBSET Batch, whole : BOOLEAN])
    /\ IsFileMap(descriptors, [state : State, synced : State])
    /\ current \in Nat
    /\ phase \in {"down", "creating", "replaying", "describing", "installing", "open"}
    /\ toReplay \in Seq(Nat)
    /\ version \in SUBSET File
    /\ {logNumber, logfile, nextFile, descriptor, lastSeq} \subseteq Nat
    /\ mem \subseteq Batch /\ imm \subseteq Batch
    /\ scheduled \in BOOLEAN /\ bgError \in BOOLEAN
    /\ flush \in Job /\ merge \in Job
    /\ doomed \subseteq [type : {"table", "log", "descriptor"}, num : Nat]
    /\ queue \in Seq([writer : Writers, id : 1 .. MaxWrites])
    /\ writer \in [Writers -> {"idle", "asleep", "awake", "waiting", "logging", "logged"}]
    /\ group \subseteq Batch
    /\ written \in 0 .. MaxWrites
    /\ flushed \subseteq Batch

\* Whatever happens to the process or the machine, the database can be opened
\* again: the descriptor in use can be read, unless the machine ended while the
\* database was created, and every table it names is there, whole.  (With
\* the type invariant.)
OpensAgain ==
    /\ LevelDBTypeOK
    /\ current # 0 =>
      /\ current \in DOMAIN descriptors
      /\ Described = Unreadable => current = 1 /\ budget["powerloss"] < Budget["powerloss"]
      /\ \A n \in Numbers(Described.files) : n \in DOMAIN tables /\ tables[n].whole

\* What is read is what would be found by opening the database again, but for
\* a group that is just being logged.
Read == mem \cup imm \cup TableBatches(Numbers(version))

ReadsWhatIsDurable ==
    phase = "open" => /\ Read \subseteq Recoverable
                      /\ Recoverable \subseteq Read \cup group

\* The later of two writes wins: sequence numbers grow with the writes, in one
\* run of the program and from each to the next.
LaterWritesWin ==
    \A b, c \in Recoverable \cup Read \cup group : b.id < c.id => b.seq < c.seq

\* "The creation of the DB is committed only when the descriptor is created."
CreationCommitted == current # 0 => Described # Unreadable

-----------------------------------------------------------------------------
D == INSTANCE DurableWrites WITH
       Writes <- 1 .. MaxWrites,
       contents <- Ids(Recoverable),
       safe <- Ids(flushed),
       calls <- {queue[i].id : i \in DOMAIN queue}

\* Writes are durable: what opening the database would find changes only by
\* writes taking effect, as long as the machine keeps running, and when it does
\* not, by losing what was not yet in a table: tables and the entries that name
\* them are synced before a log, or a merged table, is deleted.
ImplementsDurableWrites == D!Spec

\* Whoever calls Write returns, with the process or without it.
EveryWriteReturns == \A w \in Writers : (writer[w] # "idle") ~> (writer[w] = "idle")
=============================================================================
