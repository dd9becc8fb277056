--------------------------- MODULE LevelDBProofs ---------------------------
(***************************************************************************)
(* What LevelDB promises the SDK, proved: the database opens again, what   *)
(* is read is what opening it again would find, later writes win, and it   *)
(* implements DurableWrites, for any number of writers, writes, memtable   *)
(* sizes and failures.                                                     *)
(*                                                                         *)
(* The argument is about what an entry of a descriptor finds on disk: the  *)
(* batches of its tables and of the logs from its own on.  The entry in    *)
(* use always finds what has been read; the entry that was synced finds no *)
(* more than that, and all of what is safe.                                *)
(***************************************************************************)
EXTENDS LevelDB, OrderingProofs

\* The batches in the records of a log, up to the first torn one; in the
\* tables S; in the logs from number a on, and in those below z; and those that
\* a descriptor entry d finds.
RecordsIn(r) ==
    UNION {r[i] : i \in {j \in DOMAIN r : \A k \in 1 .. j : r[k] # Torn}}
InTables(t, S) == UNION {t[n].batches : n \in S \cap DOMAIN t}
InLogsFrom(l, a) == UNION {RecordsIn(l[n]) : n \in {m \in DOMAIN l : m >= a}}
InLogs(l, a, z) ==
    UNION {RecordsIn(l[n]) : n \in {m \in DOMAIN l : a <= m /\ m < z}}
Found(l, t, d) == InTables(t, Numbers(d.files)) \cup InLogsFrom(l, d.log)

\* Whose batches a reader of the log meets (log::Reader): those of a record with no
\* torn one up to it.
LEMMA RecordsMember ==
    ASSUME NEW r, NEW b
    PROVE  b \in RecordsIn(r)
             <=> \E i \in DOMAIN r : b \in r[i] /\ \A k \in 1 .. i : r[k] # Torn
BY DEF RecordsIn

\* The batches in the tables S are those of one of them that is there.
LEMMA TablesMember ==
    ASSUME NEW t, NEW S, NEW b
    PROVE  b \in InTables(t, S) <=> \E n \in S : n \in DOMAIN t /\ b \in t[n].batches
BY DEF InTables

\* Those in the logs from a on are in the records of one of these logs.
LEMMA LogsFromMember ==
    ASSUME NEW l, NEW a, NEW b
    PROVE  b \in InLogsFrom(l, a)
             <=> \E n \in DOMAIN l : n >= a /\ b \in RecordsIn(l[n])
BY DEF InLogsFrom

\* So are those in the logs from a on and below z.
LEMMA LogsMember ==
    ASSUME NEW l, NEW a, NEW z, NEW b
    PROVE  b \in InLogs(l, a, z)
             <=> \E n \in DOMAIN l : a <= n /\ n < z /\ b \in RecordsIn(l[n])
BY DEF InLogs

\* An entry finds what its tables hold and what the logs from its own on hold.
LEMMA FoundMember ==
    ASSUME NEW l, NEW t, NEW d, NEW b
    PROVE  b \in Found(l, t, d)
             <=> b \in InTables(t, Numbers(d.files)) \/ b \in InLogsFrom(l, d.log)
BY DEF Found

\* What the model calls recoverable, in these terms.
LEMMA RecoverableFound ==
    /\ Recoverable = IF current = 0 THEN {} ELSE Found(logs, tables, Described)
    /\ Recoverable' = IF current' = 0 THEN {} ELSE Found(logs', tables', Described')
BY DEF Recoverable, Found, TableBatches, InTables, LiveLogs, ReadRecords,
       InLogsFrom, RecordsIn

\* The files S are in t and are the same in u.
Keeps(t, u, S) == \A n \in S : n \in DOMAIN t /\ n \in DOMAIN u /\ u[n] = t[n]

\* Tables that are kept hold what they held.
LEMMA SameTables ==
    ASSUME NEW t, NEW u, NEW S, Keeps(t, u, S)
    PROVE  InTables(u, S) = InTables(t, S)
<1>1. ASSUME NEW b
      PROVE  b \in InTables(u, S) <=> b \in InTables(t, S)
  BY TablesMember DEF Keeps
<1> QED BY <1>1

\* The tables of two sets together hold what those of one or the other hold.
LEMMA TablesOfUnion ==
    ASSUME NEW t, NEW S, NEW T
    PROVE  InTables(t, S \cup T) = InTables(t, S) \cup InTables(t, T)
<1>1. ASSUME NEW b
      PROVE  b \in InTables(t, S \cup T) <=> b \in InTables(t, S) \/ b \in InTables(t, T)
  BY TablesMember
<1> QED BY <1>1

\* A record that is torn adds nothing to a log, another one itself if none is
\* torn, and a log that is cut off has less in it.
LEMMA RecordsAppended ==
    ASSUME NEW s \in Seq(SUBSET Batch), NEW r \in SUBSET Batch
    PROVE  /\ r = Torn => RecordsIn(Append(s, r)) = RecordsIn(s)
           /\ (\A i \in DOMAIN s : s[i] # Torn) /\ r # Torn
                => RecordsIn(Append(s, r)) = RecordsIn(s) \cup r
<1> DEFINE t == Append(s, r)
<1>1. /\ DOMAIN s = 1 .. Len(s) /\ Len(s) \in Nat
      /\ DOMAIN t = 1 .. Len(s) + 1
      /\ \A i \in 1 .. Len(s) : t[i] = s[i]
      /\ t[Len(s) + 1] = r
  OBVIOUS
<1> HIDE DEF t
<1>2. ASSUME NEW b, b \in RecordsIn(s)
      PROVE  b \in RecordsIn(t)
  <2>1. PICK i \in 1 .. Len(s) : b \in s[i] /\ \A k \in 1 .. i : s[k] # Torn
    BY <1>1, <1>2, RecordsMember
  <2>2. i \in DOMAIN t /\ b \in t[i] /\ \A k \in 1 .. i : t[k] # Torn
    BY <2>1, <1>1
  <2> QED BY <2>2, RecordsMember
<1>3. ASSUME NEW b, b \in RecordsIn(t), b \notin r
      PROVE  b \in RecordsIn(s)
  <2>1. PICK i \in 1 .. Len(s) + 1 : b \in t[i] /\ \A k \in 1 .. i : t[k] # Torn
    BY <1>1, <1>3, RecordsMember
  <2>2. i \in 1 .. Len(s)
    BY <2>1, <1>1, <1>3
  <2>3. i \in DOMAIN s /\ b \in s[i] /\ \A k \in 1 .. i : s[k] # Torn
    BY <2>1, <2>2, <1>1
  <2> QED BY <2>3, RecordsMember
<1>4. CASE r = Torn
  BY <1>2, <1>3, <1>4 DEF t, Torn
<1>5. ASSUME \A i \in DOMAIN s : s[i] # Torn, r # Torn, NEW b \in r
      PROVE  b \in RecordsIn(t)
  <2>1. Len(s) + 1 \in DOMAIN t /\ b \in t[Len(s) + 1]
    BY <1>1, <1>5
  <2>2. \A k \in 1 .. Len(s) + 1 : t[k] # Torn
    BY <1>1, <1>5
  <2> QED BY <2>1, <2>2, RecordsMember
<1>6. CASE r # Torn
  BY <1>2, <1>3, <1>5, <1>6 DEF t
<1> QED BY <1>4, <1>6

\* A log that is cut short after its k-th record holds nothing it did not hold.
LEMMA RecordsCut ==
    ASSUME NEW s \in Seq(SUBSET Batch), NEW k \in Nat, k <= Len(s)
    PROVE  RecordsIn(SubSeq(s, 1, k)) \subseteq RecordsIn(s)
<1> DEFINE t == SubSeq(s, 1, k)
<1>1. /\ DOMAIN s = 1 .. Len(s) /\ Len(s) \in Nat
      /\ DOMAIN t = 1 .. k
      /\ \A i \in 1 .. k : t[i] = s[i]
  OBVIOUS
<1> HIDE DEF t
<1>2. ASSUME NEW b, b \in RecordsIn(t)
      PROVE  b \in RecordsIn(s)
  <2>1. PICK i \in 1 .. k : b \in t[i] /\ \A j \in 1 .. i : t[j] # Torn
    BY <1>1, <1>2, RecordsMember
  <2>2. i \in DOMAIN s /\ b \in s[i] /\ \A j \in 1 .. i : s[j] # Torn
    BY <2>1, <1>1
  <2> QED BY <2>2, RecordsMember
<1> QED BY <1>2 DEF t

-----------------------------------------------------------------------------
\* The inductive invariant, in parts.

\* Files are finitely many, and so are the sequence numbers in logs.
LogsBounded ==
    /\ IsFiniteSet(DOMAIN logs)
    /\ \E top \in Nat : \A n \in DOMAIN logs :
         \A b \in RecordsIn(logs[n]) : b.seq <= top

\* No more has happened to the program than the bounds allow.
BudgetSpent ==
    budget \in [Event -> Nat] /\ \A e \in Event : budget[e] <= Budget[e]

\* Later writes have later sequence numbers.
InOrder(set) == \A b, c \in set : b.id < c.id => b.seq < c.seq

\* The tables of a set of files are there, whole, and below the next numbers.
FilesGood(set, t, next, seq) ==
    \A f \in set : /\ f.num < next
                   /\ f.num \in DOMAIN t
                   /\ t[f.num].whole
                   /\ \A b \in t[f.num].batches : b.seq <= seq

\* What an entry d of the descriptor number cur names.
EntryGood(d, t, cur) ==
    d # Unreadable => /\ cur < d.next
                      /\ d.log < d.next
                      /\ FilesGood(d.files, t, d.next, d.seq)

\* The last entry that was synced, and what the last entry finds.
Synced == descriptors[current].synced
DescribedFinds == Found(logs, tables, Described)

\* The descriptor in use: its last entry, and the last that was synced.
EntriesGood ==
    /\ current \in DOMAIN descriptors
    /\ Synced = Unreadable => current = 1
    /\ Described = Unreadable => /\ Synced = Unreadable
                                 /\ budget["powerloss"] < Budget["powerloss"]
    /\ EntryGood(Described, tables, current)
    /\ EntryGood(Synced, tables, current)
    /\ Synced.next <= Described.next

\* What the synced entry finds in tables, and in logs before number a, is in V.
SyncedWithin(V, a) ==
    /\ InTables(tables, Numbers(Synced.files)) \subseteq V
    /\ \A n \in DOMAIN logs :
         n >= Synced.log /\ ~(n >= a) => RecordsIn(logs[n]) \subseteq V

\* What they find: the one that was synced no more than the last, both of them
\* what is safe, and only what was written, in order.
EntriesFind ==
    /\ SyncedWithin(InTables(tables, Numbers(Described.files)), Described.log)
    /\ flushed \subseteq InTables(tables, Numbers(Described.files))
    /\ flushed \subseteq InTables(tables, Numbers(Synced.files))
    /\ \A b \in DescribedFinds : b.id <= written
    /\ InOrder(DescribedFinds)

OnDisk == current # 0 => EntriesGood /\ EntriesFind

\* The entry of a new database.
FirstEntry == [files |-> {}, log |-> 0, next |-> 2, seq |-> 0]

\* There is nothing yet before the first descriptor is named.
Creating ==
    /\ current = 0 => phase \in {"down", "creating"} /\ DOMAIN logs = {} /\ flushed = {}
    /\ phase = "creating" =>
         /\ current = 0
         /\ 1 \in DOMAIN descriptors
         /\ descriptors[1].state = FirstEntry
         /\ descriptors[1].synced = Unreadable
    /\ phase \notin {"down", "creating"} => current # 0 /\ Described # Unreadable

\* Nothing is under way while the database is not open.
NothingUnderWay ==
    /\ mem = {} /\ imm = {} /\ group = {} /\ queue = << >>
    /\ flush = Idle /\ merge = Idle /\ doomed = {}
    /\ bgError = FALSE
    /\ writer = [w \in Writers |-> "idle"]
    /\ phase \in {"down", "creating"} => version = {}

NotOpen == phase # "open" => NothingUnderWay

\* The logs still to be replayed, and what the tables of the version hold.
Pending == {toReplay[i] : i \in DOMAIN toReplay}
VersionHolds == InTables(tables, Numbers(version))

\* While it opens, the version and the logs still to be replayed hold what the
\* entry finds; then the version alone, and then a new entry finds it.
Replaying ==
    /\ Pending \subseteq DOMAIN logs
    /\ \A b : b \in DescribedFinds
                <=> b \in VersionHolds \/ \E n \in Pending : b \in RecordsIn(logs[n])
    /\ \A n \in DOMAIN logs : n < nextFile \/ n \in Pending

Replayed ==
    /\ VersionHolds = DescribedFinds
    /\ logfile < nextFile
    /\ logfile \in DOMAIN logs
    /\ logs[logfile] = << >>
    /\ \A n \in DOMAIN logs : n <= logfile

Installing ==
    /\ descriptor \in DOMAIN descriptors
    /\ descriptors[descriptor].state =
         [files |-> version, log |-> logfile, next |-> nextFile, seq |-> lastSeq]
    /\ descriptors[descriptor].synced = descriptors[descriptor].state

Opening ==
    /\ phase \in {"replaying", "describing", "installing"} =>
         /\ descriptor = Described.next
         /\ descriptor < nextFile
         /\ FilesGood(version, tables, nextFile, lastSeq)
    /\ phase = "replaying" => Replaying
    /\ phase \in {"describing", "installing"} => Replayed
    /\ phase = "installing" => Installing

\* A group has been logged; a group is being logged or has been.
Logged == \E w \in Writers : writer[w] = "logged"
Logging == \E w \in Writers : writer[w] \in {"logging", "logged"}

\* The database is open: its numbers.
NumbersAhead ==
    /\ descriptor = current
    /\ current < nextFile
    /\ Described.next <= nextFile
    /\ Described.log <= logfile
    /\ logNumber <= logfile
    /\ logfile < nextFile
    /\ logfile \in DOMAIN logs
    /\ \A n \in DOMAIN logs : n <= logfile
    /\ FilesGood(version, tables, nextFile, lastSeq)

\* The log in use holds the memtable, and a group that was just logged; those
\* before it hold the full memtable.
LogsHoldMemory ==
    /\ imm = InLogs(logs, logNumber, logfile)
    /\ RecordsIn(logs[logfile]) = IF Logged THEN mem \cup group ELSE mem
    /\ \A i \in DOMAIN logs[logfile] : logs[logfile][i] # Torn
    /\ \A b \in mem \cup imm : b.seq <= lastSeq

\* The entry finds what the version and the full memtable hold.
EntryHoldsVersion ==
    /\ InTables(tables, Numbers(Described.files)) \cup InLogs(logs, Described.log, logfile)
         = VersionHolds \cup imm
    /\ VersionHolds \subseteq InTables(tables, Numbers(Described.files))
    /\ flushed \subseteq VersionHolds
    /\ SyncedWithin(VersionHolds, logNumber)

\* Which version the entry names; after an error it need not be known.
EntryNamesVersion ==
    /\ flush.pc = "logged" =>
         Described.files = version \cup {NewTable} /\ Described.log = logfile
    /\ merge.pc = "logged" =>
         Described.files = Merged /\ Described.log = logNumber
    /\ flush.pc # "logged" /\ merge.pc # "logged" /\ ~bgError =>
         Described.files = version /\ Described.log = logNumber

\* The table that a compaction writes is in no version and no synced entry.
OwnTable(n) == /\ n < nextFile
               /\ n \in DOMAIN tables
               /\ n \notin Numbers(version)
               /\ n \notin Numbers(Synced.files)

FlushGood ==
    /\ flush.pc \in {"idle", "building", "logged"}
    /\ flush.pc # "idle" => imm # {} /\ OwnTable(flush.num)
    /\ flush.pc = "building" => flush.num \notin Numbers(Described.files)
    /\ flush.pc = "logged" => tables[flush.num] = [batches |-> imm, whole |-> TRUE]

MergeGood ==
    /\ merge.pc \in {"idle", "merging", "logged"}
    /\ merge.pc # "idle" => merge.inputs \subseteq version /\ OwnTable(merge.num)
    /\ merge.pc = "merging" => merge.num \notin Numbers(Described.files)
    /\ merge.pc = "logged" =>
         /\ flush.pc = "idle"
         /\ tables[merge.num] =
              [batches |-> InTables(tables, Numbers(merge.inputs)), whole |-> TRUE]
    /\ flush.pc # "idle" /\ merge.pc # "idle" => flush.num # merge.num

\* What is being deleted is needed by nothing.
Deletable(x) ==
    /\ x.type = "table" =>
         /\ x.num \notin Numbers(version)
         /\ x.num \notin Numbers(Described.files)
         /\ x.num \notin Numbers(Synced.files)
         /\ flush.pc # "idle" => x.num # flush.num
         /\ merge.pc # "idle" => x.num # merge.num
    /\ x.type = "log" => x.num < logNumber /\ x.num < Described.log
    /\ x.type = "descriptor" => x.num < current

DoomedUnneeded == \A x \in doomed : Deletable(x)

\* Who is awake is first in the queue, ids grow along it and are above what
\* is read, and a group is its first writes, numbered in order.
QueueInOrder ==
    /\ \A w \in Writers : writer[w] \in {"awake", "waiting", "logging", "logged"}
         => queue # << >> /\ queue[1].writer = w
    /\ \A i, j \in DOMAIN queue : i < j => queue[i].id < queue[j].id
    /\ \A i \in DOMAIN queue :
         queue[i].id <= written /\ \A b \in Read : b.id < queue[i].id

Grouped(q, n, seq) == {[id |-> q[i].id, seq |-> seq + i] : i \in 1 .. n}

GroupInOrder ==
    /\ Logging => \E n \in 1 .. Len(queue) : group = Grouped(queue, n, lastSeq)
    /\ ~Logging => group = {}

\* The database is open.
Working ==
    phase = "open" => /\ NumbersAhead /\ LogsHoldMemory /\ EntryHoldsVersion
                      /\ EntryNamesVersion /\ FlushGood /\ MergeGood
                      /\ DoomedUnneeded /\ QueueInOrder /\ GroupInOrder

LevelDBInv ==
    /\ LevelDBTypeOK /\ BudgetSpent /\ LogsBounded
    /\ OnDisk /\ Creating /\ NotOpen /\ Opening /\ Working

-----------------------------------------------------------------------------
\* What an entry names and finds does not depend on other files.
LEMMA FilesKept ==
    ASSUME NEW set, NEW t, NEW u, NEW n1 \in Nat, NEW n2 \in Nat,
           NEW s1 \in Nat, NEW s2 \in Nat,
           FilesGood(set, t, n1, s1), Keeps(t, u, Numbers(set)),
           n1 <= n2, s1 <= s2,
           \A f \in set : f.num \in Nat /\ \A b \in t[f.num].batches : b.seq \in Nat
    PROVE  FilesGood(set, u, n2, s2)
<1>1. ASSUME NEW f \in set
      PROVE  f.num \in Numbers(set)
  BY DEF Numbers
<1> QED BY <1>1 DEF FilesGood, Keeps

\* An entry stays good when the tables it names stay.
LEMMA EntryKept ==
    ASSUME NEW d, NEW t, NEW u, NEW cur,
           EntryGood(d, t, cur), Keeps(t, u, Numbers(d.files))
    PROVE  EntryGood(d, u, cur)
<1>1. ASSUME NEW f \in d.files
      PROVE  f.num \in Numbers(d.files)
  BY DEF Numbers
<1> QED BY <1>1 DEF EntryGood, FilesGood, Keeps

\* The tables of a good entry are there.
LEMMA EntryTables ==
    ASSUME NEW d, NEW t, NEW cur, EntryGood(d, t, cur)
    PROVE  \A n \in Numbers(d.files) : n \in DOMAIN t
BY DEF EntryGood, FilesGood, Numbers, Unreadable

\* A batch has an id and a sequence number.
LEMMA BatchType ==
    ASSUME NEW b \in Batch
    PROVE  b.id \in Nat /\ b.seq \in Nat
BY LevelDBAssumption DEF Batch

\* Whatever is found is a batch.
LEMMA FoundType ==
    ASSUME LevelDBTypeOK
    PROVE  /\ \A S : InTables(tables, S) \subseteq Batch
           /\ \A n \in DOMAIN logs : RecordsIn(logs[n]) \subseteq Batch
           /\ \A a : InLogsFrom(logs, a) \subseteq Batch
           /\ \A d : Found(logs, tables, d) \subseteq Batch
<1>1. ASSUME NEW S, NEW b \in InTables(tables, S)
      PROVE  b \in Batch
  <2>1. PICK n \in S : n \in DOMAIN tables /\ b \in tables[n].batches
    BY <1>1, TablesMember
  <2>2. tables[n] \in [batches : SUBSET Batch, whole : BOOLEAN]
    BY <2>1 DEF LevelDBTypeOK, IsFileMap
  <2> QED BY <2>1, <2>2
<1>2. ASSUME NEW n \in DOMAIN logs, NEW b \in RecordsIn(logs[n])
      PROVE  b \in Batch
  <2>1. logs[n] \in Seq(SUBSET Batch)
    BY DEF LevelDBTypeOK, IsFileMap
  <2> QED BY <2>1, RecordsMember
<1>3. ASSUME NEW a, NEW b \in InLogsFrom(logs, a)
      PROVE  b \in Batch
  BY <1>2, <1>3, LogsFromMember
<1> QED BY <1>1, <1>2, <1>3 DEF Found

\* Logs are new, deleted or shorter, or stay.
FewerRecords ==
    \A n \in DOMAIN logs' :
      \/ RecordsIn(logs'[n]) = {}
      \/ n \in DOMAIN logs /\ RecordsIn(logs'[n]) \subseteq RecordsIn(logs[n])

\* A step that leaves the descriptor in use, what it names and the logs it
\* reads as they are.
DiskKept ==
    /\ current' = current /\ flushed' = flushed
    /\ written' \in Nat /\ written <= written'
    /\ budget'["powerloss"] <= budget["powerloss"]
    /\ budget'["powerloss"] \in Nat
    /\ current # 0 =>
         /\ current \in DOMAIN descriptors'
         /\ descriptors'[current] = descriptors[current]
         /\ Keeps(tables, tables', Numbers(Described.files))
         /\ Keeps(tables, tables', Numbers(Synced.files))
         /\ InLogsFrom(logs', Described.log) = InLogsFrom(logs, Described.log)
         /\ FewerRecords

\* What was described stays described.
SameEntries ==
    /\ Described' = Described
    /\ Synced' = Synced
    /\ DescribedFinds' = DescribedFinds
    /\ InTables(tables', Numbers(Described.files)) = InTables(tables, Numbers(Described.files))

\* As long as the entry in use, its tables and its logs stay, opening the database
\* finds the same as before.
LEMMA DiskStays ==
    ASSUME LevelDBTypeOK, BudgetSpent, OnDisk, DiskKept
    PROVE  /\ OnDisk'
           /\ current # 0 => SameEntries
           /\ Recoverable' = Recoverable
<1>1. CASE current = 0
  <2>1. current' = 0
    BY <1>1 DEF DiskKept
  <2>2. OnDisk'
    BY <2>1 DEF OnDisk
  <2>3. Recoverable = {} /\ Recoverable' = {}
    BY <1>1, <2>1 DEF Recoverable
  <2> QED BY <1>1, <2>2, <2>3
<1>2. CASE current # 0
  <2>1. EntriesGood /\ EntriesFind
    BY <1>2 DEF OnDisk
  <2>2. Described' = Described /\ Synced' = Synced /\ current' = current
    BY <1>2 DEF DiskKept, Described, Synced
  <2>3. /\ InTables(tables', Numbers(Described.files)) = InTables(tables, Numbers(Described.files))
        /\ InTables(tables', Numbers(Synced.files)) = InTables(tables, Numbers(Synced.files))
    BY <1>2, SameTables DEF DiskKept
  <2>4. Found(logs', tables', Described) = Found(logs, tables, Described)
    BY <1>2, <2>3 DEF Found, DiskKept
  <2>5. FewerRecords
    BY <1>2 DEF DiskKept
  <2>6. DescribedFinds' = DescribedFinds
    BY <2>2, <2>4 DEF DescribedFinds
  <2>7. ASSUME NEW V, NEW a, SyncedWithin(V, a)
        PROVE  /\ InTables(tables', Numbers(Synced.files)) \subseteq V
               /\ \A n \in DOMAIN logs' :
                    n >= Synced.log /\ ~(n >= a) => RecordsIn(logs'[n]) \subseteq V
    BY <2>3, <2>5, <2>7 DEF SyncedWithin, FewerRecords
  <2>8. SameEntries
    BY <2>2, <2>3, <2>6 DEF SameEntries
  <2>9. EntriesGood'
    <3>1. EntryGood(Described, tables', current) /\ EntryGood(Synced, tables', current)
      BY <1>2, <2>1, EntryKept DEF EntriesGood, DiskKept
    <3>2. current' \in DOMAIN descriptors'
      BY <1>2 DEF DiskKept
    <3>3. Budget["powerloss"] \in Nat /\ budget["powerloss"] \in Nat
      BY LevelDBAssumption DEF BudgetSpent, Event
    <3>4. budget["powerloss"] < Budget["powerloss"]
            => budget'["powerloss"] < Budget["powerloss"]
      BY <3>3 DEF DiskKept
    <3> QED BY <2>1, <2>2, <3>1, <3>2, <3>4 DEF EntriesGood
  <2>10. EntriesFind'
    <3>1. ASSUME NEW b \in DescribedFinds'
          PROVE  b.id <= written'
      <4>1. b.id <= written
        BY <2>1, <2>6, <3>1 DEF EntriesFind
      <4>2. b \in Batch
        BY <3>1, <2>6, FoundType DEF DescribedFinds
      <4> QED BY <4>1, <4>2, BatchType DEF DiskKept, LevelDBTypeOK
    <3>2. SyncedWithin(InTables(tables, Numbers(Described.files)), Described.log)'
      BY <2>1, <2>2, <2>3, <2>7 DEF EntriesFind, SyncedWithin
    <3> QED BY <2>1, <2>2, <2>3, <2>6, <3>1, <3>2 DEF EntriesFind, DiskKept
  <2>11. Recoverable' = Recoverable
    <3>1. Recoverable = DescribedFinds
      BY <1>2, RecoverableFound DEF DescribedFinds
    <3>2. Recoverable' = DescribedFinds'
      BY <1>2, <2>2, RecoverableFound DEF DescribedFinds
    <3> QED BY <3>1, <3>2, <2>6
  <2> QED BY <2>8, <2>9, <2>10, <2>11 DEF OnDisk
<1> QED BY <1>1, <1>2

\* Logs that are deleted, or new and empty, take nothing away from later
\* numbers on, and add nothing.
LEMMA LogsWithout ==
    ASSUME NEW l, NEW S, NEW a
    PROVE  (\A n \in S : ~(n >= a))
             => InLogsFrom(Without(l, S), a) = InLogsFrom(l, a)
<1> DEFINE m == Without(l, S)
<1>1. /\ DOMAIN m = DOMAIN l \ S
      /\ \A n \in DOMAIN m : m[n] = l[n]
  BY DEF Without
<1> HIDE DEF m
<1>2. ASSUME NEW b, b \in InLogsFrom(m, a)
      PROVE  b \in InLogsFrom(l, a)
  <2>1. PICK n \in DOMAIN m : n >= a /\ b \in RecordsIn(m[n])
    BY <1>2, LogsFromMember
  <2> QED BY <2>1, <1>1, LogsFromMember
<1>3. ASSUME \A n \in S : ~(n >= a), NEW b, b \in InLogsFrom(l, a)
      PROVE  b \in InLogsFrom(m, a)
  <2>1. PICK n \in DOMAIN l : n >= a /\ b \in RecordsIn(l[n])
    BY <1>3, LogsFromMember
  <2> QED BY <2>1, <1>1, <1>3, LogsFromMember
<1> QED BY <1>2, <1>3 DEF m

\* A new and empty log adds nothing to those from number a on.
LEMMA LogsWithNew ==
    ASSUME NEW l, NEW k, NEW a
    PROVE  (k \in DOMAIN l => ~(k >= a))
             => InLogsFrom(Put(l, k, << >>), a) = InLogsFrom(l, a)
<1> DEFINE m == Put(l, k, << >>)
<1>1. /\ DOMAIN m = DOMAIN l \cup {k}
      /\ \A n \in DOMAIN m : n # k => m[n] = l[n]
      /\ m[k] = << >>
  BY DEF Put
<1>2. \A b : b \notin RecordsIn(m[k])
  BY <1>1, RecordsMember
<1> HIDE DEF m
<1>3. ASSUME NEW b, b \in InLogsFrom(m, a)
      PROVE  b \in InLogsFrom(l, a)
  <2>1. PICK n \in DOMAIN m : n >= a /\ b \in RecordsIn(m[n])
    BY <1>3, LogsFromMember
  <2>2. n # k
    BY <2>1, <1>2
  <2> QED BY <2>1, <2>2, <1>1, LogsFromMember
<1>4. ASSUME k \in DOMAIN l => ~(k >= a), NEW b, b \in InLogsFrom(l, a)
      PROVE  b \in InLogsFrom(m, a)
  <2>1. PICK n \in DOMAIN l : n >= a /\ b \in RecordsIn(l[n])
    BY <1>4, LogsFromMember
  <2>2. n # k
    BY <2>1, <1>4
  <2> QED BY <2>1, <2>2, <1>1, LogsFromMember
<1> QED BY <1>3, <1>4 DEF m

\* A file that is written or replaced leaves the files of its type typed.
LEMMA PutType ==
    ASSUME NEW f, NEW n \in Nat, NEW S, NEW x \in S, IsFileMap(f, S)
    PROVE  IsFileMap(Put(f, n, x), S)
BY DEF IsFileMap, Put

\* So do files that are removed.
LEMMA WithoutType ==
    ASSUME NEW f, NEW T, NEW S, IsFileMap(f, S)
    PROVE  IsFileMap(Without(f, T), S)
BY DEF IsFileMap, Without

\* An event of the environment is spent.
LEMMA Spent ==
    ASSUME BudgetSpent, NEW e \in Event, Spend(e)
    PROVE  /\ BudgetSpent'
           /\ budget'["powerloss"] <= budget["powerloss"]
           /\ budget'["powerloss"] \in Nat
           /\ e = "powerloss" => budget'["powerloss"] < Budget["powerloss"]
<1>1. "powerloss" \in Event /\ \A x \in Event : Budget[x] \in Nat /\ budget[x] \in Nat
  BY LevelDBAssumption DEF Event, BudgetSpent
<1>2. budget' \in [Event -> Nat]
  BY <1>1 DEF BudgetSpent, Spend
<1>3. \A x \in Event : budget'[x] = IF x = e THEN budget[x] - 1 ELSE budget[x]
  BY <1>1 DEF BudgetSpent, Spend
<1> QED BY <1>1, <1>2, <1>3 DEF BudgetSpent, Spend

\* A step of the program itself spends nothing of what may happen to it.
LEMMA NotSpent ==
    ASSUME BudgetSpent, UNCHANGED budget
    PROVE  /\ BudgetSpent'
           /\ budget'["powerloss"] <= budget["powerloss"]
           /\ budget'["powerloss"] \in Nat
<1>1. budget["powerloss"] \in Nat
  BY DEF BudgetSpent, Event
<1> QED BY <1>1 DEF BudgetSpent

\* Of the budget only as much matters.
BudgetFalls == /\ BudgetSpent'
               /\ budget'["powerloss"] <= budget["powerloss"]
               /\ budget'["powerloss"] \in Nat

\* A step that touches no file.
LEMMA FilesUntouched ==
    ASSUME LevelDBTypeOK, OnDisk, LogsBounded, BudgetFalls,
           UNCHANGED <<files, flushed>>, written' \in Nat, written <= written'
    PROVE  DiskKept /\ LogsBounded'
<1>1. current' = current /\ descriptors' = descriptors /\ tables' = tables /\ logs' = logs
  BY DEF files
<1>2. LogsBounded'
  BY <1>1 DEF LogsBounded
<1>3. ASSUME current # 0
      PROVE  /\ current \in DOMAIN descriptors'
             /\ Keeps(tables, tables', Numbers(Described.files))
             /\ Keeps(tables, tables', Numbers(Synced.files))
  <2>1. EntriesGood
    BY <1>3 DEF OnDisk
  <2>2. /\ \A n \in Numbers(Described.files) : n \in DOMAIN tables
        /\ \A n \in Numbers(Synced.files) : n \in DOMAIN tables
    BY <2>1, EntryTables DEF EntriesGood
  <2> QED BY <2>1, <2>2, <1>1 DEF EntriesGood, Keeps
<1> QED BY <1>1, <1>2, <1>3 DEF DiskKept, BudgetFalls, FewerRecords

-----------------------------------------------------------------------------
\* The end of the process.  The types of what is on disk.
DiskTypes ==
    /\ IsFileMap(logs, Seq(SUBSET Batch))
    /\ IsFileMap(tables, [batches : SUBSET Batch, whole : BOOLEAN])
    /\ IsFileMap(descriptors, [state : State, synced : State])
    /\ current \in Nat
    /\ written \in 0 .. MaxWrites
    /\ flushed \subseteq Batch

\* A step that forgets the memory, because the process ends, has only what is on disk
\* to answer for.
LEMMA Forgotten ==
    ASSUME Forget, DiskTypes', BudgetSpent', LogsBounded', OnDisk',
           current' = 0 => DOMAIN logs' = {} /\ flushed' = {}
    PROVE  LevelDBInv'
<1>1. LevelDBTypeOK'
  <2>1. /\ toReplay' \in Seq(Nat) /\ queue' \in Seq([writer : Writers, id : 1 .. MaxWrites])
        /\ version' \in SUBSET File
    BY DEF Forget
  <2>2. {logNumber', logfile', nextFile', descriptor', lastSeq'} \subseteq Nat
    BY DEF Forget
  <2>3. flush' \in Job /\ merge' \in Job
    BY DEF Forget, Job, Idle
  <2>4. writer' \in [Writers -> {"idle", "asleep", "awake", "waiting", "logging", "logged"}]
    BY DEF Forget
  <2>5. /\ phase' = "down" /\ mem' = {} /\ imm' = {} /\ group' = {} /\ doomed' = {}
        /\ scheduled' = FALSE /\ bgError' = FALSE
    BY DEF Forget
  <2> QED BY <2>1, <2>2, <2>3, <2>4, <2>5 DEF LevelDBTypeOK, DiskTypes
<1>2. phase' = "down"
  BY DEF Forget
<1>3. Creating'
  BY <1>2 DEF Creating
<1>4. NotOpen'
  BY DEF NotOpen, NothingUnderWay, Forget
<1>5. Opening' /\ Working'
  BY <1>2 DEF Opening, Working
<1> QED BY <1>1, <1>3, <1>4, <1>5 DEF LevelDBInv

\* Files that are doomed are deleted, some or all.
Deleted(gone) ==
    /\ logs' = Without(logs, Of("log", gone))
    /\ tables' = Without(tables, Of("table", gone))
    /\ descriptors' = Without(descriptors, Of("descriptor", gone))

\* What the end of the process finds half deleted (DBImpl::DeleteObsoleteFiles has
\* chosen it) is needed by no version, no entry and no compaction.
LEMMA GoneUnneeded ==
    ASSUME LevelDBTypeOK, NotOpen, Working, NEW gone \in SUBSET doomed
    PROVE  /\ \A n \in Of("log", gone) : phase = "open" /\ n < logNumber /\ n < Described.log
           /\ \A n \in Of("table", gone) :
                /\ n \notin Numbers(version) /\ n \notin Numbers(Described.files)
                /\ n \notin Numbers(Synced.files)
                /\ flush.pc # "idle" => n # flush.num
                /\ merge.pc # "idle" => n # merge.num
           /\ \A n \in Of("descriptor", gone) : n < current
<1>1. \A x \in gone : phase = "open" /\ Deletable(x)
  BY DEF NotOpen, NothingUnderWay, Working, DoomedUnneeded
<1> QED BY <1>1 DEF Of, Deletable

\* So the entry in use keeps its tables and logs when part of it is gone.
LEMMA LessDeleted ==
    ASSUME LevelDBInv, NEW gone \in SUBSET doomed, Deleted(gone), BudgetFalls,
           UNCHANGED <<current, written, flushed>>
    PROVE  DiskKept /\ LogsBounded' /\ DiskTypes'
<1> USE DEF LevelDBInv
<1>1. /\ \A n \in Of("log", gone) : phase = "open" /\ n < logNumber /\ n < Described.log
      /\ \A n \in Of("table", gone) :
           n \notin Numbers(Described.files) /\ n \notin Numbers(Synced.files)
      /\ \A n \in Of("descriptor", gone) : n < current
  BY GoneUnneeded
<1>2. /\ DOMAIN logs' = DOMAIN logs \ Of("log", gone)
      /\ \A n \in DOMAIN logs' : logs'[n] = logs[n]
      /\ DOMAIN tables' = DOMAIN tables \ Of("table", gone)
      /\ \A n \in DOMAIN tables' : tables'[n] = tables[n]
      /\ DOMAIN descriptors' = DOMAIN descriptors \ Of("descriptor", gone)
      /\ \A n \in DOMAIN descriptors' : descriptors'[n] = descriptors[n]
  BY DEF Deleted, Without
<1>3. LogsBounded'
  <2>1. IsFiniteSet(DOMAIN logs')
    BY <1>2, FS_Subset DEF LogsBounded
  <2> QED BY <2>1, <1>2 DEF LogsBounded
<1>4. DiskTypes'
  BY WithoutType DEF Deleted, DiskTypes, LevelDBTypeOK
<1>5. ASSUME current # 0
      PROVE  /\ current \in DOMAIN descriptors'
             /\ descriptors'[current] = descriptors[current]
             /\ Keeps(tables, tables', Numbers(Described.files))
             /\ Keeps(tables, tables', Numbers(Synced.files))
             /\ InLogsFrom(logs', Described.log) = InLogsFrom(logs, Described.log)
             /\ FewerRecords
  <2>1. EntriesGood
    BY <1>5 DEF OnDisk
  <2>2. /\ \A n \in Numbers(Described.files) : n \in DOMAIN tables
        /\ \A n \in Numbers(Synced.files) : n \in DOMAIN tables
    BY <2>1, EntryTables DEF EntriesGood
  <2>3. Keeps(tables, tables', Numbers(Described.files))
    BY <2>2, <1>1, <1>2 DEF Keeps
  <2>4. Keeps(tables, tables', Numbers(Synced.files))
    BY <2>2, <1>1, <1>2 DEF Keeps
  <2>5. current \in DOMAIN descriptors'
    <3>1. current \in Nat /\ ~(current < current)
      BY DEF LevelDBTypeOK
    <3> QED BY <3>1, <2>1, <1>1, <1>2 DEF EntriesGood
  <2>6. current \in Nat /\ Described \in State
    BY <2>1 DEF EntriesGood, LevelDBTypeOK, IsFileMap, Described
  <2>7. \A n \in DOMAIN logs : n \in Nat
    BY DEF LevelDBTypeOK, IsFileMap
  <2>8. Described.log \in Nat
    BY <2>6 DEF State
  <2>9. \A n \in Of("log", gone) : ~(n >= Described.log)
    <3>1. \A n \in Of("log", gone) : n \in Nat
      BY DEF LevelDBTypeOK, Of
    <3> QED BY <3>1, <2>8, <1>1
  <2>10. InLogsFrom(logs', Described.log) = InLogsFrom(logs, Described.log)
    BY <2>9, LogsWithout DEF Deleted
  <2>11. FewerRecords
    BY <1>2 DEF FewerRecords
  <2> QED BY <1>2, <2>3, <2>4, <2>5, <2>10, <2>11
<1>6. written' \in Nat /\ written <= written'
  BY LevelDBAssumption DEF LevelDBTypeOK
<1> QED BY <1>3, <1>4, <1>5, <1>6 DEF DiskKept, BudgetFalls

\* The process ends: what opening the database would find is the same as before.
LEMMA CrashKeeps ==
    ASSUME LevelDBInv, Crash
    PROVE  LevelDBInv' /\ Recoverable' = Recoverable
<1>1. PICK gone \in SUBSET doomed : Deleted(gone)
  BY DEF Crash, Deleted
<1>2. BudgetFalls
  BY Spent DEF Crash, Event, LevelDBInv, BudgetFalls
<1>3. UNCHANGED <<current, written, flushed>> /\ Forget
  BY DEF Crash
<1>4. DiskKept /\ LogsBounded' /\ DiskTypes'
  BY <1>1, <1>2, <1>3, LessDeleted
<1>5. OnDisk' /\ Recoverable' = Recoverable
  BY <1>4, DiskStays DEF LevelDBInv
<1>6. current' = 0 => DOMAIN logs' = {} /\ flushed' = {}
  BY <1>1, <1>3 DEF LevelDBInv, Creating, Deleted, Without
<1> QED BY <1>2, <1>3, <1>4, <1>5, <1>6, Forgotten DEF BudgetFalls

\* After an error of the background work a write fails, and the process ends.
LEMMA FailWriteKeeps ==
    ASSUME LevelDBInv, NEW w \in Writers, FailWrite(w)
    PROVE  LevelDBInv' /\ Recoverable' = Recoverable
<1>1. BudgetFalls
  BY NotSpent DEF FailWrite, LevelDBInv, BudgetFalls
<1>2. UNCHANGED <<files, written, flushed>> /\ Forget
  BY DEF FailWrite
<1>3. written' \in Nat /\ written <= written'
  BY <1>2, LevelDBAssumption DEF LevelDBInv, LevelDBTypeOK
<1>4. DiskKept /\ LogsBounded'
  BY <1>1, <1>2, <1>3, FilesUntouched DEF LevelDBInv
<1>5. OnDisk' /\ Recoverable' = Recoverable
  BY <1>4, DiskStays DEF LevelDBInv
<1>6. current' = 0 => DOMAIN logs' = {} /\ flushed' = {}
  BY <1>2 DEF LevelDBInv, Creating, files
<1>7. DiskTypes'
  BY <1>2 DEF LevelDBInv, LevelDBTypeOK, DiskTypes, files
<1> QED BY <1>1, <1>2, <1>4, <1>5, <1>6, <1>7, Forgotten DEF BudgetFalls

\* Logs that are cut short hold less from every number on.
LEMMA FewerFound ==
    ASSUME FewerRecords, NEW a
    PROVE  InLogsFrom(logs', a) \subseteq InLogsFrom(logs, a)
<1>1. ASSUME NEW b, b \in InLogsFrom(logs', a)
      PROVE  b \in InLogsFrom(logs, a)
  <2>1. PICK n \in DOMAIN logs' : n >= a /\ b \in RecordsIn(logs'[n])
    BY <1>1, LogsFromMember
  <2>2. n \in DOMAIN logs /\ b \in RecordsIn(logs[n])
    BY <2>1 DEF FewerRecords
  <2> QED BY <2>1, <2>2, LogsFromMember
<1> QED BY <1>1

\* What a loss of power does to the files.
Truncated(gone, kept, lost) ==
    /\ \A n \in DOMAIN logs' : /\ n \in DOMAIN logs
                               /\ kept[n] \in Nat /\ kept[n] <= Len(logs[n])
                               /\ logs'[n] = SubSeq(logs[n], 1, kept[n])
    /\ DOMAIN descriptors' = DOMAIN descriptors \ Of("descriptor", gone)
    /\ \A n \in DOMAIN descriptors' :
         /\ descriptors'[n].synced = descriptors[n].synced
         /\ descriptors'[n].state =
              IF n \in lost THEN descriptors[n].synced ELSE descriptors[n].state
         /\ descriptors'[n] \in [state : State, synced : State]
    /\ tables' = Without(tables, Of("table", gone))

\* A loss of power cuts logs off and takes descriptors back to what was synced; the
\* tables stay, but for those that were being deleted.
LEMMA PowerLossTruncates ==
    ASSUME LevelDBTypeOK, PowerLoss
    PROVE  \E gone \in SUBSET doomed : \E kept, lost : Truncated(gone, kept, lost)
<1>1. PICK gone \in SUBSET doomed :
        LET left == DOMAIN logs \ Of("log", gone)
            here == DOMAIN descriptors \ Of("descriptor", gone)
        IN /\ \E kept \in [left -> 0 .. MaxWrites] :
                /\ \A n \in left : kept[n] <= Len(logs[n])
                /\ logs' = [n \in left |-> SubSeq(logs[n], 1, kept[n])]
           /\ \E lost \in SUBSET here :
                descriptors' = [n \in here |->
                   IF n \in lost
                   THEN [descriptors[n] EXCEPT !.state = descriptors[n].synced]
                   ELSE descriptors[n]]
           /\ tables' = Without(tables, Of("table", gone))
  BY DEF PowerLoss
<1> DEFINE left == DOMAIN logs \ Of("log", gone)
           here == DOMAIN descriptors \ Of("descriptor", gone)
<1>2. PICK kept \in [left -> 0 .. MaxWrites] :
        /\ \A n \in left : kept[n] <= Len(logs[n])
        /\ logs' = [n \in left |-> SubSeq(logs[n], 1, kept[n])]
  BY <1>1
<1>3. PICK lost \in SUBSET here :
        descriptors' = [n \in here |->
           IF n \in lost
           THEN [descriptors[n] EXCEPT !.state = descriptors[n].synced]
           ELSE descriptors[n]]
  BY <1>1
<1>4. \A n \in DOMAIN logs' : /\ n \in DOMAIN logs
                              /\ kept[n] \in Nat /\ kept[n] <= Len(logs[n])
                              /\ logs'[n] = SubSeq(logs[n], 1, kept[n])
  BY <1>2, LevelDBAssumption
<1>5. ASSUME NEW n \in DOMAIN descriptors'
      PROVE  /\ descriptors'[n].synced = descriptors[n].synced
             /\ descriptors'[n].state =
                  IF n \in lost THEN descriptors[n].synced ELSE descriptors[n].state
             /\ descriptors'[n] \in [state : State, synced : State]
  <2>1. n \in here
    BY <1>3
  <2>2. descriptors[n] \in [state : State, synced : State]
    BY <2>1 DEF LevelDBTypeOK, IsFileMap
  <2>3. descriptors'[n] = IF n \in lost
                          THEN [descriptors[n] EXCEPT !.state = descriptors[n].synced]
                          ELSE descriptors[n]
    BY <1>3, <2>1
  <2> QED BY <2>2, <2>3
<1>6. DOMAIN descriptors' = here
  BY <1>3
<1>7. Truncated(gone, kept, lost)
  BY <1>1, <1>4, <1>5, <1>6 DEF Truncated
<1> QED BY <1>7

\* The machine stops: opening the database finds no more than before, and it still
\* opens, with all that is safe.
LEMMA PowerLossKeeps ==
    ASSUME LevelDBInv, PowerLoss
    PROVE  LevelDBInv' /\ Recoverable' \subseteq Recoverable
<1> USE DEF LevelDBInv
<1>0. PICK gone \in SUBSET doomed : \E kept, lost : Truncated(gone, kept, lost)
  BY PowerLossTruncates
<1>1. PICK kept, lost : Truncated(gone, kept, lost)
  BY <1>0
<1>2. /\ BudgetFalls
      /\ budget'["powerloss"] < Budget["powerloss"]
  BY Spent DEF PowerLoss, Event, BudgetFalls
<1>3. UNCHANGED <<current, written, flushed>> /\ Forget
  BY DEF PowerLoss
<1>4. /\ \A n \in Of("table", gone) :
           n \notin Numbers(Described.files) /\ n \notin Numbers(Synced.files)
      /\ \A n \in Of("descriptor", gone) : n < current
  BY GoneUnneeded
<1>5. \A n \in DOMAIN logs' : RecordsIn(logs'[n]) \subseteq RecordsIn(logs[n])
  BY <1>1, RecordsCut DEF Truncated, LevelDBTypeOK, IsFileMap
<1>6. FewerRecords
  BY <1>1, <1>5 DEF FewerRecords, Truncated
<1>7. LogsBounded'
  <2>1. IsFiniteSet(DOMAIN logs')
    BY <1>1, FS_Subset DEF LogsBounded, Truncated
  <2>2. PICK top \in Nat : \A n \in DOMAIN logs : \A b \in RecordsIn(logs[n]) : b.seq <= top
    BY DEF LogsBounded
  <2>3. \A n \in DOMAIN logs' : \A b \in RecordsIn(logs'[n]) : b.seq <= top
    BY <1>1, <1>5, <2>2 DEF Truncated
  <2> QED BY <2>1, <2>3 DEF LogsBounded
<1>8. DiskTypes'
  <2>1. IsFileMap(logs', Seq(SUBSET Batch))
    <3>1. ASSUME NEW n \in DOMAIN logs'
          PROVE  n \in Nat /\ logs'[n] \in Seq(SUBSET Batch)
      <4>1. n \in Nat /\ logs[n] \in Seq(SUBSET Batch) /\ kept[n] \in Nat /\ kept[n] <= Len(logs[n])
        BY <1>1 DEF LevelDBTypeOK, IsFileMap, Truncated
      <4>2. SubSeq(logs[n], 1, kept[n]) \in Seq(SUBSET Batch)
        BY <4>1
      <4> QED BY <1>1, <4>1, <4>2 DEF Truncated
    <3> QED BY <3>1 DEF IsFileMap
  <2>2. IsFileMap(descriptors', [state : State, synced : State])
    BY <1>1 DEF LevelDBTypeOK, IsFileMap, Truncated
  <2>3. IsFileMap(tables', [batches : SUBSET Batch, whole : BOOLEAN])
    BY <1>1, WithoutType DEF LevelDBTypeOK, Truncated
  <2> QED BY <1>3, <2>1, <2>2, <2>3 DEF LevelDBTypeOK, DiskTypes
<1>9. CASE current = 0
  <2>1. OnDisk'
    BY <1>3, <1>9 DEF OnDisk
  <2>2. DOMAIN logs' = {} /\ flushed' = {}
    BY <1>1, <1>3, <1>9 DEF Creating, Truncated
  <2>3. Recoverable' = {}
    BY <1>3, <1>9 DEF Recoverable
  <2>4. LevelDBInv'
    BY <1>2, <1>3, <1>7, <1>8, <2>1, <2>2, Forgotten DEF BudgetFalls
  <2> QED BY <2>3, <2>4
<1>10. CASE current # 0
  <2>1. EntriesGood /\ EntriesFind
    BY <1>10 DEF OnDisk
  <2>2. current \in DOMAIN descriptors'
    <3>1. current \in Nat /\ ~(current < current)
      BY DEF LevelDBTypeOK
    <3> QED BY <3>1, <2>1, <1>1, <1>4 DEF EntriesGood, Truncated
  <2>3. /\ Synced' = Synced
        /\ Described' = Described \/ Described' = Synced
    BY <1>1, <1>3, <2>2 DEF Truncated, Synced, Described
  <2>4. Keeps(tables, tables', Numbers(Described.files)) /\ Keeps(tables, tables', Numbers(Synced.files))
    <3>1. /\ \A n \in Numbers(Described.files) : n \in DOMAIN tables
          /\ \A n \in Numbers(Synced.files) : n \in DOMAIN tables
      BY <2>1, EntryTables DEF EntriesGood
    <3> QED BY <3>1, <1>1, <1>4 DEF Keeps, Truncated, Without
  <2>5. EntryGood(Described, tables', current) /\ EntryGood(Synced, tables', current)
    BY <2>1, <2>4, EntryKept DEF EntriesGood
  <2>6. current \in Nat /\ Described \in State /\ Synced \in State
    BY <2>1 DEF EntriesGood, LevelDBTypeOK, IsFileMap, Described, Synced
  <2>7. EntriesGood'
    BY <1>2, <1>3, <2>1, <2>2, <2>3, <2>5, <2>6 DEF EntriesGood, State
  <2>8. /\ InTables(tables', Numbers(Described.files)) = InTables(tables, Numbers(Described.files))
        /\ InTables(tables', Numbers(Synced.files)) = InTables(tables, Numbers(Synced.files))
    BY <2>4, SameTables
  <2>9. /\ InLogsFrom(logs', Described.log) \subseteq InLogsFrom(logs, Described.log)
        /\ InLogsFrom(logs', Synced.log) \subseteq InLogsFrom(logs, Synced.log)
    BY <1>6, FewerFound
  <2>10. SyncedWithin(InTables(tables, Numbers(Described.files)), Described.log)
    BY <2>1 DEF EntriesFind
  <2>11. Found(logs', tables', Described) \subseteq DescribedFinds
    BY <2>8, <2>9 DEF Found, DescribedFinds
  <2>12. Found(logs', tables', Synced) \subseteq DescribedFinds
    <3>1. ASSUME NEW b, b \in InLogsFrom(logs', Synced.log)
          PROVE  b \in DescribedFinds
      <4>1. PICK n \in DOMAIN logs : n >= Synced.log /\ b \in RecordsIn(logs[n])
        BY <2>9, <3>1, LogsFromMember
      <4>2. CASE n >= Described.log
        BY <4>1, <4>2, LogsFromMember DEF Found, DescribedFinds
      <4>3. CASE ~(n >= Described.log)
        BY <4>1, <4>3, <2>10 DEF SyncedWithin, Found, DescribedFinds
      <4> QED BY <4>2, <4>3
    <3> QED BY <2>8, <2>10, <3>1 DEF Found, DescribedFinds, SyncedWithin
  <2>13. DescribedFinds' \subseteq DescribedFinds
    BY <2>3, <2>11, <2>12 DEF DescribedFinds
  <2>14. SyncedWithin(InTables(tables, Numbers(Described.files)), Described.log)'
    <3>1. CASE Described' = Described
      <4>1. \A n \in DOMAIN logs' : n >= Synced.log /\ ~(n >= Described.log)
              => RecordsIn(logs'[n]) \subseteq InTables(tables, Numbers(Described.files))
        BY <1>6, <2>10 DEF FewerRecords, SyncedWithin
      <4> QED BY <2>3, <2>8, <2>10, <3>1, <4>1 DEF SyncedWithin
    <3>2. CASE Described' = Synced
      BY <2>3, <3>2 DEF SyncedWithin
    <3> QED BY <2>3, <3>1, <3>2
  <2>15. EntriesFind'
    <3>1. /\ flushed' \subseteq InTables(tables', Numbers(Described'.files))
          /\ flushed' \subseteq InTables(tables', Numbers(Synced'.files))
      BY <1>3, <2>1, <2>3, <2>8 DEF EntriesFind
    <3>2. (\A b \in DescribedFinds' : b.id <= written') /\ InOrder(DescribedFinds')
      BY <1>3, <2>1, <2>13 DEF EntriesFind, InOrder
    <3> QED BY <2>14, <3>1, <3>2 DEF EntriesFind
  <2>16. OnDisk'
    BY <2>7, <2>15 DEF OnDisk
  <2>17. LevelDBInv'
    BY <1>2, <1>3, <1>7, <1>8, <1>10, <2>16, Forgotten DEF BudgetFalls
  <2>18. Recoverable = DescribedFinds /\ Recoverable' = DescribedFinds'
    BY <1>3, <1>10, RecoverableFound DEF DescribedFinds
  <2> QED BY <2>13, <2>17, <2>18
<1> QED BY <1>9, <1>10

\* Whoever logs does so while the database is open, and to the log in use.
LEMMA LoggingOpen ==
    ASSUME LevelDBInv, NEW w \in Writers, writer[w] # "idle"
    PROVE  /\ phase = "open" /\ current # 0
           /\ NumbersAhead /\ LogsHoldMemory /\ EntryHoldsVersion
           /\ EntryNamesVersion /\ FlushGood /\ MergeGood
           /\ DoomedUnneeded /\ QueueInOrder /\ GroupInOrder
<1>1. phase = "open"
  BY DEF LevelDBInv, NotOpen, NothingUnderWay
<1>2. current # 0
  BY <1>1 DEF LevelDBInv, Creating
<1> QED BY <1>1, <1>2 DEF LevelDBInv, Working

\* A record that cannot be written is torn, and the process ends with its log as it is:
\* replaying it stops there and finds what it found.
LEMMA FailToAddRecordKeeps ==
    ASSUME LevelDBInv, NEW w \in Writers, FailToAddRecord(w)
    PROVE  LevelDBInv' /\ Recoverable' = Recoverable
<1> USE DEF LevelDBInv
<1>1. /\ writer[w] = "logging" /\ Forget
      /\ UNCHANGED <<tables, descriptors, current, written, flushed>>
      /\ logs' = [logs EXCEPT ![logfile] = Append(logs[logfile], Torn)]
  BY DEF FailToAddRecord
<1>2. BudgetFalls
  BY Spent DEF FailToAddRecord, Event, BudgetFalls
<1>3. current # 0 /\ NumbersAhead
  BY <1>1, LoggingOpen
<1>4. /\ DOMAIN logs' = DOMAIN logs
      /\ logs'[logfile] = Append(logs[logfile], Torn)
      /\ \A n \in DOMAIN logs : n # logfile => logs'[n] = logs[n]
      /\ logfile \in DOMAIN logs
      /\ logs[logfile] \in Seq(SUBSET Batch)
  BY <1>1, <1>3 DEF NumbersAhead, LevelDBTypeOK, IsFileMap
<1>5. Torn \in SUBSET Batch /\ Append(logs[logfile], Torn) \in Seq(SUBSET Batch)
  <2>1. Torn \in SUBSET Batch
    BY DEF Torn
  <2> QED BY <2>1, <1>4
<1>6. \A n \in DOMAIN logs : RecordsIn(logs'[n]) = RecordsIn(logs[n])
  <2>1. RecordsIn(logs'[logfile]) = RecordsIn(logs[logfile])
    BY <1>4, <1>5, RecordsAppended
  <2> QED BY <2>1, <1>4
<1>7. LogsBounded'
  BY <1>4, <1>6 DEF LogsBounded
<1>8. DiskTypes'
  <2>1. IsFileMap(logs', Seq(SUBSET Batch))
    BY <1>4, <1>5 DEF LevelDBTypeOK, IsFileMap
  <2> QED BY <1>1, <2>1 DEF LevelDBTypeOK, DiskTypes
<1>9. FewerRecords
  BY <1>4, <1>6 DEF FewerRecords
<1>10. InLogsFrom(logs', Described.log) = InLogsFrom(logs, Described.log)
  <2>1. ASSUME NEW b
        PROVE  b \in InLogsFrom(logs', Described.log) <=> b \in InLogsFrom(logs, Described.log)
    BY <1>4, <1>6, LogsFromMember
  <2> QED BY <2>1
<1>11. EntriesGood
  BY <1>3 DEF OnDisk
<1>12. /\ Keeps(tables, tables', Numbers(Described.files))
       /\ Keeps(tables, tables', Numbers(Synced.files))
  BY <1>1, <1>11, EntryTables DEF EntriesGood, Keeps
<1>13. written' \in Nat /\ written <= written'
  BY <1>1, LevelDBAssumption DEF LevelDBTypeOK
<1>14. DiskKept
  BY <1>1, <1>2, <1>9, <1>10, <1>11, <1>12, <1>13 DEF DiskKept, BudgetFalls, EntriesGood
<1>15. OnDisk' /\ Recoverable' = Recoverable
  BY <1>14, DiskStays
<1> QED BY <1>1, <1>2, <1>3, <1>7, <1>8, <1>15, Forgotten DEF BudgetFalls

\* While there is a descriptor in use its two entries are typed.
LEMMA FoundTypes ==
    ASSUME LevelDBTypeOK, current # 0, EntriesGood
    PROVE  /\ Described \in State /\ Synced \in State
           /\ \A n \in Numbers(Described.files) : n \in Nat
           /\ \A n \in Numbers(Synced.files) : n \in Nat
           /\ Described.log \in Nat /\ Described.next \in Nat /\ Described.seq \in Nat
           /\ Synced.log \in Nat /\ Synced.next \in Nat /\ Synced.seq \in Nat
<1>1. Described \in State /\ Synced \in State
  BY DEF EntriesGood, LevelDBTypeOK, IsFileMap, Described, Synced
<1> QED BY <1>1 DEF State, Numbers, File

-----------------------------------------------------------------------------
\* Opening the database.  A finite set of numbers has a greatest one.
LEMMA MaxProperties ==
    ASSUME NEW S \in SUBSET Int, IsFiniteSet(S), S # {}
    PROVE  Max(S) \in S /\ \A x \in S : x <= Max(S)
<1>1. PICK m \in S : \A x \in S : x <= m
  BY GreatestProperties
<1>2. \E x \in S : \A y \in S : x >= y
  BY <1>1
<1>3. Max(S) \in S /\ \A y \in S : Max(S) >= y
  BY <1>2 DEF Max
<1> QED BY <1>3

\* The last sequence number of a set of batches bounds all of them, and is no less than
\* the one known before (DBImpl::RecoverLogFile, max_sequence).
LEMMA LastOfProperties ==
    ASSUME NEW B, NEW least \in Nat, NEW top \in Nat,
           \A b \in B : b.seq \in Nat /\ b.seq <= top
    PROVE  /\ LastOf(B, least) \in Nat
           /\ least <= LastOf(B, least)
           /\ \A b \in B : b.seq <= LastOf(B, least)
<1> DEFINE S == {b.seq : b \in B} \cup {least}
           k == IF top < least THEN least ELSE top
<1>1. S \in SUBSET Nat /\ k \in Nat /\ \A s \in S : s <= k
  OBVIOUS
<1>2. S \in SUBSET Int /\ S # {} /\ IsFiniteSet(S)
  <2> HIDE DEF S, k
  <2>1. IsFiniteSet(S)
    BY <1>1, FS_BoundedSetOfNaturals
  <2>2. S \in SUBSET Int
    BY <1>1
  <2> QED BY <2>1, <2>2 DEF S
<1>3. LastOf(B, least) = Max(S)
  BY DEF LastOf
<1>4. least \in S /\ \A b \in B : b.seq \in S
  OBVIOUS
<1> HIDE DEF S, k
<1>5. Max(S) \in S /\ \A x \in S : x <= Max(S)
  BY <1>2, MaxProperties
<1>6. Max(S) \in Nat
  BY <1>5, <1>1
<1> QED BY <1>3, <1>4, <1>5, <1>6

\* DBImpl::NewDB: the first descriptor is written, and is not yet in use.
LEMMA WriteFirstDescriptorKeeps ==
    ASSUME LevelDBInv, WriteFirstDescriptor
    PROVE  LevelDBInv' /\ Recoverable' = Recoverable
<1> USE DEF LevelDBInv
<1>1. /\ phase = "down" /\ current = 0 /\ phase' = "creating"
      /\ descriptors' = Put(descriptors, 1, [state |-> FirstEntry, synced |-> Unreadable])
      /\ UNCHANGED <<logs, tables, current, toReplay, version, logNumber, nextFile,
                     descriptor, logfile, lastSeq, mem, imm, scheduled, bgError, flush,
                     merge, doomed, queue, writer, group, written, flushed, budget>>
  BY DEF WriteFirstDescriptor, FirstEntry, versions, background, writing
<1>2. LevelDBTypeOK'
  <2>1. [state |-> FirstEntry, synced |-> Unreadable] \in [state : State, synced : State]
    BY DEF FirstEntry, Unreadable, State
  <2>2. IsFileMap(descriptors', [state : State, synced : State])
    BY <1>1, <2>1, PutType DEF LevelDBTypeOK
  <2> QED BY <1>1, <2>2 DEF LevelDBTypeOK
<1>3. BudgetSpent' /\ LogsBounded'
  BY <1>1 DEF BudgetSpent, LogsBounded
<1>4. OnDisk'
  BY <1>1 DEF OnDisk
<1>5. Creating'
  BY <1>1 DEF Creating, Put
<1>6. NotOpen'
  BY <1>1 DEF NotOpen, NothingUnderWay
<1>7. Opening' /\ Working'
  BY <1>1 DEF Opening, Working
<1>8. Recoverable' = Recoverable
  BY <1>1 DEF Recoverable
<1> QED BY <1>2, <1>3, <1>4, <1>5, <1>6, <1>7, <1>8

\* DBImpl::NewDB: CURRENT names it; there is nothing to find.
LEMMA NameFirstDescriptorKeeps ==
    ASSUME LevelDBInv, NameFirstDescriptor
    PROVE  LevelDBInv' /\ Recoverable' = Recoverable
<1> USE DEF LevelDBInv
<1>1. /\ phase = "creating" /\ current' = 1 /\ phase' = "down"
      /\ UNCHANGED <<logs, tables, descriptors, toReplay, version, logNumber, nextFile,
                     descriptor, logfile, lastSeq, mem, imm, scheduled, bgError, flush,
                     merge, doomed, queue, writer, group, written, flushed, budget>>
  BY DEF NameFirstDescriptor, versions, background, writing
<1>2. /\ current = 0 /\ 1 \in DOMAIN descriptors
      /\ Described' = FirstEntry /\ Synced' = Unreadable
      /\ DOMAIN logs = {} /\ flushed = {} /\ version = {}
  BY <1>1 DEF Creating, Described, Synced, NotOpen, NothingUnderWay
<1>3. LevelDBTypeOK'
  BY <1>1 DEF LevelDBTypeOK
<1>4. BudgetSpent' /\ LogsBounded'
  BY <1>1 DEF BudgetSpent, LogsBounded
<1>5. Numbers(FirstEntry.files) = {} /\ Numbers(Unreadable.files) = {}
  BY DEF Numbers, FirstEntry, Unreadable
<1>6. \A b : b \notin InTables(tables', {}) /\ b \notin InLogsFrom(logs', 0)
  BY <1>1, <1>2, TablesMember, LogsFromMember
<1>7. DescribedFinds' = {}
  BY <1>2, <1>5, <1>6 DEF DescribedFinds, Found, FirstEntry
<1>8. EntriesGood'
  BY <1>1, <1>2 DEF EntriesGood, EntryGood, FilesGood, FirstEntry, Unreadable
<1>9. EntriesFind'
  <2>1. SyncedWithin(InTables(tables, Numbers(Described.files)), Described.log)'
    BY <1>1, <1>2, <1>5, <1>6 DEF SyncedWithin
  <2> QED BY <1>1, <1>2, <1>7, <2>1 DEF EntriesFind, InOrder
<1>10. OnDisk'
  BY <1>8, <1>9 DEF OnDisk
<1>11. Creating'
  BY <1>1 DEF Creating
<1>12. NotOpen'
  BY <1>1, <1>2 DEF NotOpen, NothingUnderWay
<1>13. Opening' /\ Working'
  BY <1>1 DEF Opening, Working
<1>14. Recoverable' = Recoverable
  BY <1>1, <1>2, <1>7, RecoverableFound DEF DescribedFinds
<1> QED BY <1>3, <1>4, <1>10, <1>11, <1>12, <1>13, <1>14

\* The logs to replay are those from the entry's on, in some order.
LEMMA LogsInOrder ==
    ASSUME LevelDBTypeOK, LogsBounded, NEW a \in Nat
    PROVE  /\ Ascending(LiveLogs(a)) \in Seq(Nat)
           /\ \A n : n \in LiveLogs(a)
                <=> \E i \in DOMAIN Ascending(LiveLogs(a)) : Ascending(LiveLogs(a))[i] = n
<1> DEFINE K == LiveLogs(a)
<1>1. K \in SUBSET Nat /\ K \subseteq DOMAIN logs
  BY DEF LiveLogs, LevelDBTypeOK, IsFileMap
<1>2. IsFiniteSet(K)
  BY <1>1, FS_Subset DEF LogsBounded
<1> HIDE DEF K
<1>3. K \in SUBSET Int
  BY <1>1
<1>4. /\ Cardinality(K) \in Nat
      /\ Ascending(K) \in [1 .. Cardinality(K) -> K]
      /\ \A k \in K : \E i \in 1 .. Cardinality(K) : Ascending(K)[i] = k
  BY <1>2, <1>3, AscendingProperties
<1>5. Ascending(K) \in [1 .. Cardinality(K) -> Nat] /\ DOMAIN Ascending(K) = 1 .. Cardinality(K)
  BY <1>1, <1>4
<1>6. Ascending(K) \in Seq(Nat)
  BY <1>4, <1>5
<1> QED BY <1>4, <1>5, <1>6 DEF K

\* DBImpl::Recover: the version is that of the entry, and the logs from its own on are
\* yet to be replayed.
LEMMA RecoverKeeps ==
    ASSUME LevelDBInv, Recover
    PROVE  LevelDBInv' /\ Recoverable' = Recoverable
<1> USE DEF LevelDBInv
<1>1. /\ phase = "down" /\ current # 0 /\ Described # Unreadable
      /\ version' = Described.files /\ logNumber' = Described.log
      /\ descriptor' = Described.next /\ nextFile' = Described.next + 1
      /\ lastSeq' = Described.seq
      /\ toReplay' = Ascending(LiveLogs(Described.log))
      /\ phase' = "replaying"
      /\ UNCHANGED <<files, logs, tables, descriptors, current, logfile, mem, imm, scheduled,
                     bgError, flush, merge, doomed, queue, writer, group, written,
                     flushed, budget>>
  BY DEF Recover, files, background, writing
<1>2. EntriesGood /\ EntriesFind
  BY <1>1 DEF OnDisk
<1>3. /\ Described \in State
      /\ \A n \in Numbers(Described.files) : n \in Nat
      /\ Described.log \in Nat /\ Described.next \in Nat /\ Described.seq \in Nat
  BY <1>1, <1>2, FoundTypes
<1>4. BudgetFalls
  BY <1>1, NotSpent DEF BudgetFalls
<1>5. DiskKept /\ LogsBounded'
  <2>1. written' \in Nat /\ written <= written'
    BY <1>1, LevelDBAssumption DEF LevelDBTypeOK
  <2> QED BY <1>1, <1>4, <2>1, FilesUntouched
<1>6. OnDisk' /\ SameEntries /\ Recoverable' = Recoverable
  BY <1>1, <1>5, DiskStays
<1>7. LevelDBTypeOK'
  <2>1. toReplay' \in Seq(Nat)
    BY <1>1, <1>3, LogsInOrder
  <2>2. version' \in SUBSET File
    BY <1>1, <1>3 DEF State
  <2>3. {logNumber', logfile', nextFile', descriptor', lastSeq'} \subseteq Nat
    BY <1>1, <1>3 DEF LevelDBTypeOK
  <2> QED BY <1>1, <2>1, <2>2, <2>3 DEF LevelDBTypeOK
<1>8. Creating'
  BY <1>1, <1>6 DEF Creating, SameEntries
<1>9. NotOpen'
  BY <1>1 DEF NotOpen, NothingUnderWay
<1>10. FilesGood(version', tables', nextFile', lastSeq')
  <2>1. FilesGood(Described.files, tables, Described.next, Described.seq)
    BY <1>1, <1>2 DEF EntriesGood, EntryGood
  <2>2. \A f \in Described.files : f.num < Described.next + 1
    BY <1>3, <2>1 DEF FilesGood, Numbers
  <2> QED BY <1>1, <2>1, <2>2 DEF FilesGood
<1>11. Replaying'
  <2>1. \A n : n \in Pending' <=> n \in DOMAIN logs /\ n >= Described.log
    <3>1. \A n : n \in Pending' <=> n \in LiveLogs(Described.log)
      BY <1>1, <1>3, LogsInOrder DEF Pending
    <3> QED BY <3>1 DEF LiveLogs
  <2>2. Pending' \subseteq DOMAIN logs'
    BY <1>1, <2>1
  <2>3. VersionHolds' = InTables(tables, Numbers(Described.files))
    BY <1>1 DEF VersionHolds
  <2>4. ASSUME NEW b
        PROVE  b \in DescribedFinds
                 <=> b \in VersionHolds' \/ \E n \in Pending' : b \in RecordsIn(logs[n])
    BY <2>1, <2>3, LogsFromMember DEF DescribedFinds, Found
  <2>5. ASSUME NEW n \in DOMAIN logs'
        PROVE  n < nextFile' \/ n \in Pending'
    <3>1. n \in Nat /\ n \in DOMAIN logs
      BY <1>1 DEF LevelDBTypeOK, IsFileMap
    <3>2. Described.log < Described.next
      BY <1>1, <1>2 DEF EntriesGood, EntryGood
    <3> QED BY <1>1, <1>3, <2>1, <3>1, <3>2
  <2>6. logs' = logs /\ DescribedFinds' = DescribedFinds
    BY <1>1, <1>6 DEF SameEntries
  <2> QED BY <2>2, <2>4, <2>5, <2>6 DEF Replaying
<1>12. Opening'
  BY <1>1, <1>3, <1>6, <1>10, <1>11 DEF Opening, SameEntries
<1>13. Working'
  BY <1>1 DEF Working
<1> QED BY <1>4, <1>5, <1>6, <1>7, <1>8, <1>9, <1>12, <1>13 DEF BudgetFalls

\* A table under a number not used before leaves the others as they are.
LEMMA PutKeeps ==
    ASSUME NEW t, NEW k, NEW x, NEW S, k \notin S, \A n \in S : n \in DOMAIN t
    PROVE  Keeps(t, Put(t, k, x), S)
BY DEF Keeps, Put

\* Opening goes on: what the entry names is below the next number.
LEMMA OpeningAhead ==
    ASSUME LevelDBInv, phase \in {"replaying", "describing", "installing"}
    PROVE  /\ current # 0 /\ EntriesGood /\ EntriesFind /\ Described # Unreadable
           /\ nextFile \notin Numbers(Described.files)
           /\ nextFile \notin Numbers(Synced.files)
           /\ nextFile \notin Numbers(version)
           /\ Described.log < nextFile
           /\ \A n \in Numbers(Described.files) : n \in DOMAIN tables
           /\ \A n \in Numbers(Synced.files) : n \in DOMAIN tables
           /\ \A n \in Numbers(version) : n \in DOMAIN tables
<1> USE DEF LevelDBInv
<1>1. current # 0 /\ Described # Unreadable
  BY DEF Creating
<1>2. EntriesGood /\ EntriesFind
  BY <1>1 DEF OnDisk
<1>3. /\ \A n \in Numbers(Described.files) : n \in Nat
      /\ \A n \in Numbers(Synced.files) : n \in Nat
      /\ Described.log \in Nat /\ Described.next \in Nat /\ Synced.next \in Nat
      /\ nextFile \in Nat /\ \A n \in Numbers(version) : n \in Nat
  BY <1>1, <1>2, FoundTypes DEF LevelDBTypeOK, Numbers, File
<1>4. /\ Described.next < nextFile
      /\ FilesGood(version, tables, nextFile, lastSeq)
  BY DEF Opening
<1>5. /\ \A n \in Numbers(Described.files) : n < Described.next
      /\ \A n \in Numbers(Synced.files) : n < Synced.next
      /\ \A n \in Numbers(version) : n < nextFile
  BY <1>2, <1>4 DEF EntriesGood, EntryGood, FilesGood, Numbers, Unreadable
<1>6. Synced.next <= Described.next /\ Described.log < Described.next
  BY <1>1, <1>2 DEF EntriesGood, EntryGood
<1>7. /\ \A n \in Numbers(Described.files) : n \in DOMAIN tables
      /\ \A n \in Numbers(Synced.files) : n \in DOMAIN tables
      /\ \A n \in Numbers(version) : n \in DOMAIN tables
  BY <1>2, <1>4, EntryTables DEF EntriesGood, FilesGood, Numbers
<1>8. /\ nextFile \notin Numbers(Described.files)
      /\ nextFile \notin Numbers(Synced.files)
      /\ nextFile \notin Numbers(version)
      /\ Described.log < nextFile
  BY <1>3, <1>4, <1>5, <1>6
<1> QED BY <1>1, <1>2, <1>7, <1>8

\* The head and the tail of what is to be replayed.
LEMMA PendingHead ==
    ASSUME NEW q \in Seq(Nat), q # << >>
    PROVE  /\ Head(q) \in Nat /\ Tail(q) \in Seq(Nat)
           /\ \A n : (\E i \in DOMAIN q : q[i] = n)
                       <=> n = Head(q) \/ \E i \in DOMAIN Tail(q) : Tail(q)[i] = n
<1>1. /\ Len(q) \in Nat /\ Len(q) >= 1 /\ DOMAIN q = 1 .. Len(q)
      /\ Head(q) = q[1] /\ Tail(q) \in Seq(Nat) /\ DOMAIN Tail(q) = 1 .. Len(q) - 1
      /\ \A i \in 1 .. Len(q) - 1 : Tail(q)[i] = q[i + 1]
  OBVIOUS
<1>2. ASSUME NEW i \in DOMAIN q
      PROVE  q[i] = Head(q) \/ \E j \in DOMAIN Tail(q) : Tail(q)[j] = q[i]
  <2>1. CASE i = 1
    BY <1>1, <2>1
  <2>2. CASE i # 1
    <3>1. i - 1 \in 1 .. Len(q) - 1 /\ (i - 1) + 1 = i
      BY <1>1, <2>2
    <3>2. Tail(q)[i - 1] = q[i]
      BY <1>1, <3>1
    <3> QED BY <1>1, <3>1, <3>2
  <2> QED BY <2>1, <2>2
<1>3. ASSUME NEW i \in DOMAIN Tail(q)
      PROVE  \E j \in DOMAIN q : q[j] = Tail(q)[i]
  <2>1. i + 1 \in 1 .. Len(q) /\ Tail(q)[i] = q[i + 1]
    BY <1>1
  <2> QED BY <1>1, <2>1
<1>4. Head(q) \in Nat /\ \E j \in DOMAIN q : q[j] = Head(q)
  <2>1. 1 \in DOMAIN q /\ q[1] = Head(q)
    BY <1>1
  <2> QED BY <2>1
<1>5. ASSUME NEW n
      PROVE  (\E i \in DOMAIN q : q[i] = n)
                <=> n = Head(q) \/ \E i \in DOMAIN Tail(q) : Tail(q)[i] = n
  BY <1>2, <1>3, <1>4, Zenon
<1> QED BY <1>1, <1>4, <1>5

\* What replaying the log n makes: a table if there is anything in it.
Replays(n, made) ==
    /\ \/ made = {} /\ RecordsIn(logs[n]) = {} /\ tables' = tables
       \/ /\ made = {nextFile} /\ RecordsIn(logs[n]) # {}
          /\ tables' = Put(tables, nextFile,
                           [batches |-> RecordsIn(logs[n]), whole |-> TRUE])
    /\ version' = version \cup {[num |-> f, level |-> 0] : f \in made}
    /\ nextFile' \in Nat /\ nextFile <= nextFile' /\ n < nextFile'
    /\ \A f \in made : f < nextFile'
    /\ lastSeq' \in Nat /\ lastSeq <= lastSeq'
    /\ \A b \in RecordsIn(logs[n]) : b.seq <= lastSeq'

\* The next log is there, and replaying it makes a table of what its records hold, or
\* none.
LEMMA RecoverLogFileReplays ==
    ASSUME LevelDBTypeOK, LogsBounded, Opening, RecoverLogFile
    PROVE  /\ Head(toReplay) \in DOMAIN logs
           /\ \E made : Replays(Head(toReplay), made)
<1> DEFINE n == Head(toReplay)
           batches == ReadRecords(n)
           made == IF batches = {} THEN {} ELSE {nextFile}
<1>1. /\ phase = "replaying" /\ toReplay # << >>
      /\ tables' = IF made = {} THEN tables
                   ELSE Put(tables, nextFile, [batches |-> batches, whole |-> TRUE])
      /\ version' = version \cup {[num |-> f, level |-> 0] : f \in made}
      /\ nextFile' = Max({nextFile + Cardinality(made), n + 1})
      /\ lastSeq' = LastOf(batches, lastSeq)
  BY DEF RecoverLogFile
<1>2. batches = RecordsIn(logs[n])
  BY DEF ReadRecords, RecordsIn
<1>3. n \in Nat /\ n \in DOMAIN logs
  <2>1. Pending \subseteq DOMAIN logs
    BY <1>1 DEF Opening, Replaying
  <2>2. toReplay \in Seq(Nat)
    BY DEF LevelDBTypeOK
  <2>3. 1 \in DOMAIN toReplay /\ n = toReplay[1] /\ n \in Nat
    BY <1>1, <2>2
  <2> QED BY <2>1, <2>3 DEF Pending
<1>4. nextFile \in Nat /\ lastSeq \in Nat
  BY DEF LevelDBTypeOK
<1>5. /\ lastSeq' \in Nat /\ lastSeq <= lastSeq' /\ \A b \in batches : b.seq <= lastSeq'
  <2>1. PICK top \in Nat : \A m \in DOMAIN logs : \A b \in RecordsIn(logs[m]) : b.seq <= top
    BY DEF LogsBounded
  <2>2. \A b \in batches : b.seq \in Nat /\ b.seq <= top
    BY <1>2, <1>3, <2>1, FoundType, BatchType
  <2> HIDE DEF n, batches, made
  <2> QED BY <1>1, <1>4, <2>1, <2>2, LastOfProperties
<1>6. /\ Cardinality(made) \in Nat
      /\ made = {} => Cardinality(made) = 0
      /\ made # {} => Cardinality(made) = 1
  <2>1. Cardinality({}) = 0 /\ Cardinality({nextFile}) = 1
    BY FS_EmptySet, FS_Singleton
  <2>2. made = {} \/ made = {nextFile}
    OBVIOUS
  <2> HIDE DEF made
  <2> QED BY <2>1, <2>2
<1>7. /\ nextFile' \in Nat /\ nextFile + Cardinality(made) <= nextFile' /\ n + 1 <= nextFile'
  <2> DEFINE a == nextFile + Cardinality(made)
             S == {a, n + 1}
  <2>1. a \in Nat /\ n + 1 \in Nat
    BY <1>3, <1>4, <1>6
  <2> HIDE DEF a, n, made
  <2>2. IsFiniteSet(S)
    <3>1. IsFiniteSet({a}) /\ S = {a} \cup {n + 1}
      BY FS_Singleton
    <3> QED BY <3>1, FS_AddElement
  <2>3. S \in SUBSET Int /\ S # {} /\ a \in S /\ n + 1 \in S
    BY <2>1
  <2>4. nextFile' = Max(S)
    BY <1>1 DEF a
  <2> HIDE DEF S
  <2>5. Max(S) \in S /\ \A x \in S : x <= Max(S)
    BY <2>2, <2>3, MaxProperties
  <2> QED BY <2>1, <2>3, <2>4, <2>5 DEF a, S
<1>8. nextFile <= nextFile' /\ n < nextFile' /\ \A f \in made : f < nextFile'
  BY <1>3, <1>4, <1>6, <1>7
<1>9. Replays(n, made)
  BY <1>1, <1>2, <1>5, <1>7, <1>8 DEF Replays
<1> QED BY <1>3, <1>9

\* The table made has a number of its own: others stay, and the version holds what the
\* log held as well.
LEMMA ReplaysTables ==
    ASSUME LevelDBInv, phase = "replaying", NEW n \in DOMAIN logs, NEW made, Replays(n, made)
    PROVE  /\ Keeps(tables, tables', Numbers(Described.files))
           /\ Keeps(tables, tables', Numbers(Synced.files))
           /\ IsFileMap(tables', [batches : SUBSET Batch, whole : BOOLEAN])
           /\ version' \in SUBSET File
           /\ VersionHolds' = VersionHolds \cup RecordsIn(logs[n])
           /\ FilesGood(version', tables', nextFile', lastSeq')
<1> USE DEF LevelDBInv
<1>1. /\ current # 0 /\ EntriesGood
      /\ nextFile \notin Numbers(Described.files)
      /\ nextFile \notin Numbers(Synced.files)
      /\ nextFile \notin Numbers(version)
      /\ \A k \in Numbers(Described.files) : k \in DOMAIN tables
      /\ \A k \in Numbers(Synced.files) : k \in DOMAIN tables
      /\ \A k \in Numbers(version) : k \in DOMAIN tables
  BY OpeningAhead
<1>2. /\ nextFile \in Nat /\ lastSeq \in Nat /\ version \in SUBSET File
      /\ nextFile' \in Nat /\ nextFile <= nextFile' /\ lastSeq' \in Nat /\ lastSeq <= lastSeq'
      /\ \A b \in RecordsIn(logs[n]) : b.seq <= lastSeq'
  BY DEF LevelDBTypeOK, Replays
<1>3. FilesGood(version, tables, nextFile, lastSeq)
  BY DEF Opening
<1>4. \A f \in version : f.num \in Nat /\ \A b \in tables[f.num].batches : b.seq \in Nat
  <2>1. \A f \in version : f.num \in Nat /\ f.num \in DOMAIN tables
    BY <1>2, <1>3 DEF File, FilesGood
  <2>2. \A f \in version : tables[f.num].batches \subseteq Batch
    BY <2>1 DEF LevelDBTypeOK, IsFileMap
  <2> QED BY <2>1, <2>2, BatchType
<1>5. CASE made = {}
  <2>1. tables' = tables /\ RecordsIn(logs[n]) = {} /\ version' = version
    BY <1>5 DEF Replays
  <2>2. Keeps(tables, tables', Numbers(version))
    BY <2>1, <1>1 DEF Keeps
  <2>3. FilesGood(version, tables', nextFile', lastSeq')
    BY <1>2, <1>3, <1>4, <2>2, FilesKept
  <2>4. VersionHolds' = VersionHolds
    BY <2>1 DEF VersionHolds
  <2> QED BY <1>1, <1>2, <2>1, <2>3, <2>4 DEF Keeps, LevelDBTypeOK
<1>6. CASE made # {}
  <2> DEFINE t == [batches |-> RecordsIn(logs[n]), whole |-> TRUE]
             f == [num |-> nextFile, level |-> 0]
  <2>1. /\ made = {nextFile} /\ RecordsIn(logs[n]) # {}
        /\ tables' = Put(tables, nextFile, t)
        /\ version' = version \cup {[num |-> k, level |-> 0] : k \in made}
        /\ \A k \in made : k < nextFile'
    BY <1>6 DEF Replays
  <2>2. version' = version \cup {f}
    BY <2>1
  <2>3. t \in [batches : SUBSET Batch, whole : BOOLEAN]
    BY FoundType
  <2>4. f \in File
    BY <1>2 DEF File, Levels
  <2>5. /\ t.whole /\ t.batches = RecordsIn(logs[n]) /\ f.num = nextFile
    OBVIOUS
  <2> HIDE DEF t, f
  <2>6. /\ Keeps(tables, tables', Numbers(Described.files))
        /\ Keeps(tables, tables', Numbers(Synced.files))
        /\ Keeps(tables, tables', Numbers(version))
    BY <1>1, <2>1, PutKeeps
  <2>7. IsFileMap(tables', [batches : SUBSET Batch, whole : BOOLEAN])
    BY <1>2, <2>1, <2>3, PutType DEF LevelDBTypeOK
  <2>8. nextFile \in DOMAIN tables' /\ tables'[nextFile] = t /\ nextFile < nextFile'
    BY <2>1 DEF Put
  <2>9. FilesGood(version, tables', nextFile', lastSeq')
    BY <1>2, <1>3, <1>4, <2>6, FilesKept
  <2>10. FilesGood(version', tables', nextFile', lastSeq')
    BY <1>2, <2>2, <2>5, <2>8, <2>9 DEF FilesGood
  <2>11. InTables(tables', Numbers(version)) = VersionHolds
    BY <2>6, SameTables DEF VersionHolds
  <2>12. \A k : k \in Numbers(version') <=> k \in Numbers(version) \/ k = nextFile
    BY <2>2, <2>5 DEF Numbers
  <2>13. ASSUME NEW b
         PROVE  b \in VersionHolds' <=> b \in VersionHolds \/ b \in RecordsIn(logs[n])
    <3>1. b \in VersionHolds' <=> \E k \in Numbers(version') : k \in DOMAIN tables' /\ b \in tables'[k].batches
      BY TablesMember DEF VersionHolds
    <3>2. b \in VersionHolds <=> \E k \in Numbers(version) : k \in DOMAIN tables' /\ b \in tables'[k].batches
      BY <2>11, TablesMember
    <3> QED BY <3>1, <3>2, <2>5, <2>8, <2>12
  <2> QED BY <1>2, <2>2, <2>4, <2>6, <2>7, <2>10, <2>13
<1> QED BY <1>5, <1>6

\* DBImpl::RecoverLogFile: what a log held has moved to a table of the version, which
\* with the logs still to come holds what the entry finds.
LEMMA RecoverLogFileKeeps ==
    ASSUME LevelDBInv, RecoverLogFile
    PROVE  LevelDBInv' /\ Recoverable' = Recoverable
<1> USE DEF LevelDBInv
<1> DEFINE n == Head(toReplay)
<1>1. /\ phase = "replaying" /\ toReplay # << >> /\ toReplay' = Tail(toReplay)
      /\ UNCHANGED <<logs, descriptors, current, phase, logNumber, descriptor,
                     logfile, mem, imm, scheduled, bgError, flush, merge, doomed, queue,
                     writer, group, written, flushed, budget>>
  BY DEF RecoverLogFile, background, writing
<1>2. PICK made : Replays(n, made)
  BY RecoverLogFileReplays
<1>3. n \in DOMAIN logs
  BY RecoverLogFileReplays
<1> HIDE DEF n
<1>4. /\ current # 0 /\ EntriesGood /\ EntriesFind /\ Described # Unreadable
  BY <1>1, OpeningAhead
<1>5. /\ Keeps(tables, tables', Numbers(Described.files))
      /\ Keeps(tables, tables', Numbers(Synced.files))
      /\ IsFileMap(tables', [batches : SUBSET Batch, whole : BOOLEAN])
      /\ version' \in SUBSET File
      /\ VersionHolds' = VersionHolds \cup RecordsIn(logs[n])
      /\ FilesGood(version', tables', nextFile', lastSeq')
  BY <1>1, <1>2, <1>3, ReplaysTables
<1>6. BudgetFalls
  BY <1>1, NotSpent DEF BudgetFalls
<1>7. DiskKept
  <2>1. written' \in Nat /\ written <= written'
    BY <1>1, LevelDBAssumption DEF LevelDBTypeOK
  <2> QED BY <1>1, <1>4, <1>5, <1>6, <2>1 DEF DiskKept, BudgetFalls, FewerRecords, EntriesGood
<1>8. OnDisk' /\ SameEntries /\ Recoverable' = Recoverable
  BY <1>4, <1>7, DiskStays
<1>9. LogsBounded'
  BY <1>1 DEF LogsBounded
<1>10. toReplay \in Seq(Nat)
  BY DEF LevelDBTypeOK
<1>11. /\ toReplay' \in Seq(Nat)
       /\ \A m : m \in Pending <=> m = n \/ m \in Pending'
  BY <1>1, <1>10, PendingHead DEF Pending, n
<1>12. LevelDBTypeOK'
  <2>1. nextFile' \in Nat /\ lastSeq' \in Nat
    BY <1>2 DEF Replays
  <2>2. {logNumber', logfile', nextFile', descriptor', lastSeq'} \subseteq Nat
    BY <1>1, <2>1 DEF LevelDBTypeOK
  <2> QED BY <1>1, <1>5, <1>11, <2>2 DEF LevelDBTypeOK
<1>13. Creating'
  BY <1>1, <1>4, <1>8 DEF Creating, SameEntries
<1>14. NotOpen'
  BY <1>1 DEF NotOpen, NothingUnderWay
<1>15. Replaying'
  <2>1. Replaying
    BY <1>1 DEF Opening
  <2>2. Pending' \subseteq DOMAIN logs'
    BY <1>1, <1>11, <2>1 DEF Replaying
  <2>3. DescribedFinds' = DescribedFinds /\ logs' = logs
    BY <1>1, <1>8 DEF SameEntries
  <2>4. ASSUME NEW b
        PROVE  b \in DescribedFinds
                 <=> b \in VersionHolds' \/ \E m \in Pending' : b \in RecordsIn(logs[m])
    BY <1>5, <1>11, <2>1 DEF Replaying
  <2>5. ASSUME NEW m \in DOMAIN logs
        PROVE  m < nextFile' \/ m \in Pending'
    <3>1. m \in Nat /\ n \in Nat
      BY <1>3 DEF LevelDBTypeOK, IsFileMap
    <3>2. /\ nextFile' \in Nat /\ nextFile <= nextFile' /\ n < nextFile' /\ nextFile \in Nat
      BY <1>2 DEF Replays, LevelDBTypeOK
    <3>3. m < nextFile \/ m \in Pending
      BY <2>1 DEF Replaying
    <3> QED BY <1>11, <3>1, <3>2, <3>3
  <2> QED BY <2>2, <2>3, <2>4, <2>5 DEF Replaying
<1>16. Opening'
  <2>1. descriptor = Described.next /\ descriptor < nextFile
    BY <1>1 DEF Opening
  <2>2. descriptor' < nextFile'
    BY <1>1, <1>2, <2>1 DEF Replays, LevelDBTypeOK
  <2> QED BY <1>1, <1>5, <1>8, <1>15, <2>1, <2>2 DEF Opening, SameEntries
<1>17. Working'
  BY <1>1 DEF Working
<1> QED BY <1>6, <1>8, <1>9, <1>12, <1>13, <1>14, <1>16, <1>17 DEF BudgetFalls

\* There is nothing in an empty log.
LEMMA EmptyLog ==
    RecordsIn(<< >>) = {}
BY RecordsMember

\* A new log file, which is empty.
LEMMA NewLogFile ==
    ASSUME LevelDBTypeOK, LogsBounded, BudgetFalls, OnDisk, NEW k \in Nat,
           logs' = Put(logs, k, << >>),
           UNCHANGED <<tables, descriptors, current, written, flushed>>,
           k \notin DOMAIN logs \/ Described.log > k
    PROVE  /\ DiskKept /\ LogsBounded'
           /\ IsFileMap(logs', Seq(SUBSET Batch))
           /\ k \in DOMAIN logs' /\ logs'[k] = << >>
           /\ \A n \in DOMAIN logs' : n = k \/ n \in DOMAIN logs
           /\ \A n \in DOMAIN logs : n # k => n \in DOMAIN logs' /\ logs'[n] = logs[n]
<1>1. /\ DOMAIN logs' = DOMAIN logs \cup {k}
      /\ \A n \in DOMAIN logs' : n # k => logs'[n] = logs[n]
      /\ logs'[k] = << >>
  BY DEF Put
<1>2. RecordsIn(logs'[k]) = {}
  BY <1>1, EmptyLog
<1>3. FewerRecords
  BY <1>1, <1>2 DEF FewerRecords
<1>4. LogsBounded'
  <2>1. IsFiniteSet(DOMAIN logs')
    BY <1>1, FS_AddElement DEF LogsBounded
  <2>2. PICK top \in Nat : \A n \in DOMAIN logs : \A b \in RecordsIn(logs[n]) : b.seq <= top
    BY DEF LogsBounded
  <2>3. \A n \in DOMAIN logs' : \A b \in RecordsIn(logs'[n]) : b.seq <= top
    BY <1>1, <1>2, <2>2
  <2> QED BY <2>1, <2>3 DEF LogsBounded
<1>5. IsFileMap(logs', Seq(SUBSET Batch))
  <2>1. << >> \in Seq(SUBSET Batch)
    OBVIOUS
  <2> QED BY <2>1, PutType DEF LevelDBTypeOK
<1>6. ASSUME current # 0
      PROVE  /\ InLogsFrom(logs', Described.log) = InLogsFrom(logs, Described.log)
             /\ Keeps(tables, tables', Numbers(Described.files))
             /\ Keeps(tables, tables', Numbers(Synced.files))
             /\ current \in DOMAIN descriptors
  <2>1. EntriesGood
    BY <1>6 DEF OnDisk
  <2>2. Described.log \in Nat
    BY <1>6, <2>1, FoundTypes
  <2>3. k \in DOMAIN logs => ~(k >= Described.log)
    BY <2>2
  <2> QED BY <2>1, <2>3, LogsWithNew, EntryTables DEF EntriesGood, Keeps
<1>7. written' \in Nat /\ written <= written'
  BY LevelDBAssumption DEF LevelDBTypeOK
<1>8. DiskKept
  BY <1>3, <1>6, <1>7 DEF DiskKept, BudgetFalls
<1> QED BY <1>1, <1>4, <1>5, <1>8

\* DB::Open: the database gets a log to write to, after all the others.
LEMMA NewLogKeeps ==
    ASSUME LevelDBInv, NewLog
    PROVE  LevelDBInv' /\ Recoverable' = Recoverable
<1> USE DEF LevelDBInv
<1>1. /\ phase = "replaying" /\ toReplay = << >>
      /\ logs' = Put(logs, nextFile, << >>)
      /\ logfile' = nextFile /\ nextFile' = nextFile + 1 /\ phase' = "describing"
      /\ UNCHANGED <<tables, descriptors, current, toReplay, version, logNumber,
                     descriptor, lastSeq, mem, imm, scheduled, bgError, flush, merge,
                     doomed, queue, writer, group, written, flushed, budget>>
  BY DEF NewLog, background, writing
<1>2. /\ current # 0 /\ EntriesGood /\ EntriesFind /\ Described # Unreadable
  BY <1>1, OpeningAhead
<1>3. BudgetFalls
  BY <1>1, NotSpent DEF BudgetFalls
<1>4. nextFile \in Nat /\ lastSeq \in Nat /\ version \in SUBSET File
  BY DEF LevelDBTypeOK
<1>5. Replaying /\ Pending = {}
  BY <1>1 DEF Opening, Pending
<1>6. \A n \in DOMAIN logs : n \in Nat /\ n < nextFile
  BY <1>5 DEF Replaying, LevelDBTypeOK, IsFileMap
<1>7. nextFile \notin DOMAIN logs
  BY <1>4, <1>6
<1>8. /\ DiskKept /\ LogsBounded' /\ IsFileMap(logs', Seq(SUBSET Batch))
      /\ nextFile \in DOMAIN logs' /\ logs'[nextFile] = << >>
      /\ \A n \in DOMAIN logs' : n = nextFile \/ n \in DOMAIN logs
  BY <1>1, <1>3, <1>4, <1>7, NewLogFile
<1>9. OnDisk' /\ SameEntries /\ Recoverable' = Recoverable
  BY <1>2, <1>8, DiskStays
<1>10. LevelDBTypeOK'
  <2>1. {logNumber', logfile', nextFile', descriptor', lastSeq'} \subseteq Nat
    BY <1>1, <1>4 DEF LevelDBTypeOK
  <2> QED BY <1>1, <1>8, <2>1 DEF LevelDBTypeOK
<1>11. Creating'
  BY <1>1, <1>2, <1>9 DEF Creating, SameEntries
<1>12. NotOpen'
  BY <1>1 DEF NotOpen, NothingUnderWay
<1>13. FilesGood(version, tables, nextFile, lastSeq) /\ descriptor = Described.next /\ descriptor < nextFile
  BY <1>1 DEF Opening
<1>14. descriptor < nextFile + 1 /\ FilesGood(version, tables, nextFile + 1, lastSeq)
  <2>1. \A f \in version : f.num \in Nat
    BY <1>4 DEF File
  <2>2. descriptor \in Nat
    BY DEF LevelDBTypeOK
  <2> QED BY <1>4, <1>13, <2>1, <2>2 DEF FilesGood
<1>15. Replayed'
  <2>1. VersionHolds' = VersionHolds
    BY <1>1 DEF VersionHolds
  <2>2. VersionHolds = DescribedFinds
    BY <1>5 DEF Replaying
  <2>3. DescribedFinds' = DescribedFinds
    BY <1>9 DEF SameEntries
  <2>4. logfile' < nextFile' /\ \A n \in DOMAIN logs' : n <= logfile'
    BY <1>1, <1>4, <1>6, <1>8
  <2> QED BY <1>1, <1>8, <2>1, <2>2, <2>3, <2>4 DEF Replayed
<1>16. Opening'
  BY <1>1, <1>9, <1>13, <1>14, <1>15 DEF Opening, SameEntries
<1>17. Working'
  BY <1>1 DEF Working
<1> QED BY <1>3, <1>8, <1>9, <1>10, <1>11, <1>12, <1>16, <1>17 DEF BudgetFalls

\* VersionSet::LogAndApply writes a new descriptor with all of the version, and syncs
\* it; CURRENT still names the old one.
LEMMA WriteDescriptorKeeps ==
    ASSUME LevelDBInv, WriteDescriptor
    PROVE  LevelDBInv' /\ Recoverable' = Recoverable
<1> USE DEF LevelDBInv
<1> DEFINE d == [files |-> version, log |-> logfile, next |-> nextFile, seq |-> lastSeq]
<1>1. /\ phase = "describing" /\ phase' = "installing"
      /\ descriptors' = Put(descriptors, descriptor, [state |-> d, synced |-> d])
      /\ UNCHANGED <<logs, tables, current, toReplay, version, logNumber, nextFile,
                     logfile, descriptor, lastSeq, mem, imm, scheduled, bgError, flush,
                     merge, doomed, queue, writer, group, written, flushed, budget>>
  BY DEF WriteDescriptor, versions, background, writing
<1>2. /\ current # 0 /\ EntriesGood /\ EntriesFind /\ Described # Unreadable
      /\ \A n \in Numbers(Described.files) : n \in DOMAIN tables
      /\ \A n \in Numbers(Synced.files) : n \in DOMAIN tables
  BY <1>1, OpeningAhead
<1>3. BudgetFalls
  BY <1>1, NotSpent DEF BudgetFalls
<1>4. descriptor = Described.next /\ descriptor < nextFile
  BY <1>1 DEF Opening
<1>5. descriptor \in Nat /\ current \in Nat /\ current < descriptor
  BY <1>2, <1>4 DEF EntriesGood, EntryGood, LevelDBTypeOK
<1>6. /\ current \in DOMAIN descriptors' /\ descriptors'[current] = descriptors[current]
      /\ descriptor \in DOMAIN descriptors' /\ descriptors'[descriptor] = [state |-> d, synced |-> d]
  <2> HIDE DEF d
  <2> QED BY <1>1, <1>2, <1>5 DEF EntriesGood, Put
<1>7. DiskKept
  <2>1. written' \in Nat /\ written <= written'
    BY <1>1, LevelDBAssumption DEF LevelDBTypeOK
  <2> QED BY <1>1, <1>2, <1>3, <1>6, <2>1 DEF DiskKept, BudgetFalls, FewerRecords, Keeps
<1>8. OnDisk' /\ SameEntries /\ Recoverable' = Recoverable
  BY <1>2, <1>7, DiskStays
<1>9. LogsBounded'
  BY <1>1 DEF LogsBounded
<1>10. LevelDBTypeOK'
  <2>1. d \in State
    BY DEF LevelDBTypeOK, State
  <2>2. IsFileMap(descriptors', [state : State, synced : State])
    <3> HIDE DEF d
    <3>1. [state |-> d, synced |-> d] \in [state : State, synced : State]
      BY <2>1
    <3> QED BY <1>1, <1>5, <3>1, PutType DEF LevelDBTypeOK
  <2> QED BY <1>1, <2>2 DEF LevelDBTypeOK
<1>11. Creating'
  BY <1>1, <1>2, <1>8 DEF Creating, SameEntries
<1>12. NotOpen'
  BY <1>1 DEF NotOpen, NothingUnderWay
<1>13. Replayed'
  <2>1. Replayed
    BY <1>1 DEF Opening
  <2>2. VersionHolds' = VersionHolds
    BY <1>1 DEF VersionHolds
  <2> QED BY <1>1, <1>8, <2>1, <2>2 DEF Replayed, SameEntries
<1>14. Installing'
  BY <1>1, <1>6 DEF Installing
<1>15. Opening'
  <2>1. FilesGood(version, tables, nextFile, lastSeq)
    BY <1>1 DEF Opening
  <2> QED BY <1>1, <1>4, <1>8, <1>13, <1>14, <2>1 DEF Opening, SameEntries
<1>16. Working'
  BY <1>1 DEF Working
<1> QED BY <1>3, <1>8, <1>9, <1>10, <1>11, <1>12, <1>15, <1>16 DEF BudgetFalls

\* What is not needed is typed, and none of what is.
LEMMA UnneededFiles ==
    ASSUME LevelDBTypeOK, NEW live, NEW pending, NEW log, NEW desc,
           NEW x \in Unneeded(live, pending, log, desc)
    PROVE  /\ x \in [type : {"table", "log", "descriptor"}, num : Nat]
           /\ x.type = "table" => x.num \notin live /\ x.num \notin pending
           /\ x.type = "log" => x.num < log
           /\ x.type = "descriptor" => x.num < desc
<1>1. /\ \A n \in DOMAIN tables : n \in Nat
      /\ \A n \in DOMAIN logs : n \in Nat
      /\ \A n \in DOMAIN descriptors : n \in Nat
  BY DEF LevelDBTypeOK, IsFileMap
<1>2. CASE \E n \in DOMAIN tables \ (live \cup pending) : x = [type |-> "table", num |-> n]
  BY <1>1, <1>2
<1>3. CASE \E n \in {l \in DOMAIN logs : l < log} : x = [type |-> "log", num |-> n]
  BY <1>1, <1>3
<1>4. CASE \E n \in {l \in DOMAIN descriptors : l < desc} : x = [type |-> "descriptor", num |-> n]
  BY <1>1, <1>4
<1> QED BY <1>2, <1>3, <1>4 DEF Unneeded

\* There are no logs between a number and itself.
LEMMA NoLogsBetween ==
    ASSUME LevelDBTypeOK, NEW l, \A n \in DOMAIN l : n \in Nat, NEW a \in Nat
    PROVE  InLogs(l, a, a) = {}
<1>1. ASSUME NEW b, b \in InLogs(l, a, a)
      PROVE  FALSE
  <2>1. PICK n \in DOMAIN l : a <= n /\ n < a
    BY <1>1, LogsMember
  <2> QED BY <2>1
<1> QED BY <1>1

\* From a number on, up to the last log, there are those below the last, and
\* the last.
LEMMA LogsUpTo ==
    ASSUME NEW l, NEW a \in Nat, NEW z \in Nat, \A n \in DOMAIN l : n \in Nat /\ n <= z,
           z \in DOMAIN l, a <= z
    PROVE  InLogsFrom(l, a) = InLogs(l, a, z) \cup RecordsIn(l[z])
<1>1. ASSUME NEW b
      PROVE  b \in InLogsFrom(l, a) <=> b \in InLogs(l, a, z) \/ b \in RecordsIn(l[z])
  <2>1. ASSUME NEW n \in DOMAIN l
        PROVE  n >= a <=> (a <= n /\ n < z) \/ n = z
    <3>1. n \in Nat /\ n <= z
      OBVIOUS
    <3> QED BY <3>1
  <2> QED BY <2>1, LogsFromMember, LogsMember
<1> QED BY <1>1

\* CURRENT names the new descriptor, which finds what the old one found, and the
\* database is open.
LEMMA InstallDescriptorKeeps ==
    ASSUME LevelDBInv, InstallDescriptor
    PROVE  LevelDBInv' /\ Recoverable' = Recoverable
<1> USE DEF LevelDBInv
<1> DEFINE d == [files |-> version, log |-> logfile, next |-> nextFile, seq |-> lastSeq]
<1>1. /\ phase = "installing" /\ phase' = "open"
      /\ current' = descriptor /\ logNumber' = logfile
      /\ doomed' = Unneeded(Numbers(version), {}, logfile, descriptor)
      /\ scheduled' = NeedsCompaction(version)
      /\ flushed' = flushed \cup VersionHolds
      /\ UNCHANGED <<logs, tables, descriptors, toReplay, version, nextFile,
                     descriptor, logfile, lastSeq, mem, imm, bgError, flush, merge,
                     queue, writer, group, written, budget>>
  BY DEF InstallDescriptor, Obsolete, writing, VersionHolds, TableBatches, InTables
<1>2. /\ current # 0 /\ EntriesGood /\ EntriesFind /\ Described # Unreadable
  BY <1>1, OpeningAhead
<1>3. /\ descriptor < nextFile /\ descriptor = Described.next
      /\ FilesGood(version, tables, nextFile, lastSeq) /\ Replayed /\ Installing
  BY <1>1 DEF Opening
<1>4. /\ nextFile \in Nat /\ lastSeq \in Nat /\ logfile \in Nat /\ version \in SUBSET File
      /\ descriptor \in Nat /\ current \in Nat
  BY DEF LevelDBTypeOK
<1>5. current < descriptor
  BY <1>2, <1>3 DEF EntriesGood, EntryGood
<1>6. Described' = d /\ Synced' = d /\ descriptor \in DOMAIN descriptors'
  BY <1>1, <1>3 DEF Installing, Described, Synced
<1>7. d.files = version /\ d.log = logfile /\ d.next = nextFile /\ d.seq = lastSeq
  OBVIOUS
<1>8. d # Unreadable
  <2>1. nextFile # 0
    BY <1>3, <1>4
  <2> QED BY <2>1, <1>7 DEF Unreadable
<1> HIDE DEF d
<1>9. /\ NothingUnderWay /\ mem = {} /\ imm = {} /\ group = {} /\ queue = << >>
      /\ flush.pc = "idle" /\ merge.pc = "idle" /\ bgError = FALSE
      /\ \A w \in Writers : writer[w] = "idle"
  BY <1>1 DEF NotOpen, NothingUnderWay, Idle
<1>10. EntriesGood'
  <2>1. EntryGood(d, tables', current')
    BY <1>1, <1>3, <1>7 DEF EntryGood, Replayed
  <2> QED BY <1>1, <1>4, <1>6, <1>7, <1>8, <2>1 DEF EntriesGood
<1>11. VersionHolds' = VersionHolds /\ InTables(tables', Numbers(d.files)) = VersionHolds
  BY <1>1, <1>7 DEF VersionHolds
<1>12. InLogsFrom(logs', logfile) = {} /\ InLogs(logs', logfile, logfile) = {}
  <2>1. \A n \in DOMAIN logs : n \in Nat /\ n <= logfile
    BY <1>3 DEF Replayed, LevelDBTypeOK, IsFileMap
  <2>2. InLogs(logs, logfile, logfile) = {}
    BY <1>4, <2>1, NoLogsBetween
  <2>3. logfile \in DOMAIN logs /\ RecordsIn(logs[logfile]) = {} /\ logfile <= logfile
    BY <1>3, <1>4, EmptyLog DEF Replayed
  <2>4. InLogsFrom(logs, logfile) = {}
    BY <1>4, <2>1, <2>2, <2>3, LogsUpTo
  <2> QED BY <1>1, <2>2, <2>4
<1>13. DescribedFinds' = VersionHolds /\ VersionHolds = DescribedFinds
  BY <1>3, <1>6, <1>7, <1>11, <1>12 DEF DescribedFinds, Found, Replayed
<1>14. flushed' \subseteq VersionHolds
  BY <1>1, <1>2, <1>13 DEF EntriesFind, DescribedFinds, Found
<1>15. SyncedWithin(VersionHolds, logfile)'
  BY <1>1, <1>6, <1>7, <1>11 DEF SyncedWithin
<1>16. EntriesFind'
  <2>1. SyncedWithin(InTables(tables, Numbers(Described.files)), Described.log)'
    BY <1>1, <1>6, <1>7, <1>11 DEF SyncedWithin
  <2> QED BY <1>1, <1>2, <1>6, <1>11, <1>13, <1>14, <2>1 DEF EntriesFind
<1>17. OnDisk'
  BY <1>10, <1>16 DEF OnDisk
<1>18. BudgetSpent' /\ LogsBounded'
  BY <1>1 DEF BudgetSpent, LogsBounded
<1>19. LevelDBTypeOK'
  <2>1. doomed' \subseteq [type : {"table", "log", "descriptor"}, num : Nat]
    BY <1>1, UnneededFiles
  <2>2. flushed' \subseteq Batch
    BY <1>1, FoundType DEF LevelDBTypeOK, VersionHolds
  <2>3. scheduled' \in BOOLEAN
    BY <1>1 DEF NeedsCompaction
  <2> QED BY <1>1, <1>4, <2>1, <2>2, <2>3 DEF LevelDBTypeOK
<1>20. Creating'
  BY <1>1, <1>4, <1>5, <1>6, <1>8 DEF Creating
<1>21. NotOpen' /\ Opening'
  BY <1>1 DEF NotOpen, Opening
<1>22. NumbersAhead'
  <2>1. nextFile <= nextFile /\ logfile <= logfile
    BY <1>4
  <2> QED BY <1>1, <1>3, <1>6, <1>7, <2>1 DEF NumbersAhead, Replayed
<1>23. LogsHoldMemory'
  <2>1. ~Logged'
    BY <1>1, <1>9 DEF Logged
  <2>2. RecordsIn(logs'[logfile']) = {} /\ logs'[logfile'] = << >>
    BY <1>1, <1>3, EmptyLog DEF Replayed
  <2> QED BY <1>1, <1>9, <1>12, <2>1, <2>2 DEF LogsHoldMemory
<1>24. EntryHoldsVersion'
  BY <1>1, <1>6, <1>7, <1>9, <1>11, <1>12, <1>14, <1>15 DEF EntryHoldsVersion
<1>25. EntryNamesVersion' /\ FlushGood' /\ MergeGood'
  BY <1>1, <1>6, <1>7, <1>9 DEF EntryNamesVersion, FlushGood, MergeGood
<1>26. DoomedUnneeded'
  <2>1. ASSUME NEW x \in doomed'
        PROVE  Deletable(x)'
    <3>1. /\ x.type = "table" => x.num \notin Numbers(version)
          /\ x.type = "log" => x.num < logfile
          /\ x.type = "descriptor" => x.num < descriptor
      BY <1>1, UnneededFiles
    <3> QED BY <1>1, <1>6, <1>7, <1>9, <3>1 DEF Deletable
  <2> QED BY <2>1 DEF DoomedUnneeded
<1>27. QueueInOrder' /\ GroupInOrder'
  BY <1>1, <1>9 DEF QueueInOrder, GroupInOrder, Logging
<1>28. Working'
  BY <1>22, <1>23, <1>24, <1>25, <1>26, <1>27 DEF Working
<1>29. Recoverable' = Recoverable
  BY <1>1, <1>2, <1>4, <1>5, <1>13, RecoverableFound DEF DescribedFinds
<1> QED BY <1>17, <1>18, <1>19, <1>20, <1>21, <1>28, <1>29

-----------------------------------------------------------------------------
\* The database is open.
LEMMA OpenState ==
    ASSUME LevelDBInv, phase = "open"
    PROVE  /\ current # 0 /\ EntriesGood /\ EntriesFind /\ Described # Unreadable
           /\ NumbersAhead /\ LogsHoldMemory /\ EntryHoldsVersion
           /\ EntryNamesVersion /\ FlushGood /\ MergeGood
           /\ DoomedUnneeded /\ QueueInOrder /\ GroupInOrder
<1>1. current # 0 /\ Described # Unreadable
  BY DEF LevelDBInv, Creating
<1> QED BY <1>1 DEF LevelDBInv, Working, OnDisk

\* What is known of the numbers, and that no compaction, entry or version has
\* the next one.
LEMMA OpenNumbers ==
    ASSUME LevelDBInv, phase = "open"
    PROVE  /\ nextFile \in Nat /\ logfile \in Nat /\ logNumber \in Nat /\ lastSeq \in Nat
           /\ current \in Nat /\ descriptor = current
           /\ Described \in State /\ Synced \in State
           /\ Described.log \in Nat /\ Described.next \in Nat /\ Described.seq \in Nat
           /\ Synced.log \in Nat /\ Synced.next \in Nat /\ Synced.seq \in Nat
           /\ flush.num \in Nat /\ merge.num \in Nat
           /\ \A n \in Numbers(Described.files) : n \in Nat /\ n \in DOMAIN tables /\ n < nextFile
           /\ \A n \in Numbers(Synced.files) : n \in Nat /\ n \in DOMAIN tables /\ n < nextFile
           /\ \A n \in Numbers(version) : n \in Nat /\ n \in DOMAIN tables /\ n < nextFile
           /\ \A n \in DOMAIN logs : n \in Nat /\ n <= logfile
           /\ written \in Nat
<1> USE DEF LevelDBInv
<1>1. current # 0 /\ EntriesGood /\ NumbersAhead
  BY OpenState
<1>2. /\ Described \in State /\ Synced \in State
      /\ Described.log \in Nat /\ Described.next \in Nat /\ Described.seq \in Nat
      /\ Synced.log \in Nat /\ Synced.next \in Nat /\ Synced.seq \in Nat
      /\ \A n \in Numbers(Described.files) : n \in Nat
      /\ \A n \in Numbers(Synced.files) : n \in Nat
  BY <1>1, FoundTypes
<1>3. /\ nextFile \in Nat /\ logfile \in Nat /\ logNumber \in Nat /\ lastSeq \in Nat
      /\ current \in Nat /\ version \in SUBSET File
      /\ \A n \in DOMAIN logs : n \in Nat
  BY DEF LevelDBTypeOK, IsFileMap
<1>4. flush.num \in Nat /\ merge.num \in Nat
  BY DEF LevelDBTypeOK, Job
<1>5. written \in Nat
  BY LevelDBAssumption DEF LevelDBTypeOK
<1>6. /\ \A n \in Numbers(Described.files) : n < Described.next /\ n \in DOMAIN tables
      /\ \A n \in Numbers(Synced.files) : n < Synced.next /\ n \in DOMAIN tables
      /\ \A n \in Numbers(version) : n < nextFile /\ n \in DOMAIN tables
  BY <1>1 DEF EntriesGood, EntryGood, NumbersAhead, FilesGood, Numbers, Unreadable
<1>7. Described.next <= nextFile /\ Synced.next <= Described.next /\ descriptor = current
      /\ \A n \in DOMAIN logs : n <= logfile
  BY <1>1 DEF NumbersAhead, EntriesGood
<1>8. \A n \in Numbers(version) : n \in Nat
  BY <1>3 DEF Numbers, File
<1>9. /\ \A n \in Numbers(Described.files) : n < nextFile
      /\ \A n \in Numbers(Synced.files) : n < nextFile
  BY <1>2, <1>3, <1>6, <1>7
<1> QED BY <1>2, <1>3, <1>4, <1>5, <1>6, <1>7, <1>8, <1>9

\* Logs below number a may go without a change to those from a on.
LEMMA LogsBetweenWithout ==
    ASSUME NEW l, NEW S, NEW a, NEW z, \A n \in S : ~(a <= n)
    PROVE  InLogs(Without(l, S), a, z) = InLogs(l, a, z)
<1> DEFINE m == Without(l, S)
<1>1. /\ DOMAIN m = DOMAIN l \ S
      /\ \A n \in DOMAIN m : m[n] = l[n]
  BY DEF Without
<1> HIDE DEF m
<1>2. ASSUME NEW b
      PROVE  b \in InLogs(m, a, z) <=> b \in InLogs(l, a, z)
  BY <1>1, LogsMember
<1> QED BY <1>2 DEF m

\* Some of the files have some of the numbers.
LEMMA NumbersOfSubset ==
    ASSUME NEW S, NEW T \in SUBSET S
    PROVE  Numbers(T) \subseteq Numbers(S)
BY DEF Numbers

\* DBImpl::DeleteObsoleteFiles: nothing of what is deleted is found.
LEMMA DeleteObsoleteFilesKeeps ==
    ASSUME LevelDBInv, DeleteObsoleteFiles
    PROVE  LevelDBInv' /\ Recoverable' = Recoverable
<1> USE DEF LevelDBInv
<1>1. /\ phase = "open" /\ doomed' = {} /\ Deleted(doomed)
      /\ UNCHANGED <<current, phase, toReplay, version, logNumber, nextFile, descriptor,
                     logfile, lastSeq, mem, imm, scheduled, bgError, flush, merge, queue,
                     writer, group, written, flushed, budget>>
  BY DEF DeleteObsoleteFiles, Deleted, opening, versions, background, writing
<1>2. /\ current # 0 /\ EntriesGood /\ EntriesFind /\ Described # Unreadable
      /\ NumbersAhead /\ LogsHoldMemory /\ EntryHoldsVersion
      /\ EntryNamesVersion /\ FlushGood /\ MergeGood
      /\ DoomedUnneeded /\ QueueInOrder /\ GroupInOrder
  BY <1>1, OpenState
<1>3. BudgetFalls
  BY <1>1, NotSpent DEF BudgetFalls
<1>4. DiskKept /\ LogsBounded' /\ DiskTypes'
  BY <1>1, <1>3, LessDeleted
<1>5. OnDisk' /\ SameEntries /\ Recoverable' = Recoverable
  BY <1>2, <1>4, DiskStays
<1>6. /\ \A n \in Of("log", doomed) : n < logNumber /\ n < Described.log
      /\ \A n \in Of("table", doomed) :
           /\ n \notin Numbers(version)
           /\ flush.pc # "idle" => n # flush.num
           /\ merge.pc # "idle" => n # merge.num
  BY GoneUnneeded
<1>7. /\ DOMAIN logs' = DOMAIN logs \ Of("log", doomed)
      /\ \A n \in DOMAIN logs' : logs'[n] = logs[n]
      /\ DOMAIN tables' = DOMAIN tables \ Of("table", doomed)
      /\ \A n \in DOMAIN tables' : tables'[n] = tables[n]
  BY <1>1 DEF Deleted, Without
<1>8. /\ logNumber \in Nat /\ logfile \in Nat /\ Described.log \in Nat
      /\ nextFile \in Nat /\ lastSeq \in Nat
      /\ \A n \in DOMAIN logs : n \in Nat
      /\ \A n \in Numbers(version) : n \in Nat /\ n \in DOMAIN tables
  BY <1>1, OpenNumbers
<1>9. \A n \in Of("log", doomed) : n \in Nat
  BY DEF LevelDBTypeOK, Of
<1>10. LevelDBTypeOK'
  BY <1>1, <1>4 DEF LevelDBTypeOK, DiskTypes
<1>11. Creating'
  BY <1>1, <1>2, <1>5 DEF Creating, SameEntries, DiskKept
<1>12. NotOpen' /\ Opening'
  BY <1>1 DEF NotOpen, Opening
<1>13. /\ Described' = Described /\ Synced' = Synced
       /\ InTables(tables', Numbers(Described.files)) = InTables(tables, Numbers(Described.files))
  BY <1>5 DEF SameEntries
<1>14. Keeps(tables, tables', Numbers(version))
  BY <1>6, <1>7, <1>8 DEF Keeps
<1>15. VersionHolds' = VersionHolds
  BY <1>1, <1>14, SameTables DEF VersionHolds
<1>16. logfile \in DOMAIN logs' /\ logs'[logfile] = logs[logfile]
  <2>1. logfile \notin Of("log", doomed)
    BY <1>2, <1>6, <1>8 DEF NumbersAhead
  <2> QED BY <1>2, <1>7, <2>1 DEF NumbersAhead
<1>17. NumbersAhead'
  <2>1. FilesGood(version, tables', nextFile, lastSeq)
    <3>1. FilesGood(version, tables, nextFile, lastSeq)
      BY <1>2 DEF NumbersAhead
    <3>2. \A f \in version : f.num \in Numbers(version)
      BY DEF Numbers
    <3> QED BY <3>1, <3>2, <1>14 DEF FilesGood, Keeps
  <2> QED BY <1>1, <1>2, <1>7, <1>13, <1>16, <2>1 DEF NumbersAhead
<1>18. /\ InLogs(logs', logNumber, logfile) = InLogs(logs, logNumber, logfile)
       /\ InLogs(logs', Described.log, logfile) = InLogs(logs, Described.log, logfile)
  <2>1. \A n \in Of("log", doomed) : ~(logNumber <= n) /\ ~(Described.log <= n)
    BY <1>6, <1>8, <1>9
  <2> QED BY <1>1, <2>1, LogsBetweenWithout DEF Deleted
<1>19. LogsHoldMemory'
  BY <1>1, <1>2, <1>16, <1>18 DEF LogsHoldMemory, Logged
<1>20. EntryHoldsVersion'
  <2>1. InTables(tables', Numbers(Synced.files)) = InTables(tables, Numbers(Synced.files))
    BY <1>2, <1>4, SameTables DEF DiskKept
  <2>2. SyncedWithin(VersionHolds, logNumber)'
    BY <1>1, <1>2, <1>7, <1>13, <1>15, <2>1 DEF EntryHoldsVersion, SyncedWithin
  <2> QED BY <1>1, <1>2, <1>13, <1>15, <1>18, <2>2 DEF EntryHoldsVersion
<1>21. EntryNamesVersion'
  BY <1>1, <1>2, <1>13 DEF EntryNamesVersion, NewTable, Merged
<1>22. FlushGood'
  BY <1>1, <1>2, <1>6, <1>7, <1>13 DEF FlushGood, OwnTable
<1>23. MergeGood'
  <2>1. ASSUME merge.pc # "idle"
        PROVE  InTables(tables', Numbers(merge.inputs)) = InTables(tables, Numbers(merge.inputs))
    <3>1. Numbers(merge.inputs) \subseteq Numbers(version)
      BY <1>2, <2>1, NumbersOfSubset DEF MergeGood
    <3>2. Keeps(tables, tables', Numbers(merge.inputs))
      BY <3>1, <1>14 DEF Keeps
    <3> QED BY <3>2, SameTables
  <2> QED BY <1>1, <1>2, <1>6, <1>7, <1>13, <2>1 DEF MergeGood, OwnTable
<1>24. DoomedUnneeded'
  BY <1>1 DEF DoomedUnneeded
<1>25. QueueInOrder'
  <2>1. Read' = Read
    BY <1>1, <1>15 DEF Read, VersionHolds, TableBatches, InTables
  <2> QED BY <1>1, <1>2, <2>1 DEF QueueInOrder
<1>26. GroupInOrder'
  BY <1>1, <1>2 DEF GroupInOrder, Logging
<1>27. Working'
  BY <1>17, <1>19, <1>20, <1>21, <1>22, <1>23, <1>24, <1>25, <1>26 DEF Working
<1> QED BY <1>3, <1>4, <1>5, <1>10, <1>11, <1>12, <1>27 DEF BudgetFalls

\* A step of a writer that touches no file and no compaction.
MemoryStep ==
    /\ phase = "open"
    /\ UNCHANGED <<logs, tables, descriptors, current, phase, toReplay, version, logNumber,
                   nextFile, descriptor, logfile, imm, scheduled, bgError, flush, merge,
                   doomed, flushed, budget>>
    /\ lastSeq' \in Nat /\ lastSeq <= lastSeq'
    /\ written' \in Nat /\ written <= written'

\* It keeps all of the invariant that is not about the memtable, the queue or the
\* group.
LEMMA MemoryStepKeeps ==
    ASSUME LevelDBInv, MemoryStep
    PROVE  /\ BudgetSpent' /\ LogsBounded' /\ OnDisk' /\ Creating' /\ NotOpen' /\ Opening'
           /\ Recoverable' = Recoverable /\ SameEntries
           /\ VersionHolds' = VersionHolds
           /\ (LogsHoldMemory' /\ QueueInOrder' /\ GroupInOrder' => Working')
<1> USE DEF LevelDBInv
<1>1. /\ phase = "open"
      /\ UNCHANGED <<logs, tables, descriptors, current, phase, toReplay, version, logNumber,
                     nextFile, descriptor, logfile, imm, scheduled, bgError, flush, merge,
                     doomed, flushed, budget>>
      /\ UNCHANGED <<files, flushed>>
      /\ lastSeq' \in Nat /\ lastSeq <= lastSeq'
      /\ written' \in Nat /\ written <= written'
  BY DEF MemoryStep, files
<1>2. /\ current # 0 /\ EntriesGood /\ EntriesFind /\ Described # Unreadable
      /\ NumbersAhead /\ EntryHoldsVersion
      /\ EntryNamesVersion /\ FlushGood /\ MergeGood /\ DoomedUnneeded
  BY <1>1, OpenState
<1>3. BudgetFalls
  BY <1>1, NotSpent DEF BudgetFalls
<1>4. DiskKept /\ LogsBounded'
  BY <1>1, <1>3, FilesUntouched
<1>5. OnDisk' /\ SameEntries /\ Recoverable' = Recoverable
  BY <1>2, <1>4, DiskStays
<1>6. Creating'
  BY <1>1, <1>2, <1>5 DEF Creating, SameEntries
<1>7. NotOpen' /\ Opening'
  BY <1>1 DEF NotOpen, Opening
<1>8. Described' = Described /\ Synced' = Synced
  BY <1>5 DEF SameEntries
<1>9. VersionHolds' = VersionHolds
  BY <1>1 DEF VersionHolds
<1>10. NumbersAhead'
  <2>1. FilesGood(version, tables, nextFile, lastSeq')
    <3>1. FilesGood(version, tables, nextFile, lastSeq) /\ lastSeq \in Nat
      BY <1>2 DEF NumbersAhead, LevelDBTypeOK
    <3>2. \A f \in version : f.num \in Numbers(version)
      BY DEF Numbers
    <3>3. \A f \in version : f.num \in DOMAIN tables /\ tables[f.num].batches \subseteq Batch
      BY <3>1 DEF FilesGood, LevelDBTypeOK, IsFileMap
    <3>4. \A f \in version : \A b \in tables[f.num].batches : b.seq \in Nat
      BY <3>3, BatchType
    <3> QED BY <3>1, <3>4, <1>1 DEF FilesGood
  <2> QED BY <1>1, <1>2, <1>8, <2>1 DEF NumbersAhead
<1>11. EntryHoldsVersion'
  <2>1. SyncedWithin(VersionHolds, logNumber)'
    BY <1>1, <1>2, <1>8, <1>9 DEF EntryHoldsVersion, SyncedWithin
  <2> QED BY <1>1, <1>2, <1>8, <1>9, <2>1 DEF EntryHoldsVersion
<1>12. EntryNamesVersion'
  BY <1>1, <1>2, <1>8 DEF EntryNamesVersion, NewTable, Merged
<1>13. FlushGood' /\ MergeGood'
  BY <1>1, <1>2, <1>8 DEF FlushGood, MergeGood, OwnTable
<1>14. DoomedUnneeded'
  BY <1>1, <1>2, <1>8 DEF DoomedUnneeded, Deletable
<1>15. LogsHoldMemory' /\ QueueInOrder' /\ GroupInOrder' => Working'
  BY <1>10, <1>11, <1>12, <1>13, <1>14 DEF Working
<1> QED BY <1>3, <1>4, <1>5, <1>6, <1>7, <1>9, <1>15 DEF BudgetFalls

\* What a read sees is in the memtable, the full memtable or the version's tables.
LEMMA ReadIs ==
    /\ Read = mem \cup imm \cup VersionHolds
    /\ Read' = mem' \cup imm' \cup VersionHolds'
BY DEF Read, TableBatches, VersionHolds, InTables

\* What is read is found.
LEMMA ReadFound ==
    ASSUME LevelDBInv, phase = "open"
    PROVE  /\ DescribedFinds = VersionHolds \cup imm \cup RecordsIn(logs[logfile])
           /\ Recoverable = DescribedFinds
           /\ DescribedFinds = IF Logged THEN Read \cup group ELSE Read
<1>1. /\ current # 0 /\ NumbersAhead /\ LogsHoldMemory /\ EntryHoldsVersion
  BY OpenState
<1>2. /\ logfile \in Nat /\ Described.log \in Nat /\ \A n \in DOMAIN logs : n \in Nat /\ n <= logfile
  BY OpenNumbers
<1>3. InLogsFrom(logs, Described.log)
        = InLogs(logs, Described.log, logfile) \cup RecordsIn(logs[logfile])
  BY <1>1, <1>2, LogsUpTo DEF NumbersAhead
<1>4. DescribedFinds = VersionHolds \cup imm \cup RecordsIn(logs[logfile])
  BY <1>1, <1>3 DEF DescribedFinds, Found, EntryHoldsVersion
<1>5. Recoverable = DescribedFinds
  BY <1>1, RecoverableFound DEF DescribedFinds
<1>6. DescribedFinds = IF Logged THEN Read \cup group ELSE Read
  BY <1>1, <1>4, ReadIs DEF LogsHoldMemory
<1> QED BY <1>4, <1>5, <1>6

\* Writes: the new one is last in the queue.
LEMMA WriteKeeps ==
    ASSUME LevelDBInv, NEW w \in Writers, Write(w)
    PROVE  /\ LevelDBInv' /\ Recoverable' = Recoverable
           /\ written \in Nat /\ written + 1 \in 1 .. MaxWrites
           /\ \A i \in DOMAIN queue : queue[i].id <= written
           /\ \A b \in Recoverable : b.id <= written
<1> USE DEF LevelDBInv
<1> DEFINE q == [writer |-> w, id |-> written + 1]
<1>1. /\ phase = "open" /\ writer[w] = "idle" /\ written < MaxWrites
      /\ written' = written + 1
      /\ queue' = Append(queue, q)
      /\ writer' = [writer EXCEPT ![w] = IF queue = << >> THEN "awake" ELSE "asleep"]
      /\ UNCHANGED <<logs, tables, descriptors, current, phase, toReplay, version, logNumber,
                     nextFile, descriptor, logfile, lastSeq, mem, imm, scheduled, bgError,
                     flush, merge, doomed, group, flushed, budget>>
  BY DEF Write, Unlocked, files, opening, versions, background
<1>2. /\ written \in Nat /\ written + 1 \in 1 .. MaxWrites /\ lastSeq \in Nat /\ MaxWrites \in Nat
  BY <1>1, LevelDBAssumption DEF LevelDBTypeOK
<1>3. /\ EntriesFind /\ LogsHoldMemory /\ QueueInOrder /\ GroupInOrder
  BY <1>1, OpenState
<1>4. MemoryStep
  BY <1>1, <1>2 DEF MemoryStep
<1>5. /\ BudgetSpent' /\ LogsBounded' /\ OnDisk' /\ Creating' /\ NotOpen' /\ Opening'
      /\ Recoverable' = Recoverable /\ VersionHolds' = VersionHolds
      /\ (LogsHoldMemory' /\ QueueInOrder' /\ GroupInOrder' => Working')
  BY <1>4, MemoryStepKeeps
<1>6. q \in [writer : Writers, id : 1 .. MaxWrites] /\ q.id = written + 1 /\ q.writer = w
  BY <1>2
<1>7. queue \in Seq([writer : Writers, id : 1 .. MaxWrites])
  BY DEF LevelDBTypeOK
<1> HIDE DEF q
<1>8. /\ queue' \in Seq([writer : Writers, id : 1 .. MaxWrites])
      /\ Len(queue) \in Nat /\ DOMAIN queue = 1 .. Len(queue)
      /\ Len(queue') = Len(queue) + 1 /\ DOMAIN queue' = 1 .. Len(queue) + 1
      /\ \A i \in 1 .. Len(queue) : queue'[i] = queue[i]
      /\ queue'[Len(queue) + 1] = q
      /\ queue = << >> <=> Len(queue) = 0
  BY <1>1, <1>6, <1>7
<1>9. writer \in [Writers -> {"idle", "asleep", "awake", "waiting", "logging", "logged"}]
  BY DEF LevelDBTypeOK
<1>10. /\ writer' \in [Writers -> {"idle", "asleep", "awake", "waiting", "logging", "logged"}]
       /\ writer'[w] = IF queue = << >> THEN "awake" ELSE "asleep"
       /\ \A v \in Writers : v # w => writer'[v] = writer[v]
  BY <1>1, <1>9
<1>11. LevelDBTypeOK'
  BY <1>1, <1>2, <1>8, <1>10 DEF LevelDBTypeOK
<1>12. Logged' <=> Logged
  BY <1>1, <1>10 DEF Logged
<1>13. Logging' <=> Logging
  BY <1>1, <1>10 DEF Logging
<1>14. LogsHoldMemory'
  BY <1>1, <1>3, <1>12 DEF LogsHoldMemory
<1>15. \A b \in Recoverable : b.id <= written
  <2>1. Recoverable = DescribedFinds
    BY <1>1, ReadFound
  <2> QED BY <2>1, <1>3 DEF EntriesFind
<1>16. \A b \in Read : b.id \in Nat /\ b.id <= written
  <2>1. Read \subseteq Recoverable /\ Read \subseteq Batch
    <3>1. Recoverable = IF Logged THEN Read \cup group ELSE Read
      BY <1>1, ReadFound
    <3>2. mem \subseteq Batch /\ imm \subseteq Batch /\ VersionHolds \subseteq Batch
      BY FoundType DEF LevelDBTypeOK, VersionHolds
    <3> QED BY <3>1, <3>2, ReadIs
  <2> QED BY <2>1, <1>15, BatchType
<1>17. Read' = Read
  BY <1>1, <1>5, ReadIs
<1>18. \A i \in DOMAIN queue : queue[i].id \in Nat /\ queue[i].id <= written
  <2>1. ASSUME NEW i \in DOMAIN queue
        PROVE  queue[i].id \in Nat
    <3>1. queue[i] \in [writer : Writers, id : 1 .. MaxWrites]
      BY <1>7, <1>8, ElementOfSeq
    <3> QED BY <3>1, <1>2
  <2>2. \A i \in DOMAIN queue : queue[i].id <= written
    BY <1>3 DEF QueueInOrder
  <2> QED BY <2>1, <2>2
<1>19. QueueInOrder'
  <2>1. ASSUME NEW v \in Writers, writer'[v] \in {"awake", "waiting", "logging", "logged"}
        PROVE  queue' # << >> /\ queue'[1].writer = v
    <3>1. CASE queue = << >>
      <4>1. v = w
        BY <2>1, <3>1, <1>3, <1>10 DEF QueueInOrder
      <4>2. Len(queue) + 1 = 1 /\ queue'[1] = q
        BY <3>1, <1>8
      <4>3. queue' # << >>
        BY <4>2, <1>8
      <4> QED BY <4>1, <4>2, <4>3, <1>6
    <3>2. CASE queue # << >>
      <4>1. v # w
        BY <2>1, <3>2, <1>10
      <4>2. queue[1].writer = v
        BY <2>1, <4>1, <1>3, <1>10 DEF QueueInOrder
      <4>3. 1 \in 1 .. Len(queue)
        BY <3>2, <1>8
      <4> QED BY <4>2, <4>3, <1>8
    <3> QED BY <3>1, <3>2
  <2>2. ASSUME NEW i \in DOMAIN queue', NEW j \in DOMAIN queue', i < j
        PROVE  queue'[i].id < queue'[j].id
    <3>1. i \in 1 .. Len(queue) /\ queue'[i] = queue[i]
      BY <2>2, <1>8
    <3>2. CASE j \in 1 .. Len(queue)
      BY <2>2, <3>1, <3>2, <1>3, <1>8 DEF QueueInOrder
    <3>3. CASE j = Len(queue) + 1
      BY <3>1, <3>3, <1>2, <1>6, <1>8, <1>18
    <3> QED BY <3>2, <3>3, <1>8
  <2>3. ASSUME NEW i \in DOMAIN queue'
        PROVE  queue'[i].id <= written' /\ \A b \in Read' : b.id < queue'[i].id
    <3>1. CASE i \in 1 .. Len(queue)
      BY <3>1, <1>1, <1>2, <1>3, <1>8, <1>17, <1>18 DEF QueueInOrder
    <3>2. CASE i = Len(queue) + 1
      BY <3>2, <1>1, <1>2, <1>6, <1>8, <1>16, <1>17
    <3> QED BY <3>1, <3>2, <1>8
  <2> QED BY <2>1, <2>2, <2>3 DEF QueueInOrder
<1>20. GroupInOrder'
  <2>1. CASE Logging
    <3>1. PICK n \in 1 .. Len(queue) : group = Grouped(queue, n, lastSeq)
      BY <2>1, <1>3 DEF GroupInOrder
    <3>2. n \in 1 .. Len(queue') /\ \A i \in 1 .. n : queue'[i].id = queue[i].id
      BY <1>8
    <3>3. Grouped(queue', n, lastSeq') = Grouped(queue, n, lastSeq)
      BY <1>1, <3>2 DEF Grouped
    <3> QED BY <1>1, <1>13, <2>1, <3>1, <3>2, <3>3 DEF GroupInOrder
  <2>2. CASE ~Logging
    BY <1>1, <1>3, <1>13, <2>2 DEF GroupInOrder
  <2> QED BY <2>1, <2>2
<1> QED BY <1>2, <1>5, <1>11, <1>14, <1>15, <1>18, <1>19, <1>20

\* The queue's types.
Queued == [writer : Writers, id : 1 .. MaxWrites]

\* The queue's types.
LEMMA QueueType ==
    ASSUME LevelDBTypeOK
    PROVE  /\ queue \in Seq(Queued) /\ Len(queue) \in Nat /\ DOMAIN queue = 1 .. Len(queue)
           /\ \A i \in 1 .. Len(queue) : /\ queue[i] \in Queued
                                         /\ queue[i].id \in Nat
                                         /\ queue[i].id \in 1 .. MaxWrites
                                         /\ queue[i].writer \in Writers
<1>1. queue \in Seq(Queued)
  BY DEF LevelDBTypeOK, Queued
<1>2. Len(queue) \in Nat /\ DOMAIN queue = 1 .. Len(queue)
  BY <1>1
<1>3. ASSUME NEW i \in 1 .. Len(queue)
      PROVE  /\ queue[i] \in Queued
             /\ queue[i].id \in Nat
             /\ queue[i].id \in 1 .. MaxWrites
             /\ queue[i].writer \in Writers
  <2>1. queue[i] \in Queued
    BY <1>1, ElementOfSeq
  <2> QED BY <2>1, LevelDBAssumption DEF Queued
<1> QED BY <1>1, <1>2, <1>3

\* If someone who is first in the queue is not logging, nobody is.
LEMMA OneActive ==
    ASSUME QueueInOrder, NEW w \in Writers,
           writer[w] \in {"awake", "waiting", "logging", "logged"}
    PROVE  /\ queue # << >> /\ queue[1].writer = w
           /\ \A v \in Writers : writer[v] \in {"awake", "waiting", "logging", "logged"} => v = w
           /\ writer[w] \in {"awake", "waiting"} => ~Logging /\ ~Logged
           /\ writer[w] = "logging" => Logging /\ ~Logged
           /\ writer[w] = "logged" => Logging /\ Logged
<1>1. /\ queue # << >> /\ queue[1].writer = w
      /\ \A v \in Writers : writer[v] \in {"awake", "waiting", "logging", "logged"} => v = w
  BY DEF QueueInOrder
<1> QED BY <1>1 DEF Logging, Logged

\* DBImpl::MakeRoomForWrite: the first writer waits for the background work.
LEMMA WaitForRoomKeeps ==
    ASSUME LevelDBInv, NEW w \in Writers, WaitForRoom(w)
    PROVE  LevelDBInv' /\ Recoverable' = Recoverable
<1> USE DEF LevelDBInv
<1>1. /\ phase = "open" /\ writer[w] = "awake"
      /\ writer' = [writer EXCEPT ![w] = "waiting"]
      /\ UNCHANGED <<logs, tables, descriptors, current, phase, toReplay, version, logNumber,
                     nextFile, descriptor, logfile, lastSeq, mem, imm, scheduled, bgError,
                     flush, merge, doomed, queue, group, written, flushed, budget>>
  BY DEF WaitForRoom, Unlocked, files, opening, versions, background
<1>2. LogsHoldMemory /\ QueueInOrder /\ GroupInOrder
  BY <1>1, OpenState
<1>3. lastSeq \in Nat /\ written \in Nat
  BY LevelDBAssumption DEF LevelDBTypeOK
<1>4. MemoryStep
  BY <1>1, <1>3 DEF MemoryStep
<1>5. /\ BudgetSpent' /\ LogsBounded' /\ OnDisk' /\ Creating' /\ NotOpen' /\ Opening'
      /\ Recoverable' = Recoverable /\ VersionHolds' = VersionHolds
      /\ (LogsHoldMemory' /\ QueueInOrder' /\ GroupInOrder' => Working')
  BY <1>4, MemoryStepKeeps
<1>6. writer \in [Writers -> {"idle", "asleep", "awake", "waiting", "logging", "logged"}]
  BY DEF LevelDBTypeOK
<1>7. /\ writer' \in [Writers -> {"idle", "asleep", "awake", "waiting", "logging", "logged"}]
      /\ writer'[w] = "waiting"
      /\ \A v \in Writers : v # w => writer'[v] = writer[v]
  BY <1>1, <1>6
<1>8. LevelDBTypeOK'
  BY <1>1, <1>7 DEF LevelDBTypeOK
<1>9. (Logged' <=> Logged) /\ (Logging' <=> Logging)
  BY <1>1, <1>7 DEF Logged, Logging
<1>10. LogsHoldMemory' /\ GroupInOrder'
  BY <1>1, <1>2, <1>9 DEF LogsHoldMemory, GroupInOrder
<1>11. QueueInOrder'
  <2>1. Read' = Read
    BY <1>1, <1>5, ReadIs
  <2>2. \A v \in Writers : writer'[v] \in {"awake", "waiting", "logging", "logged"}
          => writer[v] \in {"awake", "waiting", "logging", "logged"}
    BY <1>1, <1>7
  <2> QED BY <1>1, <1>2, <2>1, <2>2 DEF QueueInOrder
<1> QED BY <1>5, <1>8, <1>10, <1>11

\* DBImpl::BuildBatchGroup: the group is the first writes of the queue, numbered in
\* their order after the last one.
LEMMA BuildBatchGroupKeeps ==
    ASSUME LevelDBInv, NEW w \in Writers, BuildBatchGroup(w)
    PROVE  LevelDBInv' /\ Recoverable' = Recoverable
<1> USE DEF LevelDBInv
<1>1. /\ phase = "open" /\ writer[w] = "awake"
      /\ \E n \in 1 .. Len(queue) : group' = Grouped(queue, n, lastSeq)
      /\ writer' = [writer EXCEPT ![w] = "logging"]
      /\ UNCHANGED <<logs, tables, descriptors, current, phase, toReplay, version, logNumber,
                     nextFile, descriptor, logfile, lastSeq, mem, imm, scheduled, bgError,
                     flush, merge, doomed, queue, written, flushed, budget>>
  BY DEF BuildBatchGroup, Unlocked, files, opening, versions, background, Grouped
<1>2. LogsHoldMemory /\ QueueInOrder /\ GroupInOrder
  BY <1>1, OpenState
<1>3. lastSeq \in Nat /\ written \in Nat
  BY LevelDBAssumption DEF LevelDBTypeOK
<1>4. MemoryStep
  BY <1>1, <1>3 DEF MemoryStep
<1>5. /\ BudgetSpent' /\ LogsBounded' /\ OnDisk' /\ Creating' /\ NotOpen' /\ Opening'
      /\ Recoverable' = Recoverable /\ VersionHolds' = VersionHolds
      /\ (LogsHoldMemory' /\ QueueInOrder' /\ GroupInOrder' => Working')
  BY <1>4, MemoryStepKeeps
<1>6. writer \in [Writers -> {"idle", "asleep", "awake", "waiting", "logging", "logged"}]
  BY DEF LevelDBTypeOK
<1>7. /\ writer' \in [Writers -> {"idle", "asleep", "awake", "waiting", "logging", "logged"}]
      /\ writer'[w] = "logging"
      /\ \A v \in Writers : v # w => writer'[v] = writer[v]
  BY <1>1, <1>6
<1>8. PICK n \in 1 .. Len(queue) : group' = Grouped(queue, n, lastSeq)
  BY <1>1
<1>9. group' \subseteq Batch
  <2>1. ASSUME NEW i \in 1 .. n
        PROVE  [id |-> queue[i].id, seq |-> lastSeq + i] \in Batch
    <3>1. i \in 1 .. Len(queue) /\ lastSeq + i \in Nat \ {0}
      BY <1>3, QueueType
    <3>2. queue[i].id \in 1 .. MaxWrites
      BY <3>1, QueueType
    <3> QED BY <3>1, <3>2 DEF Batch
  <2> QED BY <1>8, <2>1 DEF Grouped
<1>10. LevelDBTypeOK'
  BY <1>1, <1>7, <1>9 DEF LevelDBTypeOK
<1>11. ~Logging /\ ~Logged /\ \A v \in Writers : writer[v] # "logged"
  BY <1>1, <1>2, OneActive DEF Logged
<1>12. Logging' /\ ~Logged'
  BY <1>7, <1>11 DEF Logged, Logging
<1>13. LogsHoldMemory'
  BY <1>1, <1>2, <1>11, <1>12 DEF LogsHoldMemory
<1>14. GroupInOrder'
  BY <1>1, <1>12 DEF GroupInOrder
<1>15. QueueInOrder'
  <2>1. Read' = Read
    BY <1>1, <1>5, ReadIs
  <2>2. \A v \in Writers : writer'[v] \in {"awake", "waiting", "logging", "logged"}
          => writer[v] \in {"awake", "waiting", "logging", "logged"}
    BY <1>1, <1>7
  <2> QED BY <1>1, <1>2, <2>1, <2>2 DEF QueueInOrder
<1> QED BY <1>5, <1>10, <1>13, <1>14, <1>15

\* A group has as many batches as writers in it, numbered after the last.
LEMMA GroupCount ==
    ASSUME LevelDBTypeOK, QueueInOrder, NEW n \in 1 .. Len(queue)
    PROVE  /\ Cardinality(Grouped(queue, n, lastSeq)) = n
           /\ Grouped(queue, n, lastSeq) # {}
           /\ \A b \in Grouped(queue, n, lastSeq) :
                \E i \in 1 .. n : b.id = queue[i].id /\ b.seq = lastSeq + i
           /\ \A i \in 1 .. n : \E b \in Grouped(queue, n, lastSeq) : b.id = queue[i].id
           /\ \A b \in Grouped(queue, n, lastSeq) :
                /\ b.id \in Nat /\ b.seq \in Nat /\ lastSeq < b.seq /\ b.seq <= lastSeq + n
<1> DEFINE B(i) == [id |-> queue[i].id, seq |-> lastSeq + i]
           f == [i \in 1 .. n |-> B(i)]
           G == Grouped(queue, n, lastSeq)
<1>1. lastSeq \in Nat /\ n \in Nat /\ n >= 1
  BY QueueType DEF LevelDBTypeOK
<1>2. \A i \in 1 .. n : B(i).id = queue[i].id /\ B(i).seq = lastSeq + i
  OBVIOUS
<1>3. G = {B(i) : i \in 1 .. n}
  BY DEF Grouped
<1> HIDE DEF B, G
<1>4. \A i, j \in 1 .. n : B(i) = B(j) => i = j
  <2>1. ASSUME NEW i \in 1 .. n, NEW j \in 1 .. n, B(i) = B(j)
        PROVE  i = j
    <3>1. lastSeq + i = lastSeq + j
      BY <1>2, <2>1
    <3> QED BY <3>1, <1>1
  <2> QED BY <2>1
<1>5. f \in Bijection(1 .. n, G)
  <2>1. f \in [1 .. n -> G] /\ \A i \in 1 .. n : f[i] = B(i)
    BY <1>3
  <2>2. \A b \in G : \E i \in 1 .. n : f[i] = b
    BY <1>3
  <2> HIDE DEF f
  <2> QED BY <1>4, <2>1, <2>2 DEF Bijection, Injection, Surjection, IsInjective
<1>6. Cardinality(G) = n
  BY <1>1, <1>5, FS_CountingElements DEF ExistsBijection
<1>7. B(1) \in G
  BY <1>1, <1>3
<1>8. ASSUME NEW b \in G
      PROVE  /\ \E i \in 1 .. n : b.id = queue[i].id /\ b.seq = lastSeq + i
             /\ b.id \in Nat /\ b.seq \in Nat /\ lastSeq < b.seq /\ b.seq <= lastSeq + n
  <2>1. PICK i \in 1 .. n : b = B(i)
    BY <1>3
  <2>2. b.id = queue[i].id /\ b.seq = lastSeq + i
    BY <2>1, <1>2
  <2>3. i \in 1 .. Len(queue)
    BY QueueType
  <2>4. queue[i].id \in Nat
    BY <2>3, QueueType
  <2> QED BY <1>1, <2>2, <2>4
<1>9. \A i \in 1 .. n : \E b \in G : b.id = queue[i].id
  BY <1>2, <1>3
<1> QED BY <1>6, <1>7, <1>8, <1>9 DEF G

\* What is left of the queue when its first n writers return.
LEMMA RestOfQueue ==
    ASSUME LevelDBTypeOK, NEW n \in 1 .. Len(queue), NEW q,
           q = SubSeq(queue, n + 1, Len(queue))
    PROVE  /\ q \in Seq(Queued) /\ Len(q) \in Nat
           /\ DOMAIN q = 1 .. Len(queue) - n
           /\ \A i \in 1 .. Len(queue) - n : q[i] = queue[n + i] /\ n + i \in 1 .. Len(queue)
           /\ \A j \in 1 .. Len(queue) : j > n => j - n \in DOMAIN q /\ q[j - n] = queue[j]
           /\ q # << >> => 1 \in DOMAIN q /\ Head(q) = q[1]
<1>1. queue \in Seq(Queued) /\ Len(queue) \in Nat /\ n \in Nat /\ n >= 1 /\ n <= Len(queue)
  BY QueueType
<1>2. /\ \A i \in n + 1 .. Len(queue) : queue[i] \in Queued
  <2>1. \A i \in n + 1 .. Len(queue) : i \in 1 .. Len(queue)
    BY <1>1
  <2> QED BY <2>1, QueueType
<1>3. q \in Seq(Queued) /\ Len(q) = Len(queue) - n
      /\ \A i \in 1 .. Len(queue) - n : q[i] = queue[n + i]
  <2>1. q \in Seq(Queued)
    BY <1>1, <1>2
  <2>2. Len(q) = Len(queue) - n
    BY <1>1
  <2>3. \A i \in 1 .. Len(queue) - n : q[i] = queue[n + i]
    BY <1>1
  <2> QED BY <2>1, <2>2, <2>3
<1>4. DOMAIN q = 1 .. Len(queue) - n
  BY <1>3
<1>5. \A i \in 1 .. Len(queue) - n : n + i \in 1 .. Len(queue)
  BY <1>1
<1>6. ASSUME NEW j \in 1 .. Len(queue), j > n
      PROVE  j - n \in DOMAIN q /\ q[j - n] = queue[j]
  <2>1. j - n \in 1 .. Len(queue) - n /\ n + (j - n) = j
    BY <1>1, <1>6
  <2> QED BY <2>1, <1>3, <1>4
<1>7. q # << >> => 1 \in DOMAIN q /\ Head(q) = q[1]
  BY <1>3, <1>4
<1> QED BY <1>1, <1>3, <1>4, <1>5, <1>6, <1>7

\* A group is read, and its writers return.
LEMMA FinishWriteKeeps ==
    ASSUME LevelDBInv, NEW w \in Writers, FinishWrite(w)
    PROVE  /\ LevelDBInv' /\ Recoverable' = Recoverable
           /\ group \subseteq Recoverable
           /\ \A b \in group : \E i \in DOMAIN queue : queue[i].id = b.id
           /\ \A i \in DOMAIN queue' :
                \E j \in DOMAIN queue : queue[j].id = queue'[i].id /\ queue[j].id \notin Ids(group)
           /\ \A j \in DOMAIN queue :
                \/ queue[j].id \in Ids(group)
                \/ \E i \in DOMAIN queue' : queue'[i].id = queue[j].id
<1> USE DEF LevelDBInv
<1>1. /\ phase = "open" /\ writer[w] = "logged"
      /\ mem' = mem \cup group
      /\ lastSeq' = lastSeq + Cardinality(group)
      /\ queue' = SubSeq(queue, Cardinality(group) + 1, Len(queue))
      /\ writer' = [v \in Writers |->
                    IF \E i \in 1 .. Cardinality(group) : queue[i].writer = v
                    THEN "idle"
                    ELSE IF queue' # << >> /\ v = Head(queue').writer THEN "awake"
                    ELSE writer[v]]
      /\ group' = {}
      /\ UNCHANGED <<logs, tables, descriptors, current, phase, toReplay, version, logNumber,
                     nextFile, descriptor, logfile, imm, scheduled, bgError,
                     flush, merge, doomed, written, flushed, budget>>
  BY DEF FinishWrite, Unlocked, files, opening, versions, background
<1>2. LogsHoldMemory /\ QueueInOrder /\ GroupInOrder
  BY <1>1, OpenState
<1>3. /\ queue # << >> /\ queue[1].writer = w
      /\ \A v \in Writers : writer[v] \in {"awake", "waiting", "logging", "logged"} => v = w
      /\ Logging /\ Logged
  BY <1>1, <1>2, OneActive
<1>4. PICK n \in 1 .. Len(queue) : group = Grouped(queue, n, lastSeq)
  BY <1>2, <1>3 DEF GroupInOrder
<1>5. /\ Cardinality(group) = n
      /\ \A b \in group : \E i \in 1 .. n : b.id = queue[i].id /\ b.seq = lastSeq + i
      /\ \A i \in 1 .. n : \E b \in group : b.id = queue[i].id
      /\ \A b \in group :
           /\ b.id \in Nat /\ b.seq \in Nat /\ lastSeq < b.seq /\ b.seq <= lastSeq + n
  BY <1>2, <1>4, GroupCount
<1>6. /\ lastSeq \in Nat /\ written \in Nat /\ n \in Nat /\ n >= 1
      /\ Len(queue) \in Nat /\ n <= Len(queue) /\ DOMAIN queue = 1 .. Len(queue)
  BY QueueType, LevelDBAssumption DEF LevelDBTypeOK
<1>7. lastSeq' = lastSeq + n /\ queue' = SubSeq(queue, n + 1, Len(queue))
  BY <1>1, <1>5
<1>8. MemoryStep
  <2>1. lastSeq' \in Nat /\ lastSeq <= lastSeq'
    BY <1>6, <1>7
  <2>2. written' \in Nat /\ written <= written'
    BY <1>1, <1>6
  <2> QED BY <1>1, <2>1, <2>2 DEF MemoryStep
<1>9. /\ BudgetSpent' /\ LogsBounded' /\ OnDisk' /\ Creating' /\ NotOpen' /\ Opening'
      /\ Recoverable' = Recoverable /\ VersionHolds' = VersionHolds
      /\ (LogsHoldMemory' /\ QueueInOrder' /\ GroupInOrder' => Working')
  BY <1>8, MemoryStepKeeps
<1>10. /\ queue' \in Seq(Queued)
       /\ DOMAIN queue' = 1 .. Len(queue) - n
       /\ \A i \in DOMAIN queue' : queue'[i] = queue[n + i] /\ n + i \in 1 .. Len(queue)
       /\ \A j \in 1 .. Len(queue) :
            j > n => j - n \in DOMAIN queue' /\ queue'[j - n] = queue[j]
       /\ queue' # << >> => 1 \in DOMAIN queue' /\ Head(queue') = queue'[1]
  <2>1. /\ queue' \in Seq(Queued)
        /\ DOMAIN queue' = 1 .. Len(queue) - n
        /\ \A i \in 1 .. Len(queue) - n : queue'[i] = queue[n + i] /\ n + i \in 1 .. Len(queue)
        /\ \A j \in 1 .. Len(queue) :
             j > n => j - n \in DOMAIN queue' /\ queue'[j - n] = queue[j]
        /\ queue' # << >> => 1 \in DOMAIN queue' /\ Head(queue') = queue'[1]
    BY <1>7, RestOfQueue
  <2> QED BY <2>1
<1>11. \A i \in 1 .. Len(queue) : queue[i].writer \in Writers /\ queue[i].id \in Nat
  BY QueueType
<1>12. \A v \in Writers :
         \/ writer'[v] = "idle"
         \/ writer'[v] = "awake" /\ queue' # << >> /\ v = queue'[1].writer
         \/ writer'[v] = writer[v] /\ v # w
  <2>1. ASSUME NEW v \in Writers
        PROVE  \/ writer'[v] = "idle"
               \/ writer'[v] = "awake" /\ queue' # << >> /\ v = queue'[1].writer
               \/ writer'[v] = writer[v] /\ v # w
    <3>1. writer'[v] = IF \E i \in 1 .. n : queue[i].writer = v
                       THEN "idle"
                       ELSE IF queue' # << >> /\ v = Head(queue').writer THEN "awake"
                       ELSE writer[v]
      BY <1>1, <1>5
    <3>2. 1 \in 1 .. n
      BY <1>6
    <3> QED BY <3>1, <3>2, <1>3, <1>10
  <2> QED BY <2>1
<1>13. \A v \in Writers : writer'[v] \notin {"logging", "logged", "waiting"}
  BY <1>3, <1>12
<1>14. LevelDBTypeOK'
  <2>1. writer \in [Writers -> {"idle", "asleep", "awake", "waiting", "logging", "logged"}]
    BY DEF LevelDBTypeOK
  <2>2. writer' \in [Writers -> {"idle", "asleep", "awake", "waiting", "logging", "logged"}]
    BY <1>1, <2>1
  <2>3. queue' \in Seq([writer : Writers, id : 1 .. MaxWrites])
    BY <1>10 DEF Queued
  <2>4. mem' \subseteq Batch /\ group' \subseteq Batch
    BY <1>1 DEF LevelDBTypeOK
  <2>5. lastSeq' \in Nat
    BY <1>6, <1>7
  <2>6. UNCHANGED <<logs, tables, descriptors, current, phase, toReplay, version, logNumber,
                    nextFile, descriptor, logfile, imm, scheduled, bgError,
                    flush, merge, doomed, written, flushed>>
    BY <1>1
  <2> QED BY <2>2, <2>3, <2>4, <2>5, <2>6 DEF LevelDBTypeOK
<1>15. ~Logged' /\ ~Logging'
  BY <1>13 DEF Logged, Logging
<1>16. GroupInOrder'
  BY <1>1, <1>15 DEF GroupInOrder
<1>17. LogsHoldMemory'
  <2>1. ASSUME NEW b \in mem' \cup imm'
        PROVE  b.seq <= lastSeq'
    <3>1. CASE b \in group
      BY <3>1, <1>5, <1>7
    <3>2. CASE b \in mem \cup imm
      <4>1. b.seq \in Nat /\ b.seq <= lastSeq
        BY <3>2, <1>2, BatchType DEF LogsHoldMemory, LevelDBTypeOK
      <4> QED BY <4>1, <1>6, <1>7
    <3> QED BY <2>1, <3>1, <3>2, <1>1
  <2> QED BY <1>1, <1>2, <1>3, <1>15, <2>1 DEF LogsHoldMemory
<1>18. Read' = Read \cup group
  BY <1>1, <1>9, ReadIs
<1>19. QueueInOrder'
  <2>1. ASSUME NEW v \in Writers, writer'[v] \in {"awake", "waiting", "logging", "logged"}
        PROVE  queue' # << >> /\ queue'[1].writer = v
    <3>1. writer'[v] = writer[v] => v = w
      BY <2>1, <1>3
    <3> QED BY <2>1, <3>1, <1>12
  <2>2. ASSUME NEW i \in DOMAIN queue', NEW j \in DOMAIN queue', i < j
        PROVE  queue'[i].id < queue'[j].id
    <3>1. n + i \in 1 .. Len(queue) /\ n + j \in 1 .. Len(queue) /\ n + i < n + j
      BY <2>2, <1>6, <1>10
    <3> QED BY <3>1, <1>2, <1>6, <1>10 DEF QueueInOrder
  <2>3. ASSUME NEW i \in DOMAIN queue'
        PROVE  queue'[i].id <= written' /\ \A b \in Read' : b.id < queue'[i].id
    <3>1. n + i \in 1 .. Len(queue) /\ queue'[i] = queue[n + i]
      BY <1>10
    <3>2. queue[n + i].id <= written /\ \A b \in Read : b.id < queue[n + i].id
      BY <3>1, <1>2, <1>6 DEF QueueInOrder
    <3>3. ASSUME NEW b \in group
          PROVE  b.id < queue[n + i].id
      <4>1. PICK k \in 1 .. n : b.id = queue[k].id
        BY <1>5
      <4>2. k \in 1 .. Len(queue) /\ k < n + i
        BY <1>6, <1>10
      <4> QED BY <4>1, <4>2, <3>1, <1>2, <1>6 DEF QueueInOrder
    <3> QED BY <3>1, <3>2, <3>3, <1>1, <1>18
  <2> QED BY <2>1, <2>2, <2>3 DEF QueueInOrder
<1>20. group \subseteq Recoverable
  BY <1>1, <1>3, ReadFound
<1>21. \A b \in group : \E i \in DOMAIN queue : queue[i].id = b.id
  <2>1. \A i \in 1 .. n : i \in DOMAIN queue
    BY <1>6
  <2> QED BY <2>1, <1>5
<1>22. ASSUME NEW i \in DOMAIN queue'
       PROVE  \E j \in DOMAIN queue : queue[j].id = queue'[i].id /\ queue[j].id \notin Ids(group)
  <2>1. n + i \in DOMAIN queue /\ queue'[i] = queue[n + i]
    BY <1>6, <1>10
  <2>2. ASSUME queue[n + i].id \in Ids(group)
        PROVE  FALSE
    <3>1. PICK b \in group : b.id = queue[n + i].id
      BY <2>2 DEF Ids
    <3>2. PICK k \in 1 .. n : b.id = queue[k].id
      BY <1>5
    <3>3. k \in 1 .. Len(queue) /\ k < n + i /\ n + i \in 1 .. Len(queue)
      BY <1>6, <1>10
    <3>4. queue[k].id < queue[n + i].id
      BY <3>3, <1>2, <1>6 DEF QueueInOrder
    <3> QED BY <3>1, <3>2, <3>3, <3>4, <1>11
  <2> QED BY <2>1, <2>2
<1>23. ASSUME NEW j \in DOMAIN queue
       PROVE  \/ queue[j].id \in Ids(group)
              \/ \E i \in DOMAIN queue' : queue'[i].id = queue[j].id
  <2>1. CASE j > n
    BY <2>1, <1>6, <1>10
  <2>2. CASE ~(j > n)
    <3>1. j \in 1 .. n
      BY <2>2, <1>6
    <3> QED BY <3>1, <1>5 DEF Ids
  <2> QED BY <2>1, <2>2
<1> QED BY <1>9, <1>14, <1>16, <1>17, <1>19, <1>20, <1>21, <1>22, <1>23

\* What is read was written, in order, before what is being logged.
LEMMA OpenInOrder ==
    ASSUME LevelDBInv, phase = "open"
    PROVE  /\ InOrder(Read \cup group)
           /\ \A b \in Read \cup group : b.id <= written
           /\ \A b \in Read : b \in Batch /\ b.seq \in Nat /\ b.seq <= lastSeq
           /\ \A b \in group : \E i \in DOMAIN queue : queue[i].id = b.id
<1> USE DEF LevelDBInv
<1>1. /\ EntriesFind /\ NumbersAhead /\ LogsHoldMemory /\ QueueInOrder /\ GroupInOrder
  BY OpenState
<1>2. Read \subseteq DescribedFinds
  BY ReadFound
<1>3. InOrder(Read) /\ \A b \in Read : b.id <= written
  BY <1>1, <1>2 DEF EntriesFind, InOrder
<1>4. \A b \in Read : b \in Batch /\ b.id \in Nat /\ b.seq \in Nat /\ b.seq <= lastSeq
  <2>1. ASSUME NEW b \in Read
        PROVE  b \in Batch /\ b.seq <= lastSeq
    <3>1. CASE b \in mem \cup imm
      BY <3>1, <1>1 DEF LogsHoldMemory, LevelDBTypeOK
    <3>2. CASE b \in VersionHolds
      <4>1. PICK n \in Numbers(version) : n \in DOMAIN tables /\ b \in tables[n].batches
        BY <3>2, TablesMember DEF VersionHolds
      <4>2. PICK f \in version : f.num = n
        BY <4>1 DEF Numbers
      <4>3. b.seq <= lastSeq
        BY <4>1, <4>2, <1>1 DEF NumbersAhead, FilesGood
      <4> QED BY <3>2, <4>3, FoundType DEF VersionHolds
    <3> QED BY <2>1, <3>1, <3>2, ReadIs
  <2> QED BY <2>1, BatchType
<1>5. CASE ~Logging
  BY <1>3, <1>4, <1>5, <1>1 DEF GroupInOrder
<1>6. CASE Logging
  <2>1. PICK n \in 1 .. Len(queue) : group = Grouped(queue, n, lastSeq)
    BY <1>1, <1>6 DEF GroupInOrder
  <2>2. /\ \A b \in group : \E i \in 1 .. n : b.id = queue[i].id /\ b.seq = lastSeq + i
        /\ \A b \in group : b.id \in Nat /\ b.seq \in Nat /\ lastSeq < b.seq
    BY <1>1, <2>1, GroupCount
  <2>3. /\ n \in Nat /\ Len(queue) \in Nat /\ DOMAIN queue = 1 .. Len(queue)
        /\ \A i \in 1 .. n : i \in 1 .. Len(queue)
        /\ \A i \in 1 .. Len(queue) : queue[i].id \in Nat
    BY QueueType
  <2>4. lastSeq \in Nat
    BY DEF LevelDBTypeOK
  <2>5. \A b \in group : \E i \in DOMAIN queue : queue[i].id = b.id
    BY <2>2, <2>3
  <2>6. \A b \in group : b.id <= written
    BY <2>5, <1>1 DEF QueueInOrder
  <2>7. ASSUME NEW b \in group, NEW c \in Read
        PROVE  c.id < b.id /\ c.seq < b.seq
    <3>1. c.id < b.id
      BY <2>5, <1>1 DEF QueueInOrder
    <3> QED BY <3>1, <2>2, <2>4, <1>4
  <2>8. ASSUME NEW b \in group, NEW c \in group, b.id < c.id
        PROVE  b.seq < c.seq
    <3>1. PICK i \in 1 .. n : b.id = queue[i].id /\ b.seq = lastSeq + i
      BY <2>2
    <3>2. PICK j \in 1 .. n : c.id = queue[j].id /\ c.seq = lastSeq + j
      BY <2>2
    <3>3. ~(j < i) /\ i # j
      <4>1. j < i => queue[j].id < queue[i].id
        BY <2>3, <1>1 DEF QueueInOrder
      <4> QED BY <4>1, <3>1, <3>2, <2>8, <2>3
    <3> QED BY <3>1, <3>2, <3>3, <2>4
  <2>9. ASSUME NEW b \in Read \cup group, NEW c \in Read \cup group, b.id < c.id
        PROVE  b.seq < c.seq
    <3>1. CASE b \in group /\ c \in group
      BY <3>1, <2>8, <2>9
    <3>2. CASE b \in Read /\ c \in group
      BY <3>2, <2>7
    <3>3. CASE b \in group /\ c \in Read
      <4>1. c.id < b.id /\ b.id \in Nat /\ c.id \in Nat
        BY <3>3, <2>7, <2>2, <1>4
      <4> QED BY <4>1, <2>9
    <3>4. CASE b \in Read /\ c \in Read
      BY <3>4, <2>9, <1>3 DEF InOrder
    <3> QED BY <2>9, <3>1, <3>2, <3>3, <3>4
  <2> QED BY <1>3, <1>4, <2>5, <2>6, <2>9 DEF InOrder
<1> QED BY <1>5, <1>6

\* The logs before number z do not change with it.
LEMMA LogsBelow ==
    ASSUME NEW l, NEW m, NEW a \in Nat, NEW z \in Nat,
           \A n \in DOMAIN l : n \in Nat, \A n \in DOMAIN m : n \in Nat,
           \A n : n \in DOMAIN m /\ n < z <=> n \in DOMAIN l /\ n < z,
           \A n \in DOMAIN m : n < z => m[n] = l[n]
    PROVE  InLogs(m, a, z) = InLogs(l, a, z)
<1>1. ASSUME NEW b
      PROVE  b \in InLogs(m, a, z) <=> b \in InLogs(l, a, z)
  BY LogsMember
<1> QED BY <1>1

\* A group is logged: from then on it is found.
LEMMA AddRecordKeeps ==
    ASSUME LevelDBInv, NEW w \in Writers, AddRecord(w)
    PROVE  /\ LevelDBInv' /\ Recoverable' = Recoverable \cup group
           /\ \A b \in group : \E i \in DOMAIN queue : queue[i].id = b.id
<1> USE DEF LevelDBInv
<1>1. /\ writer[w] = "logging"
      /\ logs' = [logs EXCEPT ![logfile] = Append(@, group)]
      /\ writer' = [writer EXCEPT ![w] = "logged"]
      /\ UNCHANGED <<tables, descriptors, current, phase, toReplay, version, logNumber,
                     nextFile, descriptor, logfile, lastSeq, mem, imm, scheduled, bgError,
                     flush, merge, doomed, queue, group, written, flushed, budget>>
  BY DEF AddRecord, opening, versions, background
<1>2. /\ phase = "open" /\ current # 0
      /\ NumbersAhead /\ LogsHoldMemory /\ EntryHoldsVersion
      /\ EntryNamesVersion /\ FlushGood /\ MergeGood
      /\ DoomedUnneeded /\ QueueInOrder /\ GroupInOrder
  BY <1>1, LoggingOpen
<1>3. EntriesGood /\ EntriesFind /\ Described # Unreadable
  BY <1>2, OpenState
<1>4. /\ logfile \in Nat /\ logNumber \in Nat /\ lastSeq \in Nat /\ Described.log \in Nat
      /\ \A n \in DOMAIN logs : n \in Nat /\ n <= logfile
      /\ written \in Nat
  BY <1>2, OpenNumbers
<1>5. /\ Logging /\ ~Logged
      /\ \A v \in Writers : writer[v] \in {"awake", "waiting", "logging", "logged"} => v = w
  BY <1>1, <1>2, OneActive
<1>6. logfile \in DOMAIN logs /\ logs[logfile] \in Seq(SUBSET Batch)
  BY <1>2 DEF NumbersAhead, LevelDBTypeOK, IsFileMap
<1>7. group # {} /\ group \in SUBSET Batch
  <2>1. \E n \in 1 .. Len(queue) : group = Grouped(queue, n, lastSeq)
    BY <1>2, <1>5 DEF GroupInOrder
  <2>2. group # {}
    BY <1>2, <2>1, GroupCount
  <2> QED BY <2>2 DEF LevelDBTypeOK
<1>8. /\ DOMAIN logs' = DOMAIN logs
      /\ \A n \in DOMAIN logs : n # logfile => logs'[n] = logs[n]
      /\ logs'[logfile] = Append(logs[logfile], group)
  BY <1>1, <1>6
<1>9. /\ logs'[logfile] \in Seq(SUBSET Batch)
      /\ \A i \in DOMAIN logs'[logfile] : logs'[logfile][i] # Torn
  <2>1. \A i \in DOMAIN logs[logfile] : logs[logfile][i] # Torn
    BY <1>2 DEF LogsHoldMemory
  <2> QED BY <1>6, <1>7, <1>8, <2>1 DEF Torn
<1>10. /\ RecordsIn(logs[logfile]) = mem
       /\ RecordsIn(logs'[logfile]) = mem \cup group
  <2>1. RecordsIn(logs[logfile]) = mem /\ \A i \in DOMAIN logs[logfile] : logs[logfile][i] # Torn
    BY <1>2, <1>5 DEF LogsHoldMemory
  <2>2. RecordsIn(logs'[logfile]) = RecordsIn(logs[logfile]) \cup group
    BY <2>1, <1>6, <1>7, <1>8, RecordsAppended DEF Torn
  <2> QED BY <2>1, <2>2
<1>11. writer \in [Writers -> {"idle", "asleep", "awake", "waiting", "logging", "logged"}]
  BY DEF LevelDBTypeOK
<1>12. /\ writer' \in [Writers -> {"idle", "asleep", "awake", "waiting", "logging", "logged"}]
       /\ writer'[w] = "logged"
       /\ \A v \in Writers : v # w => writer'[v] = writer[v]
  BY <1>1, <1>11
<1>13. Logged' /\ Logging'
  BY <1>12 DEF Logged, Logging
<1>14. LevelDBTypeOK'
  <2>1. IsFileMap(logs', Seq(SUBSET Batch))
    <3>1. IsFileMap(logs, Seq(SUBSET Batch))
      BY DEF LevelDBTypeOK
    <3> QED BY <3>1, <1>8, <1>9 DEF IsFileMap
  <2> QED BY <1>1, <1>12, <2>1 DEF LevelDBTypeOK
<1>15. \A a \in Nat : InLogs(logs', a, logfile) = InLogs(logs, a, logfile)
  <2>1. /\ \A n \in DOMAIN logs : n \in Nat
        /\ \A n \in DOMAIN logs' : n \in Nat
        /\ \A n : n \in DOMAIN logs' /\ n < logfile <=> n \in DOMAIN logs /\ n < logfile
        /\ \A n \in DOMAIN logs' : n < logfile => logs'[n] = logs[n]
    BY <1>4, <1>8
  <2> QED BY <1>4, <2>1, LogsBelow
<1>16. Described' = Described /\ Synced' = Synced /\ VersionHolds' = VersionHolds
  BY <1>1 DEF Described, Synced, VersionHolds
<1>17. DescribedFinds' = DescribedFinds \cup group
  <2>1. Described.log <= logfile
    BY <1>2 DEF NumbersAhead
  <2>2. InLogsFrom(logs, Described.log) = InLogs(logs, Described.log, logfile) \cup mem
    BY <1>4, <1>6, <1>10, <2>1, LogsUpTo
  <2>3. InLogsFrom(logs', Described.log)
          = InLogs(logs', Described.log, logfile) \cup (mem \cup group)
    <3>1. logfile \in DOMAIN logs' /\ \A n \in DOMAIN logs' : n \in Nat /\ n <= logfile
      BY <1>4, <1>6, <1>8
    <3> QED BY <1>4, <1>10, <2>1, <3>1, LogsUpTo
  <2>4. InLogs(logs', Described.log, logfile) = InLogs(logs, Described.log, logfile)
    BY <1>4, <1>15
  <2>5. InTables(tables', Numbers(Described.files)) = InTables(tables, Numbers(Described.files))
    BY <1>1
  <2> QED BY <1>16, <2>2, <2>3, <2>4, <2>5 DEF DescribedFinds, Found
<1>18. DescribedFinds = Read /\ Recoverable = DescribedFinds
  BY <1>2, <1>5, ReadFound
<1>19. /\ InOrder(Read \cup group)
       /\ \A b \in Read \cup group : b.id <= written
       /\ \A b \in group : \E i \in DOMAIN queue : queue[i].id = b.id
  BY <1>2, OpenInOrder
<1>20. OnDisk'
  <2>1. EntriesGood'
    BY <1>1, <1>3, <1>16 DEF EntriesGood
  <2>2. SyncedWithin(InTables(tables, Numbers(Described.files)), Described.log)'
    <3>1. ~(logfile >= Described.log) => FALSE
      BY <1>2, <1>4 DEF NumbersAhead
    <3>2. SyncedWithin(InTables(tables, Numbers(Described.files)), Described.log)
      BY <1>3 DEF EntriesFind
    <3> QED BY <1>1, <1>8, <1>16, <3>1, <3>2 DEF SyncedWithin
  <2>3. EntriesFind'
    BY <1>1, <1>3, <1>16, <1>17, <1>18, <1>19, <2>2 DEF EntriesFind
  <2> QED BY <2>1, <2>3 DEF OnDisk
<1>21. BudgetSpent' /\ LogsBounded'
  <2>1. PICK top \in Nat : \A n \in DOMAIN logs : \A b \in RecordsIn(logs[n]) : b.seq <= top
    BY DEF LogsBounded
  <2>2. PICK n \in 1 .. Len(queue) : group = Grouped(queue, n, lastSeq)
    BY <1>2, <1>5 DEF GroupInOrder
  <2>3. \A b \in group : b.seq <= lastSeq + n
    BY <1>2, <2>2, GroupCount
  <2>4. n \in Nat /\ lastSeq + n \in Nat /\ top + (lastSeq + n) \in Nat
    BY <1>4, QueueType
  <2>5. ASSUME NEW m \in DOMAIN logs', NEW b \in RecordsIn(logs'[m])
        PROVE  b.seq <= top + (lastSeq + n)
    <3>1. CASE m # logfile
      <4>1. m \in DOMAIN logs /\ b \in RecordsIn(logs[m])
        BY <2>5, <3>1, <1>8
      <4>2. b.seq \in Nat /\ b.seq <= top
        BY <4>1, <2>1, FoundType, BatchType
      <4> QED BY <4>2, <2>4
    <3>2. CASE b \in mem
      <4>1. b.seq \in Nat /\ b.seq <= top
        BY <3>2, <1>6, <1>10, <2>1, FoundType, BatchType
      <4> QED BY <4>1, <2>4
    <3>3. CASE b \in group
      <4>1. b.seq \in Nat /\ b.seq <= lastSeq + n
        BY <3>3, <2>3, <1>7, BatchType
      <4> QED BY <4>1, <2>4
    <3> QED BY <2>5, <3>1, <3>2, <3>3, <1>10
  <2> QED BY <1>1, <1>8, <2>4, <2>5 DEF LogsBounded, BudgetSpent
<1>22. Creating'
  BY <1>1, <1>2, <1>3, <1>16 DEF Creating
<1>23. NotOpen' /\ Opening'
  BY <1>1, <1>2 DEF NotOpen, Opening
<1>24. NumbersAhead'
  BY <1>1, <1>2, <1>8, <1>16 DEF NumbersAhead
<1>25. LogsHoldMemory'
  BY <1>1, <1>2, <1>4, <1>9, <1>10, <1>13, <1>15 DEF LogsHoldMemory
<1>26. EntryHoldsVersion'
  <2>1. SyncedWithin(VersionHolds, logNumber)'
    <3>1. ~(logfile >= logNumber) => FALSE
      BY <1>2, <1>4 DEF NumbersAhead
    <3> QED BY <1>1, <1>2, <1>8, <1>16, <3>1 DEF SyncedWithin, EntryHoldsVersion
  <2> QED BY <1>1, <1>2, <1>4, <1>15, <1>16, <2>1 DEF EntryHoldsVersion
<1>27. EntryNamesVersion'
  BY <1>1, <1>2, <1>16 DEF EntryNamesVersion, NewTable, Merged
<1>28. FlushGood' /\ MergeGood'
  BY <1>1, <1>2, <1>16 DEF FlushGood, MergeGood, OwnTable
<1>29. DoomedUnneeded'
  BY <1>1, <1>2, <1>16 DEF DoomedUnneeded, Deletable
<1>30. QueueInOrder' /\ GroupInOrder'
  <2>1. Read' = Read
    BY <1>1, <1>16, ReadIs
  <2>2. \A v \in Writers : writer'[v] \in {"awake", "waiting", "logging", "logged"}
          => writer[v] \in {"awake", "waiting", "logging", "logged"}
    BY <1>1, <1>12
  <2>3. QueueInOrder'
    BY <1>1, <1>2, <2>1, <2>2 DEF QueueInOrder
  <2>4. GroupInOrder'
    BY <1>1, <1>2, <1>5, <1>13 DEF GroupInOrder
  <2> QED BY <2>3, <2>4
<1>31. Working'
  BY <1>24, <1>25, <1>26, <1>27, <1>28, <1>29, <1>30 DEF Working
<1>32. Recoverable' = Recoverable \cup group
  BY <1>1, <1>2, <1>17, <1>18, RecoverableFound DEF DescribedFinds
<1> QED BY <1>14, <1>19, <1>20, <1>21, <1>22, <1>23, <1>31, <1>32

\* The logs so far are those before a new one.
LEMMA LogsBeforeNew ==
    ASSUME NEW l, NEW m, NEW a \in Nat, NEW k \in Nat,
           \A n \in DOMAIN l : n \in Nat /\ n < k,
           \A n \in DOMAIN m : n = k \/ n \in DOMAIN l,
           \A n \in DOMAIN l : n \in DOMAIN m /\ m[n] = l[n]
    PROVE  InLogs(m, a, k) = InLogsFrom(l, a)
<1>1. ASSUME NEW b, b \in InLogs(m, a, k)
      PROVE  b \in InLogsFrom(l, a)
  <2>1. PICK n \in DOMAIN m : a <= n /\ n < k /\ b \in RecordsIn(m[n])
    BY <1>1, LogsMember
  <2>2. n \in DOMAIN l
    BY <2>1
  <2>3. n >= a
    BY <2>1, <2>2
  <2> QED BY <2>1, <2>2, <2>3, LogsFromMember
<1>2. ASSUME NEW b, b \in InLogsFrom(l, a)
      PROVE  b \in InLogs(m, a, k)
  <2>1. PICK n \in DOMAIN l : n >= a /\ b \in RecordsIn(l[n])
    BY <1>2, LogsFromMember
  <2>2. a <= n /\ n < k
    BY <2>1
  <2> QED BY <2>1, <2>2, LogsMember
<1> QED BY <1>1, <1>2

\* A full memtable gets a new log, and is what the logs before it hold.
LEMMA MakeRoomKeeps ==
    ASSUME LevelDBInv, NEW w \in Writers, MakeRoom(w)
    PROVE  LevelDBInv' /\ Recoverable' = Recoverable
<1> USE DEF LevelDBInv
<1>1. /\ phase = "open" /\ doomed = {} /\ writer[w] = "awake" /\ imm = {}
      /\ logs' = Put(logs, nextFile, << >>)
      /\ logfile' = nextFile /\ nextFile' = nextFile + 1
      /\ imm' = mem /\ mem' = {} /\ scheduled' = TRUE
      /\ UNCHANGED <<tables, descriptors, current, phase, toReplay, version, logNumber,
                     descriptor, lastSeq, bgError, flush, merge, doomed,
                     queue, writer, group, written, flushed, budget>>
  BY DEF MakeRoom, Unlocked, opening, writing
<1>2. /\ current # 0 /\ EntriesGood /\ Described # Unreadable
      /\ NumbersAhead /\ LogsHoldMemory /\ EntryHoldsVersion
      /\ EntryNamesVersion /\ FlushGood /\ MergeGood /\ QueueInOrder /\ GroupInOrder
  BY <1>1, OpenState
<1>3. /\ nextFile \in Nat /\ logfile \in Nat /\ logNumber \in Nat /\ lastSeq \in Nat
      /\ current \in Nat /\ Described.log \in Nat /\ Described.next \in Nat
      /\ flush.num \in Nat /\ merge.num \in Nat
      /\ \A n \in DOMAIN logs : n \in Nat /\ n <= logfile
  BY <1>1, OpenNumbers
<1>4. ~Logging /\ ~Logged
  BY <1>1, <1>2, OneActive
<1>5. flush.pc = "idle"
  BY <1>1, <1>2 DEF FlushGood
<1>6. /\ logfile < nextFile /\ nextFile \notin DOMAIN logs
      /\ \A n \in DOMAIN logs : n \in Nat /\ n < nextFile
  BY <1>2, <1>3 DEF NumbersAhead
<1>7. BudgetFalls
  BY <1>1, NotSpent DEF BudgetFalls
<1>8. /\ DiskKept /\ LogsBounded' /\ IsFileMap(logs', Seq(SUBSET Batch))
      /\ nextFile \in DOMAIN logs' /\ logs'[nextFile] = << >>
      /\ \A n \in DOMAIN logs' : n = nextFile \/ n \in DOMAIN logs
      /\ \A n \in DOMAIN logs : n # nextFile => n \in DOMAIN logs' /\ logs'[n] = logs[n]
  BY <1>1, <1>3, <1>6, <1>7, NewLogFile
<1>9. \A n \in DOMAIN logs : n \in DOMAIN logs' /\ logs'[n] = logs[n]
  BY <1>6, <1>8
<1>10. OnDisk' /\ SameEntries /\ Recoverable' = Recoverable
  BY <1>2, <1>8, DiskStays
<1>11. Described' = Described /\ Synced' = Synced /\ VersionHolds' = VersionHolds
  BY <1>1, <1>10 DEF SameEntries, VersionHolds
<1>12. LevelDBTypeOK'
  <2>1. {logNumber', logfile', nextFile', descriptor', lastSeq'} \subseteq Nat
    BY <1>1, <1>3 DEF LevelDBTypeOK
  <2>2. imm' \subseteq Batch /\ mem' \subseteq Batch /\ scheduled' \in BOOLEAN
    BY <1>1 DEF LevelDBTypeOK
  <2> QED BY <1>1, <1>8, <2>1, <2>2 DEF LevelDBTypeOK
<1>13. Creating'
  BY <1>1, <1>2, <1>11 DEF Creating
<1>14. NotOpen' /\ Opening'
  BY <1>1 DEF NotOpen, Opening
<1>15. \A a \in Nat : a <= logfile =>
         InLogs(logs', a, nextFile) = InLogs(logs, a, logfile) \cup mem
  <2>1. ASSUME NEW a \in Nat, a <= logfile
        PROVE  InLogs(logs', a, nextFile) = InLogs(logs, a, logfile) \cup mem
    <3>1. InLogs(logs', a, nextFile) = InLogsFrom(logs, a)
      BY <1>3, <1>6, <1>8, <1>9, LogsBeforeNew
    <3>2. logfile \in DOMAIN logs /\ RecordsIn(logs[logfile]) = mem
      BY <1>2, <1>4 DEF NumbersAhead, LogsHoldMemory
    <3>3. InLogsFrom(logs, a) = InLogs(logs, a, logfile) \cup RecordsIn(logs[logfile])
      BY <1>3, <2>1, <3>2, LogsUpTo
    <3> QED BY <3>1, <3>2, <3>3
  <2> QED BY <2>1
<1>16. /\ InLogs(logs', logNumber, nextFile) = mem
       /\ InLogs(logs', Described.log, nextFile) = InLogs(logs, Described.log, logfile) \cup mem
  <2>1. logNumber <= logfile /\ Described.log <= logfile
    BY <1>2 DEF NumbersAhead
  <2>2. InLogs(logs, logNumber, logfile) = {}
    BY <1>1, <1>2 DEF LogsHoldMemory
  <2>3. InLogs(logs', logNumber, nextFile) = InLogs(logs, logNumber, logfile) \cup mem
    BY <1>3, <1>15, <2>1
  <2>4. InLogs(logs', Described.log, nextFile) = InLogs(logs, Described.log, logfile) \cup mem
    BY <1>3, <1>15, <2>1
  <2> QED BY <2>2, <2>3, <2>4
<1>17. NumbersAhead'
  <2>1. FilesGood(version, tables, nextFile + 1, lastSeq)
    <3>1. FilesGood(version, tables, nextFile, lastSeq)
      BY <1>2 DEF NumbersAhead
    <3>2. \A f \in version : f.num \in Nat
      BY DEF LevelDBTypeOK, File
    <3> QED BY <1>3, <3>1, <3>2 DEF FilesGood
  <2>2. /\ current < nextFile + 1 /\ Described.next <= nextFile + 1
        /\ Described.log <= nextFile /\ logNumber <= nextFile /\ nextFile < nextFile + 1
    BY <1>2, <1>3 DEF NumbersAhead
  <2>3. \A n \in DOMAIN logs' : n <= nextFile
    BY <1>3, <1>6, <1>8
  <2>4. descriptor' = current'
    BY <1>1, <1>2 DEF NumbersAhead
  <2> QED BY <1>1, <1>8, <1>11, <2>1, <2>2, <2>3, <2>4 DEF NumbersAhead
<1>18. LogsHoldMemory'
  <2>1. RecordsIn(logs'[logfile']) = {} /\ logs'[logfile'] = << >>
    BY <1>1, <1>8, EmptyLog
  <2>2. ~Logged'
    BY <1>1, <1>4 DEF Logged
  <2>3. \A b \in mem' \cup imm' : b.seq <= lastSeq'
    BY <1>1, <1>2 DEF LogsHoldMemory
  <2> QED BY <1>1, <1>16, <2>1, <2>2, <2>3 DEF LogsHoldMemory
<1>19. EntryHoldsVersion'
  <2>1. InTables(tables', Numbers(Described.files)) = InTables(tables, Numbers(Described.files))
    BY <1>1
  <2>2. SyncedWithin(VersionHolds, logNumber)'
    <3>1. RecordsIn(logs'[nextFile]) = {}
      BY <1>8, EmptyLog
    <3>2. SyncedWithin(VersionHolds, logNumber)
      BY <1>2 DEF EntryHoldsVersion
    <3> QED BY <1>1, <1>8, <1>9, <1>11, <3>1, <3>2 DEF SyncedWithin
  <2> QED BY <1>1, <1>2, <1>11, <1>16, <2>1, <2>2 DEF EntryHoldsVersion
<1>20. EntryNamesVersion'
  BY <1>1, <1>2, <1>5, <1>11 DEF EntryNamesVersion, Merged
<1>21. FlushGood'
  BY <1>1, <1>5 DEF FlushGood
<1>22. MergeGood'
  <2>1. merge.num < nextFile => merge.num < nextFile + 1
    BY <1>3
  <2> QED BY <1>1, <1>2, <1>11, <2>1 DEF MergeGood, OwnTable
<1>23. DoomedUnneeded'
  BY <1>1 DEF DoomedUnneeded
<1>24. QueueInOrder' /\ GroupInOrder'
  <2>1. Read' = Read
    BY <1>1, <1>11, ReadIs
  <2>2. QueueInOrder'
    BY <1>1, <1>2, <2>1 DEF QueueInOrder
  <2>3. GroupInOrder'
    BY <1>1, <1>2 DEF GroupInOrder, Logging
  <2> QED BY <2>2, <2>3
<1>25. Working'
  BY <1>17, <1>18, <1>19, <1>20, <1>21, <1>22, <1>23, <1>24 DEF Working
<1> QED BY <1>7, <1>8, <1>10, <1>12, <1>13, <1>14, <1>25 DEF BudgetFalls

-----------------------------------------------------------------------------
\* Compactions.  A new one gets a file of its own.
NewOutput ==
    /\ phase = "open" /\ doomed = {}
    /\ nextFile' = nextFile + 1
    /\ tables' = Put(tables, nextFile, [batches |-> {}, whole |-> FALSE])
    /\ UNCHANGED <<logs, descriptors, current, phase, toReplay, version, logNumber, descriptor,
                   logfile, lastSeq, mem, imm, scheduled, bgError, doomed, queue, writer, group,
                   written, flushed, budget>>

\* The parts of the invariant that are not about compactions.
Undisturbed ==
    /\ NumbersAhead /\ LogsHoldMemory /\ EntryHoldsVersion
    /\ DoomedUnneeded /\ QueueInOrder /\ GroupInOrder

\* The file is new, so that nothing that is found, or that another compaction writes,
\* changes.
LEMMA NewOutputKeeps ==
    ASSUME LevelDBInv, NewOutput
    PROVE  /\ BudgetSpent' /\ LogsBounded' /\ OnDisk' /\ Creating' /\ NotOpen' /\ Opening'
           /\ Recoverable' = Recoverable
           /\ Described' = Described /\ Synced' = Synced
           /\ IsFileMap(tables', [batches : SUBSET Batch, whole : BOOLEAN])
           /\ nextFile' \in Nat
           /\ nextFile < nextFile' /\ nextFile \in DOMAIN tables'
           /\ nextFile \notin Numbers(version) /\ nextFile \notin Numbers(Described.files)
           /\ nextFile \notin Numbers(Synced.files)
           /\ \A n : OwnTable(n) /\ n \in Nat => OwnTable(n)' /\ n # nextFile /\ tables'[n] = tables[n]
           /\ Keeps(tables, tables', Numbers(version))
           /\ Undisturbed'
<1> USE DEF LevelDBInv
<1>1. /\ phase = "open" /\ doomed = {}
      /\ nextFile' = nextFile + 1
      /\ tables' = Put(tables, nextFile, [batches |-> {}, whole |-> FALSE])
      /\ UNCHANGED <<logs, descriptors, current, phase, toReplay, version, logNumber, descriptor,
                     logfile, lastSeq, mem, imm, scheduled, bgError, doomed, queue, writer, group,
                     written, flushed, budget>>
  BY DEF NewOutput
<1>2. /\ current # 0 /\ EntriesGood /\ Described # Unreadable
      /\ NumbersAhead /\ LogsHoldMemory /\ EntryHoldsVersion /\ QueueInOrder /\ GroupInOrder
  BY <1>1, OpenState
<1>3. /\ nextFile \in Nat /\ logfile \in Nat /\ lastSeq \in Nat
      /\ current \in Nat /\ Described.log \in Nat /\ Described.next \in Nat
      /\ \A n \in Numbers(Described.files) : n \in Nat /\ n \in DOMAIN tables /\ n < nextFile
      /\ \A n \in Numbers(Synced.files) : n \in Nat /\ n \in DOMAIN tables /\ n < nextFile
      /\ \A n \in Numbers(version) : n \in Nat /\ n \in DOMAIN tables /\ n < nextFile
      /\ written \in Nat
  BY <1>1, OpenNumbers
<1>4. /\ nextFile \notin Numbers(Described.files)
      /\ nextFile \notin Numbers(Synced.files)
      /\ nextFile \notin Numbers(version)
  BY <1>3
<1>5. /\ Keeps(tables, tables', Numbers(Described.files))
      /\ Keeps(tables, tables', Numbers(Synced.files))
      /\ Keeps(tables, tables', Numbers(version))
  BY <1>1, <1>3, <1>4, PutKeeps
<1>6. BudgetFalls
  BY <1>1, NotSpent DEF BudgetFalls
<1>7. DiskKept /\ LogsBounded'
  <2>1. FewerRecords
    BY <1>1 DEF FewerRecords
  <2>2. current \in DOMAIN descriptors
    BY <1>2 DEF EntriesGood
  <2>3. written <= written' /\ written' \in Nat
    BY <1>1, <1>3
  <2>4. DiskKept
    BY <1>1, <1>5, <1>6, <2>1, <2>2, <2>3 DEF DiskKept, BudgetFalls
  <2> QED BY <1>1, <2>4 DEF LogsBounded
<1>8. OnDisk' /\ SameEntries /\ Recoverable' = Recoverable
  BY <1>2, <1>7, DiskStays
<1>9. Described' = Described /\ Synced' = Synced
  BY <1>8 DEF SameEntries
<1>10. VersionHolds' = VersionHolds
  BY <1>1, <1>5, SameTables DEF VersionHolds
<1>11. Creating' /\ NotOpen' /\ Opening'
  BY <1>1, <1>2, <1>9 DEF Creating, NotOpen, Opening
<1>12. IsFileMap(tables', [batches : SUBSET Batch, whole : BOOLEAN]) /\ nextFile' \in Nat
  <2>1. [batches |-> {}, whole |-> FALSE] \in [batches : SUBSET Batch, whole : BOOLEAN]
    OBVIOUS
  <2>2. IsFileMap(tables, [batches : SUBSET Batch, whole : BOOLEAN])
    BY DEF LevelDBTypeOK
  <2>3. IsFileMap(tables', [batches : SUBSET Batch, whole : BOOLEAN])
    BY <1>1, <1>3, <2>1, <2>2, PutType
  <2> QED BY <1>1, <1>3, <2>3
<1>13. /\ DOMAIN tables' = DOMAIN tables \cup {nextFile}
       /\ \A n \in DOMAIN tables : n # nextFile => tables'[n] = tables[n]
  BY <1>1 DEF Put
<1>14. nextFile < nextFile' /\ nextFile \in DOMAIN tables'
  BY <1>1, <1>3, <1>13
<1>15. ASSUME NEW n \in Nat, OwnTable(n)
       PROVE  OwnTable(n)' /\ n # nextFile /\ tables'[n] = tables[n]
  BY <1>1, <1>3, <1>9, <1>13, <1>15 DEF OwnTable
<1>16. NumbersAhead'
  <2>1. FilesGood(version, tables', nextFile + 1, lastSeq)
    <3>1. FilesGood(version, tables, nextFile, lastSeq)
      BY <1>2 DEF NumbersAhead
    <3>2. \A f \in version : f.num \in Numbers(version)
      BY DEF Numbers
    <3>3. \A f \in version : f.num < nextFile + 1
      BY <1>3, <3>2
    <3> QED BY <1>5, <3>1, <3>2, <3>3 DEF FilesGood, Keeps
  <2>2. current < nextFile + 1 /\ Described.next <= nextFile + 1 /\ logfile < nextFile + 1
    BY <1>2, <1>3 DEF NumbersAhead
  <2> QED BY <1>1, <1>2, <1>9, <2>1, <2>2 DEF NumbersAhead
<1>17. LogsHoldMemory'
  BY <1>1, <1>2 DEF LogsHoldMemory, Logged
<1>18. EntryHoldsVersion'
  <2>1. /\ InTables(tables', Numbers(Described.files)) = InTables(tables, Numbers(Described.files))
        /\ InTables(tables', Numbers(Synced.files)) = InTables(tables, Numbers(Synced.files))
    BY <1>5, SameTables
  <2>2. SyncedWithin(VersionHolds, logNumber)'
    BY <1>1, <1>2, <1>9, <1>10, <2>1 DEF EntryHoldsVersion, SyncedWithin
  <2> QED BY <1>1, <1>2, <1>9, <1>10, <2>1, <2>2 DEF EntryHoldsVersion
<1>19. DoomedUnneeded'
  BY <1>1 DEF DoomedUnneeded
<1>20. QueueInOrder' /\ GroupInOrder'
  <2>1. Read' = Read
    BY <1>1, <1>10, ReadIs
  <2>2. QueueInOrder'
    BY <1>1, <1>2, <2>1 DEF QueueInOrder
  <2>3. GroupInOrder'
    BY <1>1, <1>2 DEF GroupInOrder, Logging
  <2> QED BY <2>2, <2>3
<1> QED BY <1>4, <1>5, <1>6, <1>7, <1>8, <1>9, <1>11, <1>12, <1>14, <1>15, <1>16, <1>17,
           <1>18, <1>19, <1>20 DEF BudgetFalls, Undisturbed

\* The compaction of the memtable begins.
LEMMA StartFlushKeeps ==
    ASSUME LevelDBInv, StartFlush
    PROVE  LevelDBInv' /\ Recoverable' = Recoverable
<1> USE DEF LevelDBInv
<1>1. /\ phase = "open" /\ NewOutput
      /\ flush.pc = "idle" /\ imm # {} /\ merge.pc \in {"idle", "merging"}
      /\ flush' = [pc |-> "building", num |-> nextFile, inputs |-> {}]
      /\ UNCHANGED <<logs, descriptors, current, phase, toReplay, version, logNumber, descriptor,
                     logfile, lastSeq, mem, imm, scheduled, bgError, doomed, queue, writer, group,
                     written, flushed, budget, merge>>
  BY DEF StartFlush, Unlocked, NewOutput, opening, writing
<1>2. /\ BudgetSpent' /\ LogsBounded' /\ OnDisk' /\ Creating' /\ NotOpen' /\ Opening'
      /\ Recoverable' = Recoverable
      /\ Described' = Described /\ Synced' = Synced
      /\ IsFileMap(tables', [batches : SUBSET Batch, whole : BOOLEAN])
      /\ nextFile' \in Nat
      /\ nextFile < nextFile' /\ nextFile \in DOMAIN tables'
      /\ nextFile \notin Numbers(version) /\ nextFile \notin Numbers(Described.files)
      /\ nextFile \notin Numbers(Synced.files)
      /\ \A n : OwnTable(n) /\ n \in Nat => OwnTable(n)' /\ n # nextFile /\ tables'[n] = tables[n]
      /\ Undisturbed'
  BY <1>1, NewOutputKeeps
<1>3. EntryNamesVersion /\ FlushGood /\ MergeGood
  BY <1>1, OpenState
<1>4. nextFile \in Nat /\ merge.num \in Nat
  BY <1>1, OpenNumbers
<1>5. flush'.pc = "building" /\ flush'.num = nextFile
  BY <1>1
<1>6. LevelDBTypeOK'
  <2>1. flush' \in Job
    BY <1>1, <1>4 DEF Job
  <2>2. {logNumber', logfile', nextFile', descriptor', lastSeq'} \subseteq Nat
    BY <1>1, <1>2 DEF LevelDBTypeOK
  <2> QED BY <1>1, <1>2, <2>1, <2>2 DEF LevelDBTypeOK
<1>7. EntryNamesVersion'
  BY <1>1, <1>2, <1>3, <1>5 DEF EntryNamesVersion
<1>8. FlushGood'
  BY <1>1, <1>2, <1>5 DEF FlushGood, OwnTable
<1>9. MergeGood'
  BY <1>1, <1>2, <1>3, <1>4, <1>5 DEF MergeGood
<1>10. Working'
  BY <1>2, <1>7, <1>8, <1>9 DEF Working, Undisturbed
<1> QED BY <1>2, <1>6, <1>10

\* A merge begins.
LEMMA StartMergeKeeps ==
    ASSUME LevelDBInv, StartMerge
    PROVE  LevelDBInv' /\ Recoverable' = Recoverable
<1> USE DEF LevelDBInv
<1>1. /\ phase = "open" /\ NewOutput
      /\ flush.pc = "idle" /\ merge.pc = "idle"
      /\ merge' = [pc |-> "merging", num |-> nextFile, inputs |-> FirstLevels(version)]
      /\ UNCHANGED <<logs, descriptors, current, phase, toReplay, version, logNumber, descriptor,
                     logfile, lastSeq, mem, imm, scheduled, bgError, doomed, queue, writer, group,
                     written, flushed, budget, flush>>
  BY DEF StartMerge, Unlocked, NewOutput, opening, writing
<1>2. /\ BudgetSpent' /\ LogsBounded' /\ OnDisk' /\ Creating' /\ NotOpen' /\ Opening'
      /\ Recoverable' = Recoverable
      /\ Described' = Described /\ Synced' = Synced
      /\ IsFileMap(tables', [batches : SUBSET Batch, whole : BOOLEAN])
      /\ nextFile' \in Nat
      /\ nextFile < nextFile' /\ nextFile \in DOMAIN tables'
      /\ nextFile \notin Numbers(version) /\ nextFile \notin Numbers(Described.files)
      /\ nextFile \notin Numbers(Synced.files)
      /\ Undisturbed'
  BY <1>1, NewOutputKeeps
<1>3. EntryNamesVersion /\ FlushGood
  BY <1>1, OpenState
<1>4. nextFile \in Nat /\ version \in SUBSET File
  BY <1>1, OpenNumbers DEF LevelDBTypeOK
<1>5. merge'.pc = "merging" /\ merge'.num = nextFile /\ merge'.inputs \subseteq version
  BY <1>1 DEF FirstLevels
<1>6. LevelDBTypeOK'
  <2>1. merge' \in Job
    BY <1>1, <1>4 DEF Job, FirstLevels
  <2>2. {logNumber', logfile', nextFile', descriptor', lastSeq'} \subseteq Nat
    BY <1>1, <1>2 DEF LevelDBTypeOK
  <2> QED BY <1>1, <1>2, <2>1, <2>2 DEF LevelDBTypeOK
<1>7. EntryNamesVersion'
  BY <1>1, <1>2, <1>3, <1>5 DEF EntryNamesVersion
<1>8. FlushGood'
  BY <1>1 DEF FlushGood
<1>9. MergeGood'
  BY <1>1, <1>2, <1>5 DEF MergeGood, OwnTable
<1>10. Working'
  BY <1>2, <1>7, <1>8, <1>9 DEF Working, Undisturbed
<1> QED BY <1>2, <1>6, <1>10

\* A table is finished, and the descriptor gets an entry d, which is not synced.
NewEntry(k, set, d) ==
    /\ phase = "open" /\ doomed = {}
    /\ tables' = Put(tables, k, [batches |-> set, whole |-> TRUE])
    /\ LogState(d)
    /\ UNCHANGED <<logs, current, phase, toReplay, version, logNumber, nextFile, descriptor,
                   logfile, lastSeq, mem, imm, scheduled, bgError, doomed, queue, writer, group,
                   written, flushed, budget>>

\* The entry finds what the version and the full memtable hold.
EntryFits(k, d) ==
    /\ OwnTable(k)
    /\ d.next = nextFile /\ d.log <= logfile
    /\ FilesGood(d.files, tables', nextFile, d.seq)
    /\ InTables(tables', Numbers(d.files)) \cup InLogs(logs, d.log, logfile)
         = VersionHolds \cup imm
    /\ VersionHolds \subseteq InTables(tables', Numbers(d.files))
    /\ SyncedWithin(InTables(tables', Numbers(d.files)), d.log)

\* If the entry finds what it should, so does the database from then on.
LEMMA NewEntryKeeps ==
    ASSUME LevelDBInv, NEW k \in Nat, NEW set \in SUBSET Batch, NEW d \in State,
           NewEntry(k, set, d), EntryFits(k, d)
    PROVE  /\ BudgetSpent' /\ LogsBounded' /\ OnDisk' /\ Creating' /\ NotOpen' /\ Opening'
           /\ Recoverable' = Recoverable
           /\ Described' = d /\ Synced' = Synced
           /\ IsFileMap(tables', [batches : SUBSET Batch, whole : BOOLEAN])
           /\ IsFileMap(descriptors', [state : State, synced : State])
           /\ \A n : OwnTable(n) => OwnTable(n)'
           /\ \A n \in DOMAIN tables : n \in DOMAIN tables' /\ (n # k => tables'[n] = tables[n])
           /\ tables'[k] = [batches |-> set, whole |-> TRUE]
           /\ Undisturbed'
<1> USE DEF LevelDBInv
<1>1. /\ phase = "open" /\ doomed = {}
      /\ tables' = Put(tables, k, [batches |-> set, whole |-> TRUE])
      /\ descriptors' = [descriptors EXCEPT ![descriptor].state = d]
      /\ UNCHANGED <<logs, current, phase, toReplay, version, logNumber, nextFile, descriptor,
                     logfile, lastSeq, mem, imm, scheduled, bgError, doomed, queue, writer, group,
                     written, flushed, budget>>
  BY DEF NewEntry, LogState
<1>2. /\ OwnTable(k)
      /\ d.next = nextFile /\ d.log <= logfile
      /\ FilesGood(d.files, tables', nextFile, d.seq)
      /\ InTables(tables', Numbers(d.files)) \cup InLogs(logs, d.log, logfile)
           = VersionHolds \cup imm
      /\ VersionHolds \subseteq InTables(tables', Numbers(d.files))
      /\ SyncedWithin(InTables(tables', Numbers(d.files)), d.log)
  BY DEF EntryFits
<1>3. /\ current # 0 /\ EntriesGood /\ EntriesFind /\ Described # Unreadable
      /\ NumbersAhead /\ LogsHoldMemory /\ EntryHoldsVersion /\ QueueInOrder /\ GroupInOrder
  BY <1>1, OpenState
<1>4. /\ nextFile \in Nat /\ logfile \in Nat /\ lastSeq \in Nat
      /\ current \in Nat /\ descriptor = current
      /\ Synced.next \in Nat /\ Described.next \in Nat
      /\ \A n \in Numbers(Synced.files) : n \in Nat /\ n \in DOMAIN tables /\ n < nextFile
      /\ \A n \in Numbers(version) : n \in Nat /\ n \in DOMAIN tables /\ n < nextFile
      /\ \A n \in DOMAIN logs : n \in Nat /\ n <= logfile
  BY <1>1, OpenNumbers
<1>5. d.log \in Nat /\ d.next \in Nat /\ d.seq \in Nat
  BY DEF State
<1>6. /\ DOMAIN tables' = DOMAIN tables \cup {k}
      /\ \A n \in DOMAIN tables : n # k => tables'[n] = tables[n]
      /\ tables'[k] = [batches |-> set, whole |-> TRUE]
  BY <1>1 DEF Put
<1>7. /\ Keeps(tables, tables', Numbers(Synced.files))
      /\ Keeps(tables, tables', Numbers(version))
  BY <1>2, <1>4, <1>6 DEF OwnTable, Keeps
<1>8. /\ VersionHolds' = VersionHolds
      /\ InTables(tables', Numbers(Synced.files)) = InTables(tables, Numbers(Synced.files))
  BY <1>1, <1>7, SameTables DEF VersionHolds
<1>9. current \in DOMAIN descriptors
  BY <1>3 DEF EntriesGood
<1>10. descriptors[current] \in [state : State, synced : State]
  BY <1>9 DEF LevelDBTypeOK, IsFileMap
<1>11. /\ DOMAIN descriptors' = DOMAIN descriptors
       /\ descriptors'[current].state = d
       /\ descriptors'[current].synced = descriptors[current].synced
       /\ descriptors'[current] \in [state : State, synced : State]
       /\ \A n \in DOMAIN descriptors : n # current => descriptors'[n] = descriptors[n]
  BY <1>1, <1>4, <1>9, <1>10
<1>12. Described' = d /\ Synced' = Synced
  BY <1>1, <1>11 DEF Described, Synced
<1>13. IsFileMap(descriptors', [state : State, synced : State])
  BY <1>11 DEF LevelDBTypeOK, IsFileMap
<1>14. IsFileMap(tables', [batches : SUBSET Batch, whole : BOOLEAN])
  <2>1. [batches |-> set, whole |-> TRUE] \in [batches : SUBSET Batch, whole : BOOLEAN]
    OBVIOUS
  <2>2. IsFileMap(tables, [batches : SUBSET Batch, whole : BOOLEAN])
    BY DEF LevelDBTypeOK
  <2> QED BY <1>1, <2>1, <2>2, PutType
<1>15. d # Unreadable
  <2>1. nextFile # 0
    BY <1>3, <1>4 DEF NumbersAhead
  <2> QED BY <1>2, <2>1 DEF Unreadable
<1>16. EntriesGood'
  <2>1. EntryGood(d, tables', current)
    BY <1>2, <1>3, <1>4, <1>5 DEF EntryGood, NumbersAhead
  <2>2. EntryGood(Synced, tables', current)
    BY <1>3, <1>7, EntryKept DEF EntriesGood
  <2>3. Synced.next <= d.next
    BY <1>2, <1>3, <1>4 DEF EntriesGood, NumbersAhead
  <2> QED BY <1>1, <1>3, <1>9, <1>11, <1>12, <1>15, <2>1, <2>2, <2>3 DEF EntriesGood
<1>17. DescribedFinds' = DescribedFinds
  <2>1. InLogsFrom(logs, d.log) = InLogs(logs, d.log, logfile) \cup RecordsIn(logs[logfile])
    BY <1>2, <1>3, <1>4, <1>5, LogsUpTo DEF NumbersAhead
  <2>2. DescribedFinds' = InTables(tables', Numbers(d.files)) \cup InLogsFrom(logs, d.log)
    BY <1>1, <1>12 DEF DescribedFinds, Found
  <2>3. DescribedFinds = VersionHolds \cup imm \cup RecordsIn(logs[logfile])
    BY <1>1, ReadFound
  <2> QED BY <1>2, <2>1, <2>2, <2>3
<1>18. EntriesFind'
  <2>1. SyncedWithin(InTables(tables, Numbers(Described.files)), Described.log)'
    BY <1>1, <1>2, <1>8, <1>12 DEF SyncedWithin
  <2>2. flushed \subseteq VersionHolds
    BY <1>3 DEF EntryHoldsVersion
  <2> QED BY <1>1, <1>2, <1>3, <1>8, <1>12, <1>17, <2>1, <2>2 DEF EntriesFind
<1>19. OnDisk'
  BY <1>16, <1>18 DEF OnDisk
<1>20. Recoverable' = Recoverable
  BY <1>1, <1>3, <1>17, RecoverableFound DEF DescribedFinds
<1>21. BudgetSpent' /\ LogsBounded'
  BY <1>1 DEF BudgetSpent, LogsBounded
<1>22. Creating' /\ NotOpen' /\ Opening'
  BY <1>1, <1>3, <1>12, <1>15 DEF Creating, NotOpen, Opening
<1>23. ASSUME NEW n, OwnTable(n)
       PROVE  OwnTable(n)'
  BY <1>1, <1>6, <1>12, <1>23 DEF OwnTable
<1>24. NumbersAhead'
  <2>1. FilesGood(version, tables', nextFile, lastSeq)
    <3>1. FilesGood(version, tables, nextFile, lastSeq)
      BY <1>3 DEF NumbersAhead
    <3>2. \A f \in version : f.num \in Numbers(version)
      BY DEF Numbers
    <3> QED BY <1>7, <3>1, <3>2 DEF FilesGood, Keeps
  <2>2. nextFile <= nextFile
    BY <1>4
  <2> QED BY <1>1, <1>2, <1>3, <1>12, <2>1, <2>2 DEF NumbersAhead
<1>25. LogsHoldMemory'
  BY <1>1, <1>3 DEF LogsHoldMemory, Logged
<1>26. EntryHoldsVersion'
  <2>1. SyncedWithin(VersionHolds, logNumber)'
    BY <1>1, <1>3, <1>8, <1>12 DEF EntryHoldsVersion, SyncedWithin
  <2>2. flushed \subseteq VersionHolds
    BY <1>3 DEF EntryHoldsVersion
  <2> QED BY <1>1, <1>2, <1>8, <1>12, <2>1, <2>2 DEF EntryHoldsVersion
<1>27. DoomedUnneeded'
  BY <1>1 DEF DoomedUnneeded
<1>28. QueueInOrder' /\ GroupInOrder'
  <2>1. Read' = Read
    BY <1>1, <1>8, ReadIs
  <2>2. QueueInOrder'
    BY <1>1, <1>3, <2>1 DEF QueueInOrder
  <2>3. GroupInOrder'
    BY <1>1, <1>3 DEF GroupInOrder, Logging
  <2> QED BY <2>2, <2>3
<1> QED BY <1>6, <1>12, <1>13, <1>14, <1>19, <1>20, <1>21, <1>22, <1>23, <1>24, <1>25,
           <1>26, <1>27, <1>28 DEF Undisturbed

\* The table of the memtable is a file, at one of the levels.
LEMMA NewTableFile ==
    ASSUME LevelDBTypeOK
    PROVE  NewTable \in File /\ NewTable.num = flush.num
<1> DEFINE S == {0} \cup {l \in Levels : \A f \in version : f.level > l}
<1>1. S \subseteq Levels /\ S # {} /\ S \in SUBSET Int
  BY DEF Levels
<1>2. IsFiniteSet(S)
  <2>1. 0 \in Int /\ 2 \in Int
    OBVIOUS
  <2>2. IsFiniteSet(0 .. 2)
    BY <2>1, FS_Interval
  <2> QED BY <2>2, <1>1, FS_Subset DEF Levels
<1>3. Max(S) \in Levels
  <2> HIDE DEF S
  <2> QED BY <1>1, <1>2, MaxProperties
<1>4. flush.num \in Nat
  BY DEF LevelDBTypeOK, Job
<1> QED BY <1>3, <1>4 DEF NewTable, File

\* The numbers of two sets of files are those of one or the other.
LEMMA NumbersOfUnion ==
    ASSUME NEW S, NEW T
    PROVE  Numbers(S \cup T) = Numbers(S) \cup Numbers(T)
BY DEF Numbers

\* One file has one number.
LEMMA NumbersOfOne ==
    ASSUME NEW f
    PROVE  Numbers({f}) = {f.num}
BY DEF Numbers

\* One table holds its own batches.
LEMMA TablesOfOne ==
    ASSUME NEW t, NEW n \in DOMAIN t
    PROVE  InTables(t, {n}) = t[n].batches
<1>1. ASSUME NEW b
      PROVE  b \in InTables(t, {n}) <=> b \in t[n].batches
  BY TablesMember
<1> QED BY <1>1

\* A table is added to files that are good and keep theirs.
LEMMA FilesAdded ==
    ASSUME NEW S, NEW f, NEW t, NEW u, NEW next, NEW seq,
           FilesGood(S, t, next, seq), Keeps(t, u, Numbers(S)),
           f.num < next, f.num \in DOMAIN u, u[f.num].whole,
           \A b \in u[f.num].batches : b.seq <= seq
    PROVE  FilesGood(S \cup {f}, u, next, seq)
<1>1. \A g \in S : g.num \in Numbers(S)
  BY DEF Numbers
<1> QED BY <1>1 DEF FilesGood, Keeps

\* The memtable's table and its entry are written.
LEMMA LogFlushKeeps ==
    ASSUME LevelDBInv, LogFlush
    PROVE  LevelDBInv' /\ Recoverable' = Recoverable
<1> USE DEF LevelDBInv
<1> DEFINE d == [files |-> version \cup {NewTable}, log |-> logfile,
                 next |-> nextFile, seq |-> lastSeq]
<1>1. /\ phase = "open" /\ doomed = {} /\ flush.pc = "building"
      /\ NewEntry(flush.num, imm, d)
      /\ flush' = [flush EXCEPT !.pc = "logged"]
      /\ UNCHANGED <<logs, current, phase, toReplay, version, logNumber, nextFile, descriptor,
                     logfile, lastSeq, mem, imm, scheduled, bgError, doomed, queue, writer, group,
                     written, flushed, budget, merge>>
      /\ tables' = Put(tables, flush.num, [batches |-> imm, whole |-> TRUE])
  BY DEF LogFlush, Unlocked, NewEntry, opening, versions, writing
<1>2. d.files = version \cup {NewTable} /\ d.log = logfile /\ d.next = nextFile /\ d.seq = lastSeq
  OBVIOUS
<1>3. /\ NumbersAhead /\ LogsHoldMemory /\ EntryHoldsVersion /\ FlushGood /\ MergeGood
  BY <1>1, OpenState
<1>4. /\ nextFile \in Nat /\ logfile \in Nat /\ logNumber \in Nat /\ lastSeq \in Nat
      /\ flush.num \in Nat /\ merge.num \in Nat /\ Synced.log \in Nat
      /\ \A n \in Numbers(version) : n \in DOMAIN tables
      /\ \A n \in DOMAIN logs : n \in Nat /\ n <= logfile
  BY <1>1, OpenNumbers
<1>5. NewTable \in File /\ NewTable.num = flush.num
  BY NewTableFile
<1>6. d \in State
  BY <1>4, <1>5 DEF State, LevelDBTypeOK
<1>7. imm \in SUBSET Batch
  BY DEF LevelDBTypeOK
<1> HIDE DEF d
<1>8. OwnTable(flush.num) /\ imm # {}
  BY <1>1, <1>3 DEF FlushGood
<1>9. /\ DOMAIN tables' = DOMAIN tables \cup {flush.num}
      /\ \A n \in DOMAIN tables : n # flush.num => tables'[n] = tables[n]
      /\ tables'[flush.num] = [batches |-> imm, whole |-> TRUE]
  BY <1>1 DEF Put
<1>10. Keeps(tables, tables', Numbers(version))
  BY <1>4, <1>8, <1>9 DEF Keeps, OwnTable
<1>11. Numbers(d.files) = Numbers(version) \cup {flush.num}
  <2>1. Numbers(version \cup {NewTable}) = Numbers(version) \cup Numbers({NewTable})
    BY NumbersOfUnion
  <2>2. Numbers({NewTable}) = {NewTable.num}
    BY NumbersOfOne
  <2> QED BY <1>2, <1>5, <2>1, <2>2
<1>12. InTables(tables', Numbers(d.files)) = VersionHolds \cup imm
  <2>1. InTables(tables', Numbers(version)) = VersionHolds
    BY <1>10, SameTables DEF VersionHolds
  <2>2. InTables(tables', {flush.num}) = imm
    BY <1>9, TablesOfOne
  <2> QED BY <1>11, <2>1, <2>2, TablesOfUnion
<1>13. EntryFits(flush.num, d)
  <2>1. FilesGood(d.files, tables', nextFile, d.seq)
    <3>1. FilesGood(version, tables, nextFile, lastSeq)
      BY <1>3 DEF NumbersAhead
    <3>2. /\ flush.num < nextFile /\ flush.num \in DOMAIN tables' /\ tables'[flush.num].whole
          /\ \A b \in tables'[flush.num].batches : b.seq <= lastSeq
      BY <1>3, <1>8, <1>9 DEF OwnTable, LogsHoldMemory
    <3> QED BY <1>2, <1>5, <1>10, <3>1, <3>2, FilesAdded
  <2>2. InLogs(logs, logfile, logfile) = {}
    BY <1>4, NoLogsBetween
  <2>3. SyncedWithin(VersionHolds \cup imm, logfile)
    <3>1. /\ SyncedWithin(VersionHolds, logNumber)
          /\ imm = InLogs(logs, logNumber, logfile)
      BY <1>3 DEF EntryHoldsVersion, LogsHoldMemory
    <3>2. ASSUME NEW n \in DOMAIN logs, n >= Synced.log, ~(n >= logfile), NEW b \in RecordsIn(logs[n])
          PROVE  b \in VersionHolds \cup imm
      <4>1. CASE n >= logNumber
        <5>1. logNumber <= n /\ n < logfile
          BY <1>4, <3>2, <4>1
        <5> QED BY <3>1, <3>2, <5>1, LogsMember
      <4>2. CASE ~(n >= logNumber)
        BY <3>1, <3>2, <4>2 DEF SyncedWithin
      <4> QED BY <4>1, <4>2
    <3> QED BY <3>1, <3>2 DEF SyncedWithin
  <2>4. logfile <= logfile
    BY <1>4
  <2> QED BY <1>2, <1>8, <1>12, <2>1, <2>2, <2>3, <2>4 DEF EntryFits
<1>14. /\ BudgetSpent' /\ LogsBounded' /\ OnDisk' /\ Creating' /\ NotOpen' /\ Opening'
       /\ Recoverable' = Recoverable
       /\ Described' = d /\ Synced' = Synced
       /\ IsFileMap(tables', [batches : SUBSET Batch, whole : BOOLEAN])
       /\ IsFileMap(descriptors', [state : State, synced : State])
       /\ \A n : OwnTable(n) => OwnTable(n)'
       /\ Undisturbed'
  BY <1>1, <1>4, <1>6, <1>7, <1>13, NewEntryKeeps
<1>15. flush \in Job
  BY DEF LevelDBTypeOK
<1>16. flush'.pc = "logged" /\ flush'.num = flush.num /\ flush' \in Job
  BY <1>1, <1>15 DEF Job
<1>17. LevelDBTypeOK'
  BY <1>1, <1>14, <1>16 DEF LevelDBTypeOK
<1>18. NewTable' = NewTable
  BY <1>1, <1>16 DEF NewTable
<1>19. merge.pc # "logged"
  BY <1>1, <1>3 DEF MergeGood
<1>20. EntryNamesVersion'
  BY <1>1, <1>2, <1>14, <1>16, <1>18, <1>19 DEF EntryNamesVersion
<1>21. OwnTable(flush.num)'
  <2>1. /\ flush.num < nextFile' /\ flush.num \in DOMAIN tables'
        /\ flush.num \notin Numbers(version') /\ flush.num \notin Numbers(Synced.files)
    BY <1>1, <1>8, <1>9 DEF OwnTable
  <2> QED BY <1>14, <1>16, <2>1 DEF OwnTable
<1>22. FlushGood'
  BY <1>1, <1>8, <1>9, <1>16, <1>21 DEF FlushGood
<1>23. MergeGood'
  <2>1. merge.pc = "merging" => merge.num \notin Numbers(d.files)
    BY <1>1, <1>3, <1>11 DEF MergeGood, OwnTable
  <2>2. merge.pc # "idle" => OwnTable(merge.num)'
    <3>1. ASSUME merge.pc # "idle"
          PROVE  OwnTable(merge.num)'
      <4>1. OwnTable(merge.num)
        BY <1>3, <3>1 DEF MergeGood
      <4> QED BY <1>1, <1>9, <1>14, <4>1 DEF OwnTable
    <3> QED BY <3>1
  <2> QED BY <1>1, <1>3, <1>14, <1>16, <1>19, <2>1, <2>2 DEF MergeGood
<1>24. Working'
  BY <1>14, <1>20, <1>22, <1>23 DEF Working, Undisturbed
<1> QED BY <1>14, <1>17, <1>24

\* The output of a merge and its entry are written.
LEMMA LogMergeKeeps ==
    ASSUME LevelDBInv, LogMerge
    PROVE  LevelDBInv' /\ Recoverable' = Recoverable
<1> USE DEF LevelDBInv
<1> DEFINE d == [files |-> Merged, log |-> logNumber, next |-> nextFile, seq |-> lastSeq]
           out == [num |-> merge.num, level |-> 1]
           set == InTables(tables, Numbers(merge.inputs))
           rest == version \ merge.inputs
<1>1. /\ phase = "open" /\ doomed = {} /\ flush.pc = "idle" /\ merge.pc = "merging"
      /\ NewEntry(merge.num, set, d)
      /\ merge' = [merge EXCEPT !.pc = "logged"]
      /\ UNCHANGED <<logs, current, phase, toReplay, version, logNumber, nextFile, descriptor,
                     logfile, lastSeq, mem, imm, scheduled, bgError, doomed, queue, writer, group,
                     written, flushed, budget, flush>>
      /\ tables' = Put(tables, merge.num, [batches |-> set, whole |-> TRUE])
  BY DEF LogMerge, Unlocked, NewEntry, opening, versions, writing, TableBatches, InTables
<1>2. d.files = rest \cup {out} /\ d.log = logNumber /\ d.next = nextFile /\ d.seq = lastSeq
  BY DEF Merged
<1>3. /\ NumbersAhead /\ LogsHoldMemory /\ EntryHoldsVersion /\ MergeGood
  BY <1>1, OpenState
<1>4. /\ nextFile \in Nat /\ logfile \in Nat /\ logNumber \in Nat /\ lastSeq \in Nat
      /\ merge.num \in Nat
      /\ \A n \in Numbers(version) : n \in DOMAIN tables
  BY <1>1, OpenNumbers
<1>5. version \in SUBSET File /\ merge \in Job
  BY DEF LevelDBTypeOK
<1>6. out \in File /\ out.num = merge.num
  BY <1>4 DEF File, Levels
<1>7. d \in State
  BY <1>2, <1>4, <1>5, <1>6 DEF State, Merged
<1>8. set \in SUBSET Batch
  BY FoundType
<1>9. merge.inputs \subseteq version /\ OwnTable(merge.num)
  BY <1>1, <1>3 DEF MergeGood
<1> HIDE DEF d, out, set, rest
<1>10. /\ DOMAIN tables' = DOMAIN tables \cup {merge.num}
       /\ \A n \in DOMAIN tables : n # merge.num => tables'[n] = tables[n]
       /\ tables'[merge.num] = [batches |-> set, whole |-> TRUE]
  BY <1>1 DEF Put
<1>11. Keeps(tables, tables', Numbers(version))
  BY <1>4, <1>9, <1>10 DEF Keeps, OwnTable
<1>12. /\ Numbers(rest) \cup Numbers(merge.inputs) = Numbers(version)
       /\ Numbers(d.files) = Numbers(rest) \cup {merge.num}
  <2>1. rest \cup merge.inputs = version
    BY <1>9 DEF rest
  <2>2. Numbers(rest \cup merge.inputs) = Numbers(rest) \cup Numbers(merge.inputs)
    BY NumbersOfUnion
  <2>3. Numbers(rest \cup {out}) = Numbers(rest) \cup Numbers({out})
    BY NumbersOfUnion
  <2>4. Numbers({out}) = {out.num}
    BY NumbersOfOne
  <2> QED BY <1>2, <1>6, <2>1, <2>2, <2>3, <2>4
<1>13. VersionHolds = InTables(tables, Numbers(rest)) \cup set
  <2>1. InTables(tables, Numbers(rest) \cup Numbers(merge.inputs))
          = InTables(tables, Numbers(rest)) \cup InTables(tables, Numbers(merge.inputs))
    BY TablesOfUnion
  <2> QED BY <1>12, <2>1 DEF VersionHolds, set
<1>14. InTables(tables', Numbers(d.files)) = VersionHolds
  <2>1. InTables(tables', Numbers(rest)) = InTables(tables, Numbers(rest))
    <3>1. Keeps(tables, tables', Numbers(rest))
      BY <1>11, <1>12 DEF Keeps
    <3> QED BY <3>1, SameTables
  <2>2. InTables(tables', {merge.num}) = set
    BY <1>10, TablesOfOne
  <2>3. InTables(tables', Numbers(rest) \cup {merge.num})
          = InTables(tables', Numbers(rest)) \cup InTables(tables', {merge.num})
    BY TablesOfUnion
  <2> QED BY <1>12, <1>13, <2>1, <2>2, <2>3
<1>15. InTables(tables', Numbers(merge.inputs)) = set
  <2>1. Keeps(tables, tables', Numbers(merge.inputs))
    BY <1>11, <1>12 DEF Keeps
  <2> QED BY <2>1, SameTables DEF set
<1>16. EntryFits(merge.num, d)
  <2>1. FilesGood(d.files, tables', nextFile, d.seq)
    <3>1. FilesGood(rest, tables, nextFile, lastSeq)
      BY <1>3 DEF NumbersAhead, FilesGood, rest
    <3>2. Keeps(tables, tables', Numbers(rest))
      BY <1>11, <1>12 DEF Keeps
    <3>3. \A b \in set : b.seq <= lastSeq
      <4>1. set \subseteq Read
        BY <1>13, ReadIs
      <4> QED BY <1>1, <4>1, OpenInOrder
    <3>4. /\ merge.num < nextFile /\ merge.num \in DOMAIN tables' /\ tables'[merge.num].whole
          /\ \A b \in tables'[merge.num].batches : b.seq <= lastSeq
      BY <1>9, <1>10, <3>3 DEF OwnTable
    <3>5. FilesGood(rest \cup {out}, tables', nextFile, lastSeq)
      <4>1. /\ out.num < nextFile /\ out.num \in DOMAIN tables' /\ tables'[out.num].whole
            /\ \A b \in tables'[out.num].batches : b.seq <= lastSeq
        BY <1>6, <3>4
      <4> QED BY <3>1, <3>2, <4>1, FilesAdded
    <3> QED BY <1>2, <3>5
  <2>2. /\ InLogs(logs, logNumber, logfile) = imm /\ logNumber <= logfile
        /\ SyncedWithin(VersionHolds, logNumber)
    BY <1>3 DEF NumbersAhead, LogsHoldMemory, EntryHoldsVersion
  <2> QED BY <1>2, <1>9, <1>14, <2>1, <2>2 DEF EntryFits
<1>17. /\ BudgetSpent' /\ LogsBounded' /\ OnDisk' /\ Creating' /\ NotOpen' /\ Opening'
       /\ Recoverable' = Recoverable
       /\ Described' = d /\ Synced' = Synced
       /\ IsFileMap(tables', [batches : SUBSET Batch, whole : BOOLEAN])
       /\ IsFileMap(descriptors', [state : State, synced : State])
       /\ Undisturbed'
  BY <1>1, <1>4, <1>7, <1>8, <1>16, NewEntryKeeps
<1>18. merge'.pc = "logged" /\ merge'.num = merge.num /\ merge'.inputs = merge.inputs /\ merge' \in Job
  BY <1>1, <1>5 DEF Job
<1>19. LevelDBTypeOK'
  BY <1>1, <1>17, <1>18 DEF LevelDBTypeOK
<1>20. Merged' = d.files
  BY <1>1, <1>2, <1>18 DEF Merged, out, rest
<1>21. EntryNamesVersion'
  BY <1>1, <1>2, <1>17, <1>18, <1>20 DEF EntryNamesVersion
<1>22. FlushGood'
  BY <1>1 DEF FlushGood
<1>23. OwnTable(merge.num)'
  <2>1. /\ merge.num < nextFile' /\ merge.num \in DOMAIN tables'
        /\ merge.num \notin Numbers(version') /\ merge.num \notin Numbers(Synced.files)
    BY <1>1, <1>9, <1>10 DEF OwnTable
  <2> QED BY <1>17, <1>18, <2>1 DEF OwnTable
<1>24. MergeGood'
  BY <1>1, <1>9, <1>10, <1>15, <1>18, <1>23 DEF MergeGood
<1>25. Working'
  BY <1>17, <1>21, <1>22, <1>24 DEF Working, Undisturbed
<1> QED BY <1>17, <1>19, <1>25

\* Whoever waits for room is woken: nothing changes for the queue and the group.
LEMMA WakeKeeps ==
    ASSUME LevelDBTypeOK, QueueInOrder, GroupInOrder, writer' = Wake, Read' = Read,
           UNCHANGED <<queue, group, written, lastSeq>>
    PROVE  /\ writer' \in [Writers -> {"idle", "asleep", "awake", "waiting", "logging", "logged"}]
           /\ QueueInOrder' /\ GroupInOrder' /\ (Logged' <=> Logged)
<1>1. writer \in [Writers -> {"idle", "asleep", "awake", "waiting", "logging", "logged"}]
  BY DEF LevelDBTypeOK
<1>2. /\ writer' \in [Writers -> {"idle", "asleep", "awake", "waiting", "logging", "logged"}]
      /\ \A w \in Writers : writer'[w] = IF writer[w] = "waiting" THEN "awake" ELSE writer[w]
  BY <1>1 DEF Wake
<1>3. (Logged' <=> Logged) /\ (Logging' <=> Logging)
  BY <1>2 DEF Logged, Logging
<1>4. \A w \in Writers : writer'[w] \in {"awake", "waiting", "logging", "logged"}
        => writer[w] \in {"awake", "waiting", "logging", "logged"}
  BY <1>2
<1>5. QueueInOrder'
  BY <1>4 DEF QueueInOrder
<1>6. GroupInOrder'
  BY <1>3 DEF GroupInOrder
<1> QED BY <1>2, <1>3, <1>5, <1>6

\* The entry is synced and its version v installed, with the logs from number
\* log on.
InstallVersion(v, log) ==
    /\ phase = "open" /\ doomed = {}
    /\ SyncDescriptor
    /\ version' = v /\ logNumber' = log
    /\ Described.files = v /\ Described.log = log
    /\ FilesGood(v, tables, nextFile, lastSeq)
    /\ imm' = InLogs(logs, log, logfile)
    /\ flushed' \subseteq InTables(tables, Numbers(v))
    /\ writer' = Wake
    /\ UNCHANGED <<logs, tables, current, phase, toReplay, nextFile, descriptor, logfile,
                   lastSeq, mem, bgError, queue, group, written, budget>>

\* From then on the synced entry and the last are the same, and find what the new
\* version and the full memtable hold.
LEMMA InstallVersionKeeps ==
    ASSUME LevelDBInv, NEW v \in SUBSET File, NEW log \in Nat, InstallVersion(v, log)
    PROVE  /\ BudgetSpent' /\ LogsBounded' /\ OnDisk' /\ Creating' /\ NotOpen' /\ Opening'
           /\ Recoverable' = Recoverable
           /\ Described' = Described /\ Synced' = Described
           /\ IsFileMap(descriptors', [state : State, synced : State])
           /\ writer' \in [Writers -> {"idle", "asleep", "awake", "waiting", "logging", "logged"}]
           /\ NumbersAhead' /\ LogsHoldMemory' /\ EntryHoldsVersion'
           /\ QueueInOrder' /\ GroupInOrder'
           /\ imm' \subseteq VersionHolds \cup imm
<1> USE DEF LevelDBInv
<1>1. /\ phase = "open" /\ doomed = {}
      /\ descriptors' = [descriptors EXCEPT ![descriptor].synced = descriptors[descriptor].state]
      /\ version' = v /\ logNumber' = log
      /\ Described.files = v /\ Described.log = log
      /\ FilesGood(v, tables, nextFile, lastSeq)
      /\ imm' = InLogs(logs, log, logfile)
      /\ flushed' \subseteq InTables(tables, Numbers(v))
      /\ writer' = Wake
      /\ UNCHANGED <<logs, tables, current, phase, toReplay, nextFile, descriptor, logfile,
                     lastSeq, mem, bgError, queue, group, written, budget>>
  BY DEF InstallVersion, SyncDescriptor
<1>2. /\ current # 0 /\ EntriesGood /\ EntriesFind /\ Described # Unreadable
      /\ NumbersAhead /\ LogsHoldMemory /\ EntryHoldsVersion /\ QueueInOrder /\ GroupInOrder
  BY <1>1, OpenState
<1>3. /\ descriptor = current /\ Described.next \in Nat /\ lastSeq \in Nat
  BY <1>1, OpenNumbers
<1>4. current \in DOMAIN descriptors
  BY <1>2 DEF EntriesGood
<1>5. descriptors[current] \in [state : State, synced : State]
  BY <1>4 DEF LevelDBTypeOK, IsFileMap
<1>6. /\ DOMAIN descriptors' = DOMAIN descriptors
      /\ descriptors'[current].state = descriptors[current].state
      /\ descriptors'[current].synced = descriptors[current].state
      /\ descriptors'[current] \in [state : State, synced : State]
      /\ \A n \in DOMAIN descriptors : n # current => descriptors'[n] = descriptors[n]
  BY <1>1, <1>3, <1>4, <1>5
<1>7. Described' = Described /\ Synced' = Described
  BY <1>1, <1>6 DEF Described, Synced
<1>8. IsFileMap(descriptors', [state : State, synced : State])
  BY <1>6 DEF LevelDBTypeOK, IsFileMap
<1>9. /\ VersionHolds' = InTables(tables, Numbers(v))
      /\ VersionHolds' \cup imm' = VersionHolds \cup imm
  BY <1>1, <1>2 DEF VersionHolds, EntryHoldsVersion
<1>10. DescribedFinds' = DescribedFinds
  BY <1>1, <1>7 DEF DescribedFinds
<1>11. SyncedWithin(VersionHolds, logNumber)' /\ flushed' \subseteq VersionHolds'
  BY <1>1, <1>7, <1>9 DEF SyncedWithin
<1>12. EntriesGood'
  <2>1. Described.next <= Described.next
    BY <1>3
  <2> QED BY <1>1, <1>2, <1>4, <1>6, <1>7, <2>1 DEF EntriesGood
<1>13. EntriesFind'
  <2>1. SyncedWithin(InTables(tables, Numbers(Described.files)), Described.log)'
    BY <1>1, <1>7 DEF SyncedWithin
  <2> QED BY <1>1, <1>2, <1>7, <1>10, <2>1 DEF EntriesFind
<1>14. OnDisk'
  BY <1>12, <1>13 DEF OnDisk
<1>15. Recoverable' = Recoverable
  BY <1>1, <1>2, <1>10, RecoverableFound DEF DescribedFinds
<1>16. BudgetSpent' /\ LogsBounded'
  BY <1>1 DEF BudgetSpent, LogsBounded
<1>17. Creating' /\ NotOpen' /\ Opening'
  BY <1>1, <1>2, <1>7 DEF Creating, NotOpen, Opening
<1>18. NumbersAhead'
  BY <1>1, <1>2, <1>7 DEF NumbersAhead
<1>19. Read' = Read
  BY <1>1, <1>9, ReadIs
<1>20. /\ writer' \in [Writers -> {"idle", "asleep", "awake", "waiting", "logging", "logged"}]
       /\ QueueInOrder' /\ GroupInOrder' /\ (Logged' <=> Logged)
  BY <1>1, <1>2, <1>19, WakeKeeps
<1>21. LogsHoldMemory'
  <2>1. \A b \in imm' : b.seq <= lastSeq
    <3>1. imm' \subseteq Read
      BY <1>9, ReadIs
    <3> QED BY <1>1, <3>1, OpenInOrder
  <2>2. \A b \in mem : b.seq <= lastSeq
    BY <1>2 DEF LogsHoldMemory
  <2> QED BY <1>1, <1>2, <1>20, <2>1, <2>2 DEF LogsHoldMemory
<1>22. EntryHoldsVersion'
  <2>1. InTables(tables', Numbers(Described.files)) \cup InLogs(logs', Described.log, logfile')
          = VersionHolds' \cup imm'
    BY <1>1, <1>9
  <2>2. VersionHolds' \subseteq InTables(tables', Numbers(Described.files))
    BY <1>1, <1>9
  <2> QED BY <1>7, <1>11, <2>1, <2>2 DEF EntryHoldsVersion
<1>23. imm' \subseteq VersionHolds \cup imm
  BY <1>9
<1> QED BY <1>7, <1>8, <1>14, <1>15, <1>16, <1>17, <1>18, <1>20, <1>21, <1>22, <1>23

\* The memtable's table counts, and earlier logs do not.
LEMMA InstallFlushKeeps ==
    ASSUME LevelDBInv, InstallFlush
    PROVE  /\ LevelDBInv' /\ Recoverable' = Recoverable
           /\ flushed' = flushed \cup imm /\ imm \subseteq Recoverable
<1> USE DEF LevelDBInv
<1>1. /\ phase = "open" /\ doomed = {} /\ flush.pc = "logged"
      /\ SyncDescriptor
      /\ version' = version \cup {NewTable} /\ logNumber' = logfile /\ imm' = {}
      /\ flush' = Idle
      /\ flushed' = flushed \cup imm
      /\ doomed' = Obsolete(Numbers(version \cup {NewTable}), PendingOutputs \ {flush.num},
                            logfile, descriptor, bgError)
      /\ writer' = Wake
      /\ scheduled' \in BOOLEAN
      /\ UNCHANGED <<logs, tables, current, phase, toReplay, nextFile, descriptor, logfile,
                     lastSeq, mem, bgError, merge, queue, group, written, budget>>
  <2>1. EndOfFlush({}, version', bgError)
    BY DEF InstallFlush
  <2>2. scheduled' \in BOOLEAN /\ writer' = Wake
    BY <2>1 DEF EndOfFlush, EndBackgroundCall, LevelDBTypeOK
  <2> QED BY <2>2 DEF InstallFlush, Unlocked, opening
<1>2. /\ NumbersAhead /\ LogsHoldMemory /\ EntryHoldsVersion
      /\ EntryNamesVersion /\ FlushGood /\ MergeGood
  BY <1>1, OpenState
<1>3. /\ logfile \in Nat /\ nextFile \in Nat /\ lastSeq \in Nat /\ descriptor = current
      /\ flush.num \in Nat /\ merge.num \in Nat
      /\ \A n \in Numbers(version) : n \in DOMAIN tables
      /\ \A n \in DOMAIN logs : n \in Nat
  BY <1>1, OpenNumbers
<1>4. NewTable \in File /\ NewTable.num = flush.num
  BY NewTableFile
<1>5. Numbers(version \cup {NewTable}) = Numbers(version) \cup {flush.num}
  <2>1. Numbers(version \cup {NewTable}) = Numbers(version) \cup Numbers({NewTable})
    BY NumbersOfUnion
  <2>2. Numbers({NewTable}) = {NewTable.num}
    BY NumbersOfOne
  <2> QED BY <1>4, <2>1, <2>2
<1>6. Described.files = version \cup {NewTable} /\ Described.log = logfile
  BY <1>1, <1>2 DEF EntryNamesVersion
<1>7. OwnTable(flush.num) /\ tables[flush.num] = [batches |-> imm, whole |-> TRUE]
  BY <1>1, <1>2 DEF FlushGood
<1>8. merge.pc # "logged"
  BY <1>1, <1>2 DEF MergeGood
<1>9. InLogs(logs, logfile, logfile) = {}
  BY <1>3, NoLogsBetween
<1>10. InTables(tables, Numbers(version \cup {NewTable})) = VersionHolds \cup imm
  BY <1>2, <1>6, <1>9 DEF EntryHoldsVersion
<1>11. FilesGood(version \cup {NewTable}, tables, nextFile, lastSeq)
  <2>1. FilesGood(version, tables, nextFile, lastSeq)
    BY <1>2 DEF NumbersAhead
  <2>2. Keeps(tables, tables, Numbers(version))
    BY <1>3 DEF Keeps
  <2>3. /\ NewTable.num < nextFile /\ NewTable.num \in DOMAIN tables /\ tables[NewTable.num].whole
        /\ \A b \in tables[NewTable.num].batches : b.seq <= lastSeq
    BY <1>2, <1>4, <1>7 DEF OwnTable, LogsHoldMemory
  <2> QED BY <2>1, <2>2, <2>3, FilesAdded
<1>12. flushed' \subseteq VersionHolds \cup imm
  BY <1>1, <1>2 DEF EntryHoldsVersion
<1>13. version \cup {NewTable} \in SUBSET File
  BY <1>4 DEF LevelDBTypeOK
<1>14. InstallVersion(version \cup {NewTable}, logfile)
  BY <1>1, <1>6, <1>9, <1>10, <1>11, <1>12 DEF InstallVersion
<1>15. /\ BudgetSpent' /\ LogsBounded' /\ OnDisk' /\ Creating' /\ NotOpen' /\ Opening'
       /\ Recoverable' = Recoverable
       /\ Described' = Described /\ Synced' = Described
       /\ IsFileMap(descriptors', [state : State, synced : State])
       /\ writer' \in [Writers -> {"idle", "asleep", "awake", "waiting", "logging", "logged"}]
       /\ NumbersAhead' /\ LogsHoldMemory' /\ EntryHoldsVersion'
       /\ QueueInOrder' /\ GroupInOrder'
  BY <1>3, <1>13, <1>14, InstallVersionKeeps
<1>16. flush'.pc = "idle" /\ flush' \in Job
  BY <1>1 DEF Idle, Job
<1>17. merge.pc # "idle" => merge.num \in PendingOutputs \ {flush.num}
  <2>1. merge.pc # "idle" => merge.num # flush.num
    BY <1>1, <1>2 DEF MergeGood
  <2> QED BY <2>1 DEF PendingOutputs
<1>18. \A x \in doomed' :
         x \in Unneeded(Numbers(version \cup {NewTable}), PendingOutputs \ {flush.num},
                        logfile, descriptor)
  BY <1>1 DEF Obsolete
<1>19. LevelDBTypeOK'
  <2>1. doomed' \subseteq [type : {"table", "log", "descriptor"}, num : Nat]
    BY <1>18, UnneededFiles
  <2>2. flushed' \subseteq Batch /\ imm' \subseteq Batch
    BY <1>1 DEF LevelDBTypeOK
  <2>3. {logNumber', logfile', nextFile', descriptor', lastSeq'} \subseteq Nat
    BY <1>1, <1>3 DEF LevelDBTypeOK
  <2> QED BY <1>1, <1>13, <1>15, <1>16, <2>1, <2>2, <2>3 DEF LevelDBTypeOK
<1>20. EntryNamesVersion'
  BY <1>1, <1>6, <1>8, <1>15, <1>16 DEF EntryNamesVersion
<1>21. FlushGood'
  BY <1>16 DEF FlushGood
<1>22. MergeGood'
  <2>1. merge.pc # "idle" => OwnTable(merge.num)'
    <3>1. ASSUME merge.pc # "idle"
          PROVE  OwnTable(merge.num)'
      <4>1. /\ OwnTable(merge.num) /\ merge.num # flush.num
            /\ merge.num \notin Numbers(Described.files)
        BY <1>1, <1>2, <1>8, <3>1 DEF MergeGood
      <4> QED BY <1>1, <1>5, <1>15, <4>1 DEF OwnTable
    <3> QED BY <3>1
  <2>2. merge.inputs \subseteq version => merge.inputs \subseteq version'
    BY <1>1
  <2> QED BY <1>1, <1>2, <1>8, <1>15, <1>16, <2>1, <2>2 DEF MergeGood
<1>23. DoomedUnneeded'
  <2>1. ASSUME NEW x \in doomed'
        PROVE  Deletable(x)'
    <3>1. /\ x.type = "table" => /\ x.num \notin Numbers(version \cup {NewTable})
                                 /\ x.num \notin PendingOutputs \ {flush.num}
          /\ x.type = "log" => x.num < logfile
          /\ x.type = "descriptor" => x.num < descriptor
      <4> DEFINE live == Numbers(version \cup {NewTable})
                 pending == PendingOutputs \ {flush.num}
      <4>1. x \in Unneeded(live, pending, logfile, descriptor)
        BY <1>18
      <4> HIDE DEF live, pending
      <4>2. /\ x.type = "table" => x.num \notin live /\ x.num \notin pending
            /\ x.type = "log" => x.num < logfile
            /\ x.type = "descriptor" => x.num < descriptor
        BY <4>1, UnneededFiles
      <4> QED BY <4>2 DEF live, pending
    <3> QED BY <1>1, <1>3, <1>6, <1>15, <1>16, <1>17, <3>1 DEF Deletable
  <2> QED BY <2>1 DEF DoomedUnneeded
<1>24. Working'
  BY <1>15, <1>20, <1>21, <1>22, <1>23 DEF Working
<1>25. imm \subseteq Recoverable
  BY <1>1, ReadFound
<1> QED BY <1>1, <1>15, <1>19, <1>24, <1>25

\* The output of a merge counts instead of its inputs.
LEMMA InstallMergeKeeps ==
    ASSUME LevelDBInv, InstallMerge
    PROVE  LevelDBInv' /\ Recoverable' = Recoverable
<1> USE DEF LevelDBInv
<1> DEFINE out == [num |-> merge.num, level |-> 1]
           rest == version \ merge.inputs
<1>1. /\ phase = "open" /\ doomed = {} /\ merge.pc = "logged"
      /\ SyncDescriptor
      /\ version' = Merged /\ merge' = Idle
      /\ doomed' = Obsolete(Numbers(Merged), {}, logNumber, descriptor, bgError)
      /\ writer' = Wake
      /\ scheduled' \in BOOLEAN
      /\ UNCHANGED <<logs, tables, current, phase, toReplay, logNumber, nextFile, descriptor,
                     logfile, lastSeq, mem, imm, bgError, flush, queue, group, written, flushed,
                     budget>>
  BY DEF InstallMerge, Unlocked, opening, EndBackgroundCall
<1>2. /\ NumbersAhead /\ LogsHoldMemory /\ EntryHoldsVersion
      /\ EntryNamesVersion /\ FlushGood /\ MergeGood
  BY <1>1, OpenState
<1>3. /\ logNumber \in Nat /\ nextFile \in Nat /\ lastSeq \in Nat /\ descriptor = current
      /\ merge.num \in Nat
      /\ \A n \in Numbers(version) : n \in DOMAIN tables
  BY <1>1, OpenNumbers
<1>4. out \in File /\ out.num = merge.num /\ Merged = rest \cup {out}
  BY <1>3 DEF File, Levels, Merged
<1>5. Merged \in SUBSET File
  BY <1>4 DEF LevelDBTypeOK
<1>6. Described.files = Merged /\ Described.log = logNumber
  BY <1>1, <1>2 DEF EntryNamesVersion
<1>7. /\ merge.inputs \subseteq version /\ OwnTable(merge.num) /\ flush.pc = "idle"
      /\ tables[merge.num] = [batches |-> InTables(tables, Numbers(merge.inputs)), whole |-> TRUE]
  BY <1>1, <1>2 DEF MergeGood
<1>8. FilesGood(Merged, tables, nextFile, lastSeq)
  <2>1. FilesGood(rest, tables, nextFile, lastSeq)
    BY <1>2 DEF NumbersAhead, FilesGood
  <2>2. Numbers(rest) \subseteq Numbers(version) /\ Numbers(merge.inputs) \subseteq Numbers(version)
    BY <1>7, NumbersOfSubset
  <2>3. Keeps(tables, tables, Numbers(rest))
    BY <1>3, <2>2 DEF Keeps
  <2>4. ASSUME NEW b \in tables[merge.num].batches
        PROVE  b.seq <= lastSeq
    <3>1. b \in InTables(tables, Numbers(merge.inputs))
      BY <1>7, <2>4
    <3>2. b \in VersionHolds
      BY <2>2, <3>1, TablesMember DEF VersionHolds
    <3>3. b \in Read
      BY <3>2, ReadIs
    <3> QED BY <1>1, <3>3, OpenInOrder
  <2> HIDE DEF out, rest
  <2>5. /\ out.num < nextFile /\ out.num \in DOMAIN tables /\ tables[out.num].whole
        /\ \A b \in tables[out.num].batches : b.seq <= lastSeq
    BY <1>4, <1>7, <2>4 DEF OwnTable
  <2>6. FilesGood(rest \cup {out}, tables, nextFile, lastSeq)
    BY <2>1, <2>3, <2>5, FilesAdded
  <2> QED BY <1>4, <2>6
<1>9. InstallVersion(Merged, logNumber)
  <2>1. VersionHolds \subseteq InTables(tables, Numbers(Merged)) /\ flushed \subseteq VersionHolds
    BY <1>2, <1>6 DEF EntryHoldsVersion
  <2>2. imm' = InLogs(logs, logNumber, logfile)
    BY <1>1, <1>2 DEF LogsHoldMemory
  <2> QED BY <1>1, <1>6, <1>8, <2>1, <2>2 DEF InstallVersion
<1>10. /\ BudgetSpent' /\ LogsBounded' /\ OnDisk' /\ Creating' /\ NotOpen' /\ Opening'
       /\ Recoverable' = Recoverable
       /\ Described' = Described /\ Synced' = Described
       /\ IsFileMap(descriptors', [state : State, synced : State])
       /\ writer' \in [Writers -> {"idle", "asleep", "awake", "waiting", "logging", "logged"}]
       /\ NumbersAhead' /\ LogsHoldMemory' /\ EntryHoldsVersion'
       /\ QueueInOrder' /\ GroupInOrder'
  BY <1>3, <1>5, <1>9, InstallVersionKeeps
<1>11. merge'.pc = "idle" /\ merge' \in Job
  BY <1>1 DEF Idle, Job
<1>12. \A x \in doomed' : x \in Unneeded(Numbers(Merged), {}, logNumber, descriptor)
  BY <1>1 DEF Obsolete
<1>13. LevelDBTypeOK'
  <2>1. doomed' \subseteq [type : {"table", "log", "descriptor"}, num : Nat]
    BY <1>12, UnneededFiles
  <2>2. {logNumber', logfile', nextFile', descriptor', lastSeq'} \subseteq Nat
    BY <1>1 DEF LevelDBTypeOK
  <2> QED BY <1>1, <1>5, <1>10, <1>11, <2>1, <2>2 DEF LevelDBTypeOK
<1>14. EntryNamesVersion'
  BY <1>1, <1>6, <1>7, <1>10, <1>11 DEF EntryNamesVersion
<1>15. FlushGood' /\ MergeGood'
  BY <1>1, <1>7, <1>11 DEF FlushGood, MergeGood
<1>16. DoomedUnneeded'
  <2>1. ASSUME NEW x \in doomed'
        PROVE  Deletable(x)'
    <3> DEFINE live == Numbers(Merged)
    <3>1. x \in Unneeded(live, {}, logNumber, descriptor)
      BY <1>12
    <3> HIDE DEF live
    <3>2. /\ x.type = "table" => x.num \notin live
          /\ x.type = "log" => x.num < logNumber
          /\ x.type = "descriptor" => x.num < descriptor
      BY <3>1, UnneededFiles
    <3> QED BY <1>1, <1>3, <1>6, <1>7, <1>10, <1>11, <3>2 DEF Deletable, live
  <2> QED BY <2>1 DEF DoomedUnneeded
<1>17. Working'
  BY <1>10, <1>14, <1>15, <1>16 DEF Working
<1> QED BY <1>10, <1>13, <1>17

\* A compaction fails: its table is removed or stays, unused.
Failed ==
    /\ phase = "open" /\ doomed = {} /\ doomed' = {}
    /\ BudgetFalls
    /\ bgError' = TRUE
    /\ writer' = Wake
    /\ Keeps(tables, tables', Numbers(version))
    /\ Keeps(tables, tables', Numbers(Described.files))
    /\ Keeps(tables, tables', Numbers(Synced.files))
    /\ UNCHANGED <<logs, descriptors, current, phase, toReplay, version, logNumber, nextFile,
                   descriptor, logfile, lastSeq, mem, imm, queue, group, written, flushed>>

\* Then nothing that is found has changed, whatever became of the table.
LEMMA FailedKeeps ==
    ASSUME LevelDBInv, Failed
    PROVE  /\ BudgetSpent' /\ LogsBounded' /\ OnDisk' /\ Creating' /\ NotOpen' /\ Opening'
           /\ Recoverable' = Recoverable
           /\ Described' = Described /\ Synced' = Synced
           /\ writer' \in [Writers -> {"idle", "asleep", "awake", "waiting", "logging", "logged"}]
           /\ Undisturbed'
<1> USE DEF LevelDBInv
<1>1. /\ phase = "open" /\ doomed = {} /\ doomed' = {}
      /\ BudgetFalls
      /\ writer' = Wake
      /\ Keeps(tables, tables', Numbers(version))
      /\ Keeps(tables, tables', Numbers(Described.files))
      /\ Keeps(tables, tables', Numbers(Synced.files))
      /\ UNCHANGED <<logs, descriptors, current, phase, toReplay, version, logNumber, nextFile,
                     descriptor, logfile, lastSeq, mem, imm, queue, group, written, flushed>>
  BY DEF Failed
<1>2. /\ current # 0 /\ EntriesGood /\ Described # Unreadable
      /\ NumbersAhead /\ LogsHoldMemory /\ EntryHoldsVersion /\ QueueInOrder /\ GroupInOrder
  BY <1>1, OpenState
<1>3. written \in Nat /\ written <= written' /\ written' \in Nat
  BY <1>1, OpenNumbers
<1>4. DiskKept /\ LogsBounded'
  <2>1. FewerRecords
    BY <1>1 DEF FewerRecords
  <2>2. current \in DOMAIN descriptors
    BY <1>2 DEF EntriesGood
  <2>3. DiskKept
    BY <1>1, <1>3, <2>1, <2>2 DEF DiskKept, BudgetFalls
  <2> QED BY <1>1, <2>3 DEF LogsBounded
<1>5. OnDisk' /\ SameEntries /\ Recoverable' = Recoverable
  BY <1>1, <1>2, <1>4, DiskStays
<1>6. Described' = Described /\ Synced' = Synced
  BY <1>5 DEF SameEntries
<1>7. VersionHolds' = VersionHolds
  BY <1>1, SameTables DEF VersionHolds
<1>8. Creating' /\ NotOpen' /\ Opening'
  BY <1>1, <1>2, <1>6 DEF Creating, NotOpen, Opening
<1>9. Read' = Read
  BY <1>1, <1>7, ReadIs
<1>10. /\ writer' \in [Writers -> {"idle", "asleep", "awake", "waiting", "logging", "logged"}]
       /\ QueueInOrder' /\ GroupInOrder' /\ (Logged' <=> Logged)
  BY <1>1, <1>2, <1>9, WakeKeeps
<1>11. NumbersAhead'
  <2>1. FilesGood(version, tables', nextFile, lastSeq)
    <3>1. FilesGood(version, tables, nextFile, lastSeq)
      BY <1>2 DEF NumbersAhead
    <3>2. \A f \in version : f.num \in Numbers(version)
      BY DEF Numbers
    <3> QED BY <1>1, <3>1, <3>2 DEF FilesGood, Keeps
  <2> QED BY <1>1, <1>2, <1>6, <2>1 DEF NumbersAhead
<1>12. LogsHoldMemory'
  BY <1>1, <1>2, <1>10 DEF LogsHoldMemory
<1>13. EntryHoldsVersion'
  <2>1. /\ InTables(tables', Numbers(Described.files)) = InTables(tables, Numbers(Described.files))
        /\ InTables(tables', Numbers(Synced.files)) = InTables(tables, Numbers(Synced.files))
    BY <1>1, SameTables
  <2>2. SyncedWithin(VersionHolds, logNumber)'
    BY <1>1, <1>2, <1>6, <1>7, <2>1 DEF EntryHoldsVersion, SyncedWithin
  <2> QED BY <1>1, <1>2, <1>6, <1>7, <2>1, <2>2 DEF EntryHoldsVersion
<1>14. DoomedUnneeded'
  BY <1>1 DEF DoomedUnneeded
<1> QED BY <1>1, <1>4, <1>5, <1>6, <1>8, <1>10, <1>11, <1>12, <1>13, <1>14
        DEF BudgetFalls, Undisturbed

\* DBImpl::CompactMemTable fails: the full memtable stays, and so do its logs.
LEMMA FailFlushKeeps ==
    ASSUME LevelDBInv, FailFlush
    PROVE  LevelDBInv' /\ Recoverable' = Recoverable
<1> USE DEF LevelDBInv
<1>1. /\ phase = "open" /\ doomed = {}
      /\ Spend("failure")
      /\ bgError' = TRUE /\ flush' = Idle
      /\ \/ flush.pc = "building" /\ tables' = Without(tables, {flush.num})
         \/ flush.pc = "logged" /\ tables' = tables
      /\ writer' = Wake /\ scheduled' \in BOOLEAN
      /\ UNCHANGED <<logs, descriptors, current, phase, toReplay, version, logNumber, nextFile,
                     descriptor, logfile, lastSeq, mem, imm, merge, doomed, queue, group, written,
                     flushed>>
  <2>1. EndOfFlush(imm, version, TRUE)
    BY DEF FailFlush
  <2>2. scheduled' \in BOOLEAN /\ writer' = Wake
    BY <2>1 DEF EndOfFlush, EndBackgroundCall, LevelDBTypeOK
  <2> QED BY <2>2 DEF FailFlush, Unlocked, opening, versions
<1>2. /\ EntryNamesVersion /\ FlushGood /\ MergeGood
  BY <1>1, OpenState
<1>3. /\ \A n \in Numbers(Described.files) : n \in DOMAIN tables
      /\ \A n \in Numbers(Synced.files) : n \in DOMAIN tables
      /\ \A n \in Numbers(version) : n \in DOMAIN tables
  BY <1>1, OpenNumbers
<1>4. flush.pc # "idle" /\ OwnTable(flush.num) /\ merge.pc # "logged"
      /\ (merge.pc # "idle" => merge.num # flush.num /\ OwnTable(merge.num))
  BY <1>1, <1>2 DEF FlushGood, MergeGood
<1>5. IF flush.pc = "building"
      THEN /\ DOMAIN tables' = DOMAIN tables \ {flush.num}
           /\ \A n \in DOMAIN tables' : tables'[n] = tables[n]
      ELSE tables' = tables
  BY <1>1 DEF Without
<1>6. /\ Keeps(tables, tables', Numbers(version))
      /\ Keeps(tables, tables', Numbers(Described.files))
      /\ Keeps(tables, tables', Numbers(Synced.files))
  <2>1. CASE flush.pc = "building"
    <3>1. flush.num \notin Numbers(Described.files)
      BY <1>2, <2>1 DEF FlushGood
    <3> QED BY <1>3, <1>4, <1>5, <2>1, <3>1 DEF Keeps, OwnTable
  <2>2. CASE flush.pc # "building"
    BY <1>3, <1>5, <2>2 DEF Keeps
  <2> QED BY <2>1, <2>2
<1>7. BudgetFalls
  <2>1. "failure" \in Event
    BY DEF Event
  <2> QED BY <1>1, <2>1, Spent DEF BudgetFalls
<1>8. Failed
  BY <1>1, <1>6, <1>7 DEF Failed
<1>9. /\ BudgetSpent' /\ LogsBounded' /\ OnDisk' /\ Creating' /\ NotOpen' /\ Opening'
      /\ Recoverable' = Recoverable
      /\ Described' = Described /\ Synced' = Synced
      /\ writer' \in [Writers -> {"idle", "asleep", "awake", "waiting", "logging", "logged"}]
      /\ Undisturbed'
  BY <1>8, FailedKeeps
<1>10. flush'.pc = "idle" /\ flush' \in Job
  BY <1>1 DEF Idle, Job
<1>11. LevelDBTypeOK'
  <2>1. IsFileMap(tables', [batches : SUBSET Batch, whole : BOOLEAN])
    BY <1>5 DEF LevelDBTypeOK, IsFileMap
  <2>2. budget' \in [Event -> Nat]
    BY <1>9 DEF BudgetSpent
  <2> QED BY <1>1, <1>9, <1>10, <2>1 DEF LevelDBTypeOK
<1>12. EntryNamesVersion'
  BY <1>1, <1>4, <1>10 DEF EntryNamesVersion
<1>13. FlushGood'
  BY <1>10 DEF FlushGood
<1>14. MergeGood'
  <2>1. merge.pc # "idle" => OwnTable(merge.num)'
    BY <1>1, <1>4, <1>5, <1>9 DEF OwnTable
  <2> QED BY <1>1, <1>2, <1>4, <1>9, <1>10, <2>1 DEF MergeGood
<1>15. Working'
  BY <1>9, <1>12, <1>13, <1>14 DEF Working, Undisturbed
<1> QED BY <1>9, <1>11, <1>15

\* A merge fails: its inputs stay in the version.
LEMMA FailMergeKeeps ==
    ASSUME LevelDBInv, FailMerge
    PROVE  LevelDBInv' /\ Recoverable' = Recoverable
<1> USE DEF LevelDBInv
<1>1. /\ phase = "open" /\ doomed = {} /\ flush.pc = "idle"
      /\ Spend("failure")
      /\ bgError' = TRUE /\ merge' = Idle /\ doomed' = {}
      /\ writer' = Wake /\ scheduled' \in BOOLEAN
      /\ UNCHANGED <<logs, tables, descriptors, current, phase, toReplay, version, logNumber,
                     nextFile, descriptor, logfile, lastSeq, mem, imm, flush, queue, group,
                     written, flushed>>
  BY DEF FailMerge, Unlocked, opening, versions, files, Obsolete, EndBackgroundCall
<1>2. /\ \A n \in Numbers(Described.files) : n \in DOMAIN tables
      /\ \A n \in Numbers(Synced.files) : n \in DOMAIN tables
      /\ \A n \in Numbers(version) : n \in DOMAIN tables
  BY <1>1, OpenNumbers
<1>3. BudgetFalls
  <2>1. "failure" \in Event
    BY DEF Event
  <2> QED BY <1>1, <2>1, Spent DEF BudgetFalls
<1>4. Failed
  BY <1>1, <1>2, <1>3 DEF Failed, Keeps
<1>5. /\ BudgetSpent' /\ LogsBounded' /\ OnDisk' /\ Creating' /\ NotOpen' /\ Opening'
      /\ Recoverable' = Recoverable
      /\ writer' \in [Writers -> {"idle", "asleep", "awake", "waiting", "logging", "logged"}]
      /\ Undisturbed'
  BY <1>4, FailedKeeps
<1>6. merge'.pc = "idle" /\ merge' \in Job
  BY <1>1 DEF Idle, Job
<1>7. LevelDBTypeOK'
  BY <1>1, <1>5, <1>6 DEF LevelDBTypeOK
<1>8. EntryNamesVersion' /\ FlushGood' /\ MergeGood'
  BY <1>1, <1>6 DEF EntryNamesVersion, FlushGood, MergeGood
<1>9. Working'
  BY <1>5, <1>8 DEF Working, Undisturbed
<1> QED BY <1>5, <1>7, <1>9

-----------------------------------------------------------------------------
\* The invariant holds at first, on an empty disk.
LEMMA InitLevelDB == Init => LevelDBInv
<1> SUFFICES ASSUME Init PROVE LevelDBInv
  OBVIOUS
<1>1. /\ logs = << >> /\ tables = << >> /\ descriptors = << >> /\ toReplay = << >> /\ queue = << >>
      /\ current = 0 /\ phase = "down" /\ version = {}
      /\ logNumber = 0 /\ logfile = 0 /\ nextFile = 0 /\ descriptor = 0 /\ lastSeq = 0
      /\ mem = {} /\ imm = {} /\ scheduled = FALSE /\ bgError = FALSE
      /\ flush = Idle /\ merge = Idle /\ doomed = {} /\ group = {}
      /\ writer = [w \in Writers |-> "idle"]
      /\ written = 0 /\ flushed = {} /\ budget = Budget
  BY DEF Init
<1>2. DOMAIN logs = {} /\ DOMAIN tables = {} /\ DOMAIN descriptors = {}
  BY <1>1
<1>3. LevelDBTypeOK
  <2>1. /\ IsFileMap(logs, Seq(SUBSET Batch))
        /\ IsFileMap(tables, [batches : SUBSET Batch, whole : BOOLEAN])
        /\ IsFileMap(descriptors, [state : State, synced : State])
    BY <1>2 DEF IsFileMap
  <2>2. toReplay \in Seq(Nat) /\ queue \in Seq([writer : Writers, id : 1 .. MaxWrites])
    BY <1>1
  <2>3. writer \in [Writers -> {"idle", "asleep", "awake", "waiting", "logging", "logged"}]
    BY <1>1
  <2>4. flush \in Job /\ merge \in Job
    BY <1>1 DEF Job, Idle
  <2>5. written \in 0 .. MaxWrites
    BY <1>1, LevelDBAssumption
  <2>6. {logNumber, logfile, nextFile, descriptor, lastSeq} \subseteq Nat /\ current \in Nat
    BY <1>1
  <2>7. /\ phase \in {"down", "creating", "replaying", "describing", "installing", "open"}
        /\ version \in SUBSET File /\ mem \subseteq Batch /\ imm \subseteq Batch
        /\ scheduled \in BOOLEAN /\ bgError \in BOOLEAN
        /\ doomed \subseteq [type : {"table", "log", "descriptor"}, num : Nat]
        /\ group \subseteq Batch /\ flushed \subseteq Batch
    BY <1>1
  <2> QED BY <2>1, <2>2, <2>3, <2>4, <2>5, <2>6, <2>7 DEF LevelDBTypeOK
<1>4. BudgetSpent
  BY <1>1, LevelDBAssumption DEF BudgetSpent, Event
<1>5. LogsBounded
  <2>1. IsFiniteSet(DOMAIN logs) /\ 0 \in Nat
    BY <1>2, FS_EmptySet
  <2> QED BY <1>2, <2>1 DEF LogsBounded
<1>6. OnDisk /\ Creating
  BY <1>1, <1>2 DEF OnDisk, Creating
<1>7. NotOpen /\ Opening /\ Working
  BY <1>1 DEF NotOpen, NothingUnderWay, Opening, Working
<1> QED BY <1>3, <1>4, <1>5, <1>6, <1>7 DEF LevelDBInv

\* What is not touched stays as it is.
LEMMA StutterKeeps ==
    ASSUME LevelDBInv, UNCHANGED vars
    PROVE  LevelDBInv'
<1>1. UNCHANGED <<logs, tables, descriptors, current, phase, toReplay, version, logNumber,
                  nextFile, descriptor, logfile, lastSeq, mem, imm, scheduled, bgError, flush,
                  merge, doomed, queue, writer, group, written, flushed, budget>>
  BY DEF vars, files, opening, versions, background, writing
<1> USE <1>1 DEF LevelDBInv
<1>2. Described' = Described /\ Synced' = Synced /\ VersionHolds' = VersionHolds
      /\ DescribedFinds' = DescribedFinds /\ Read' = Read /\ NewTable' = NewTable
      /\ Merged' = Merged /\ Pending' = Pending
  BY DEF Described, Synced, VersionHolds, DescribedFinds, Read, NewTable, Merged,
         TableBatches, Pending
<1>3. LevelDBTypeOK' /\ BudgetSpent' /\ LogsBounded'
  BY DEF LevelDBTypeOK, BudgetSpent, LogsBounded
<1>4. OnDisk' /\ Creating'
  BY <1>2 DEF OnDisk, EntriesGood, EntriesFind, SyncedWithin, Creating
<1>5. NotOpen' /\ Opening'
  BY <1>2 DEF NotOpen, NothingUnderWay, Opening, Replaying, Replayed, Installing
<1>6. ASSUME phase = "open"
      PROVE  /\ NumbersAhead' /\ LogsHoldMemory' /\ EntryHoldsVersion' /\ EntryNamesVersion'
             /\ FlushGood' /\ MergeGood' /\ DoomedUnneeded' /\ QueueInOrder' /\ GroupInOrder'
  <2>1. /\ NumbersAhead /\ LogsHoldMemory /\ EntryHoldsVersion /\ EntryNamesVersion
        /\ FlushGood /\ MergeGood /\ DoomedUnneeded /\ QueueInOrder /\ GroupInOrder
    BY <1>6 DEF Working
  <2>2. NumbersAhead' /\ LogsHoldMemory' /\ EntryHoldsVersion' /\ EntryNamesVersion'
    BY <1>2, <2>1 DEF NumbersAhead, LogsHoldMemory, Logged, EntryHoldsVersion, SyncedWithin,
                      EntryNamesVersion
  <2>3. FlushGood' /\ MergeGood' /\ DoomedUnneeded'
    BY <1>2, <2>1 DEF FlushGood, MergeGood, OwnTable, DoomedUnneeded, Deletable
  <2>4. QueueInOrder' /\ GroupInOrder'
    BY <1>2, <2>1 DEF QueueInOrder, GroupInOrder, Logging
  <2> QED BY <2>2, <2>3, <2>4
<1>7. Working'
  BY <1>6 DEF Working
<1> QED BY <1>3, <1>4, <1>5, <1>7

\* Every step keeps it.
LEMMA NextLevelDB ==
    ASSUME LevelDBInv, [Next]_vars
    PROVE  LevelDBInv'
<1>1. CASE Open
  BY <1>1, WriteFirstDescriptorKeeps, NameFirstDescriptorKeeps, RecoverKeeps,
     RecoverLogFileKeeps, NewLogKeeps, WriteDescriptorKeeps, InstallDescriptorKeeps DEF Open
<1>2. CASE DeleteObsoleteFiles \/ BackgroundStep
  BY <1>2, DeleteObsoleteFilesKeeps, StartFlushKeeps, LogFlushKeeps, InstallFlushKeeps,
     StartMergeKeeps, LogMergeKeeps, InstallMergeKeeps DEF BackgroundStep
<1>3. ASSUME NEW w \in Writers, Write(w) \/ WriterStep(w) \/ FailToAddRecord(w)
      PROVE  LevelDBInv'
  BY <1>3, WriteKeeps, WaitForRoomKeeps, MakeRoomKeeps, BuildBatchGroupKeeps, AddRecordKeeps,
     FinishWriteKeeps, FailWriteKeeps, FailToAddRecordKeeps DEF WriterStep
<1>4. CASE FailFlush \/ FailMerge \/ Crash \/ PowerLoss
  BY <1>4, FailFlushKeeps, FailMergeKeeps, CrashKeeps, PowerLossKeeps
<1>5. CASE UNCHANGED vars
  BY <1>5, StutterKeeps
<1> QED BY <1>1, <1>2, <1>3, <1>4, <1>5 DEF Next

\* The entry in use finds what is read, the synced one no more than that and all
\* that is safe, and files that either needs are kept, in every state.
THEOREM LevelDBCorrect == Spec => []LevelDBInv
<1>1. Init => LevelDBInv
  BY InitLevelDB
<1>2. LevelDBInv /\ [Next]_vars => LevelDBInv'
  BY NextLevelDB
<1> QED BY <1>1, <1>2, PTL DEF Spec

\* The database opens again whatever happened (DBImpl::Recover finds a
\* descriptor it can read, and its tables).
THEOREM DatabaseOpensAgain == Spec => []OpensAgain
<1>1. LevelDBInv => OpensAgain
  <2> SUFFICES ASSUME LevelDBInv PROVE OpensAgain
    OBVIOUS
  <2> USE DEF LevelDBInv
  <2>1. ASSUME current # 0
        PROVE  /\ current \in DOMAIN descriptors
               /\ Described = Unreadable => current = 1 /\ budget["powerloss"] < Budget["powerloss"]
               /\ \A n \in Numbers(Described.files) : n \in DOMAIN tables /\ tables[n].whole
    <3>1. EntriesGood
      BY <2>1 DEF OnDisk
    <3>2. ASSUME NEW n \in Numbers(Described.files)
          PROVE  n \in DOMAIN tables /\ tables[n].whole
      <4>1. PICK f \in Described.files : f.num = n
        BY DEF Numbers
      <4>2. Described # Unreadable
        BY <4>1 DEF Unreadable
      <4> QED BY <3>1, <4>1, <4>2 DEF EntriesGood, EntryGood, FilesGood
    <3> QED BY <3>1, <3>2 DEF EntriesGood
  <2> QED BY <2>1 DEF OpensAgain
<1> QED BY <1>1, LevelDBCorrect, PTL

\* What is read is what opening the database again would find, but for a group
\* that is being logged (DBImpl::Write logs before it inserts).
THEOREM ReadIsDurable == Spec => []ReadsWhatIsDurable
<1>1. LevelDBInv => ReadsWhatIsDurable
  BY ReadFound DEF ReadsWhatIsDurable
<1> QED BY <1>1, LevelDBCorrect, PTL

\* Sequence numbers grow with the writes, within a run of the program and from
\* each to the next.
THEOREM LaterWriteWins == Spec => []LaterWritesWin
<1>1. LevelDBInv => LaterWritesWin
  <2> SUFFICES ASSUME LevelDBInv PROVE LaterWritesWin
    OBVIOUS
  <2> USE DEF LevelDBInv
  <2>1. CASE phase = "open"
    <3>1. Recoverable \subseteq Read \cup group
      BY <2>1, ReadFound
    <3>2. InOrder(Read \cup group)
      BY <2>1, OpenInOrder
    <3> QED BY <3>1, <3>2 DEF LaterWritesWin, InOrder
  <2>2. CASE phase # "open"
    <3>1. mem = {} /\ imm = {} /\ group = {} /\ (phase \in {"down", "creating"} => version = {})
      BY <2>2 DEF NotOpen, NothingUnderWay
    <3>2. Read = VersionHolds
      BY <3>1, ReadIs
    <3>3. phase \in {"down", "creating"} => VersionHolds = {}
      <4>1. Numbers({}) = {} /\ InTables(tables, {}) = {}
        BY DEF Numbers, InTables
      <4> QED BY <3>1, <4>1 DEF VersionHolds
    <3>4. CASE current = 0
      <4>1. Recoverable = {} /\ phase \in {"down", "creating"}
        BY <3>4 DEF Recoverable, Creating
      <4> QED BY <3>1, <3>2, <3>3, <4>1 DEF LaterWritesWin
    <3>5. CASE current # 0
      <4>1. Recoverable = DescribedFinds /\ InOrder(DescribedFinds)
        BY <3>5, RecoverableFound DEF DescribedFinds, OnDisk, EntriesFind
      <4>2. VersionHolds \subseteq DescribedFinds
        <5>1. phase \in {"down", "creating", "replaying", "describing", "installing"}
          BY <2>2 DEF LevelDBTypeOK
        <5>2. phase = "replaying" => VersionHolds \subseteq DescribedFinds
          BY DEF Opening, Replaying
        <5>3. phase \in {"describing", "installing"} => VersionHolds \subseteq DescribedFinds
          BY DEF Opening, Replayed
        <5> QED BY <5>1, <5>2, <5>3, <3>3
      <4> QED BY <3>1, <3>2, <4>1, <4>2 DEF LaterWritesWin, InOrder
    <3> QED BY <3>4, <3>5
  <2> QED BY <2>1, <2>2
<1> QED BY <1>1, LevelDBCorrect, PTL

-----------------------------------------------------------------------------
\* The refinement of DurableWrites.
Calls == {queue[i].id : i \in DOMAIN queue}

\* A step that changes neither what is found, nor what is safe, nor the queue.
Quiet == Recoverable' = Recoverable /\ flushed' = flushed /\ queue' = queue

\* Such a step is none of DurableWrites.
LEMMA QuietStutters ==
    ASSUME Quiet
    PROVE  UNCHANGED D!durableVars
BY DEF Quiet, D!durableVars

\* What is safe is found, before a step and after it.
LEMMA SafeIsFound ==
    /\ LevelDBInv => flushed \subseteq Recoverable
    /\ LevelDBInv' => flushed' \subseteq Recoverable'
<1>1. ASSUME LevelDBInv
      PROVE  flushed \subseteq Recoverable
  <2>1. CASE current = 0
    BY <1>1, <2>1 DEF LevelDBInv, Creating
  <2>2. CASE current # 0
    <3>1. flushed \subseteq InTables(tables, Numbers(Described.files))
      BY <1>1, <2>2 DEF LevelDBInv, OnDisk, EntriesFind
    <3> QED BY <2>2, <3>1, RecoverableFound DEF Found
  <2> QED BY <2>1, <2>2
<1>2. ASSUME LevelDBInv'
      PROVE  flushed' \subseteq Recoverable'
  <2>1. CASE current' = 0
    BY <1>2, <2>1 DEF LevelDBInv, Creating
  <2>2. CASE current' # 0
    <3>1. flushed' \subseteq InTables(tables', Numbers(Described'.files))
      BY <1>2, <2>2 DEF LevelDBInv, OnDisk, EntriesFind
    <3> QED BY <2>2, <3>1, RecoverableFound DEF Found
  <2> QED BY <2>1, <2>2
<1> QED BY <1>1, <1>2

\* The ids of two sets of batches are those of one or the other.
LEMMA IdsOfUnion ==
    ASSUME NEW S, NEW T
    PROVE  /\ Ids(S \cup T) = Ids(S) \cup Ids(T)
           /\ S \subseteq T => Ids(S) \subseteq Ids(T)
BY DEF Ids

\* The ids in the empty queue.
LEMMA NoCalls ==
    queue' = << >> => Calls' = {}
BY DEF Calls

\* A write is called when it joins the queue.
LEMMA WriteCalls ==
    ASSUME LevelDBInv, NEW w \in Writers, Write(w)
    PROVE  \E id \in 1 .. MaxWrites : D!Call(id)
<1>1. /\ Recoverable' = Recoverable
      /\ written \in Nat /\ written + 1 \in 1 .. MaxWrites
      /\ \A i \in DOMAIN queue : queue[i].id <= written
      /\ \A b \in Recoverable : b.id <= written
  BY WriteKeeps
<1>2. queue' = Append(queue, [writer |-> w, id |-> written + 1]) /\ flushed' = flushed
  BY DEF Write
<1>3. queue \in Seq(Queued) /\ DOMAIN queue = 1 .. Len(queue) /\ Len(queue) \in Nat
  BY QueueType DEF LevelDBInv
<1>4. /\ DOMAIN queue' = DOMAIN queue \cup {Len(queue) + 1}
      /\ \A i \in DOMAIN queue : queue'[i] = queue[i]
      /\ queue'[Len(queue) + 1].id = written + 1
  BY <1>1, <1>2, <1>3
<1>5. Calls' = Calls \cup {written + 1}
  BY <1>4 DEF Calls
<1>6. written + 1 \notin Ids(Recoverable) \cup Calls
  <2>1. ~(written + 1 <= written)
    BY <1>1
  <2> QED BY <1>1, <2>1 DEF Ids, Calls
<1>7. PICK id \in 1 .. MaxWrites : id = written + 1
  BY <1>1
<1>8. Calls' = Calls \cup {id} /\ id \notin Ids(Recoverable) \cup Calls
  BY <1>5, <1>6, <1>7
<1>9. D!Call(id)
  BY <1>1, <1>2, <1>8 DEF D!Call, Calls
<1> QED BY <1>9

\* It takes effect when its group is logged.
LEMMA AddRecordTakesEffect ==
    ASSUME LevelDBInv, NEW w \in Writers, AddRecord(w)
    PROVE  \E set \in SUBSET Calls : D!TakeEffect(set)
<1>1. /\ Recoverable' = Recoverable \cup group
      /\ \A b \in group : \E i \in DOMAIN queue : queue[i].id = b.id
  BY AddRecordKeeps
<1>2. queue' = queue /\ flushed' = flushed
  BY DEF AddRecord
<1>3. Ids(group) \in SUBSET Calls
  BY <1>1 DEF Ids, Calls
<1>4. Ids(Recoverable') = Ids(Recoverable) \cup Ids(group)
  BY <1>1, IdsOfUnion
<1>5. D!TakeEffect(Ids(group))
  BY <1>2, <1>4 DEF D!TakeEffect
<1> QED BY <1>3, <1>5

\* Its writer returns when the group is read.
LEMMA FinishWriteReturns ==
    ASSUME LevelDBInv, NEW w \in Writers, FinishWrite(w)
    PROVE  \E set \in SUBSET Calls : D!Return(set)
<1>1. /\ Recoverable' = Recoverable
      /\ group \subseteq Recoverable
      /\ \A b \in group : \E i \in DOMAIN queue : queue[i].id = b.id
      /\ \A i \in DOMAIN queue' :
           \E j \in DOMAIN queue : queue[j].id = queue'[i].id /\ queue[j].id \notin Ids(group)
      /\ \A j \in DOMAIN queue :
           \/ queue[j].id \in Ids(group)
           \/ \E i \in DOMAIN queue' : queue'[i].id = queue[j].id
  BY FinishWriteKeeps
<1>2. flushed' = flushed
  BY DEF FinishWrite
<1>3. Ids(group) \in SUBSET Calls
  BY <1>1 DEF Ids, Calls
<1>4. Ids(group) \subseteq Ids(Recoverable)
  BY <1>1 DEF Ids
<1>5. Calls' = Calls \ Ids(group)
  <2>1. ASSUME NEW x \in Calls'
        PROVE  x \in Calls \ Ids(group)
    BY <1>1, <2>1 DEF Calls
  <2>2. ASSUME NEW x \in Calls \ Ids(group)
        PROVE  x \in Calls'
    BY <1>1, <2>2 DEF Calls
  <2> QED BY <2>1, <2>2
<1>6. D!Return(Ids(group))
  BY <1>1, <1>2, <1>4, <1>5 DEF D!Return, Calls
<1> QED BY <1>3, <1>6

\* What is in tables of an entry that was synced is safe.
LEMMA InstallMakesSafe ==
    ASSUME LevelDBInv, InstallFlush \/ InstallDescriptor
    PROVE  \E set \in SUBSET Ids(Recoverable) : D!MakeSafe(set)
<1>1. PICK set : set \subseteq Recoverable /\ flushed' = flushed \cup set
                   /\ Recoverable' = Recoverable /\ queue' = queue
  <2>1. CASE InstallFlush
    <3>1. /\ Recoverable' = Recoverable
          /\ flushed' = flushed \cup imm /\ imm \subseteq Recoverable
      BY <2>1, InstallFlushKeeps
    <3>2. queue' = queue
      BY <2>1 DEF InstallFlush
    <3> QED BY <3>1, <3>2
  <2>2. CASE InstallDescriptor
    <3>1. Recoverable' = Recoverable
      BY <2>2, InstallDescriptorKeeps
    <3>2. flushed' = flushed \cup VersionHolds /\ queue' = queue /\ phase = "installing"
      BY <2>2 DEF InstallDescriptor, writing, VersionHolds, TableBatches, InTables
    <3>3. VersionHolds = DescribedFinds
      BY <3>2 DEF LevelDBInv, Opening, Replayed
    <3>4. current # 0
      BY <3>2, OpeningAhead
    <3>5. VersionHolds \subseteq Recoverable
      BY <3>3, <3>4, RecoverableFound DEF DescribedFinds
    <3> QED BY <3>1, <3>2, <3>5
  <2> QED BY <2>1, <2>2
<1>2. Ids(set) \in SUBSET Ids(Recoverable)
  BY <1>1 DEF Ids
<1>3. Ids(flushed') = Ids(flushed) \cup Ids(set)
  BY <1>1, IdsOfUnion
<1>4. D!MakeSafe(Ids(set))
  BY <1>1, <1>2, <1>3 DEF D!MakeSafe
<1> QED BY <1>2, <1>4

\* The process ends: the calls with it, and nothing else.
LEMMA EndIsCrash ==
    ASSUME LevelDBInv,
           Crash \/ \E w \in Writers : FailWrite(w) \/ FailToAddRecord(w)
    PROVE  D!Crash
<1>1. Recoverable' = Recoverable
  BY CrashKeeps, FailWriteKeeps, FailToAddRecordKeeps
<1>2. Forget /\ flushed' = flushed
  BY DEF Crash, FailWrite, FailToAddRecord
<1>3. Calls' = {}
  BY <1>2, NoCalls DEF Forget
<1> QED BY <1>1, <1>2, <1>3 DEF D!Crash, Calls

\* So does the machine: what is not safe may be lost.
LEMMA PowerLossLoses ==
    ASSUME LevelDBInv, PowerLoss
    PROVE  D!PowerLoss
<1>1. LevelDBInv' /\ Recoverable' \subseteq Recoverable
  BY PowerLossKeeps
<1>2. queue' = << >> /\ flushed' = flushed
  BY DEF PowerLoss, Forget
<1>3. Calls' = {}
  BY <1>2, NoCalls
<1>4. flushed \subseteq Recoverable'
  BY <1>1, <1>2, SafeIsFound
<1>5. Ids(Recoverable') \subseteq Ids(Recoverable) /\ Ids(flushed) \subseteq Ids(Recoverable')
  BY <1>1, <1>4, IdsOfUnion
<1> DEFINE lost == Ids(Recoverable) \ Ids(Recoverable')
<1>6. /\ lost \in SUBSET (Ids(Recoverable) \ Ids(flushed))
      /\ Ids(Recoverable') = Ids(Recoverable) \ lost
  BY <1>5
<1> HIDE DEF lost
<1>7. Ids(flushed') = Ids(flushed)
  BY <1>2
<1> QED BY <1>3, <1>6, <1>7 DEF D!PowerLoss, Calls

\* Every step is one of DurableWrites, or none.
LEMMA NextRefinesDurableWrites ==
    ASSUME LevelDBInv, [Next]_vars
    PROVE  [D!Next]_(D!durableVars)
<1>1. CASE \/ WriteFirstDescriptor \/ NameFirstDescriptor \/ Recover
           \/ RecoverLogFile \/ NewLog \/ WriteDescriptor \/ DeleteObsoleteFiles
  <2>1. Recoverable' = Recoverable
    BY <1>1, WriteFirstDescriptorKeeps, NameFirstDescriptorKeeps, RecoverKeeps,
       RecoverLogFileKeeps, NewLogKeeps, WriteDescriptorKeeps, DeleteObsoleteFilesKeeps
  <2>2. flushed' = flushed /\ queue' = queue
    BY <1>1 DEF WriteFirstDescriptor, NameFirstDescriptor, Recover, RecoverLogFile, NewLog,
                WriteDescriptor, DeleteObsoleteFiles, writing
  <2> QED BY <2>1, <2>2, QuietStutters DEF Quiet
<1>2. CASE \/ StartFlush \/ LogFlush \/ StartMerge \/ LogMerge \/ InstallMerge
           \/ FailFlush \/ FailMerge
  <2>1. Recoverable' = Recoverable
    BY <1>2, StartFlushKeeps, LogFlushKeeps, StartMergeKeeps, LogMergeKeeps, InstallMergeKeeps,
       FailFlushKeeps, FailMergeKeeps
  <2>2. flushed' = flushed /\ queue' = queue
    BY <1>2 DEF StartFlush, LogFlush, StartMerge, LogMerge, InstallMerge, FailFlush, FailMerge,
                writing
  <2> QED BY <2>1, <2>2, QuietStutters DEF Quiet
<1>3. ASSUME NEW w \in Writers, WaitForRoom(w) \/ MakeRoom(w) \/ BuildBatchGroup(w)
      PROVE  UNCHANGED D!durableVars
  <2>1. Recoverable' = Recoverable
    BY <1>3, WaitForRoomKeeps, MakeRoomKeeps, BuildBatchGroupKeeps
  <2>2. flushed' = flushed /\ queue' = queue
    BY <1>3 DEF WaitForRoom, MakeRoom, BuildBatchGroup, writing
  <2> QED BY <2>1, <2>2, QuietStutters DEF Quiet
<1>4. CASE UNCHANGED vars
  <2>1. /\ UNCHANGED <<logs, tables, descriptors, current>>
        /\ flushed' = flushed /\ queue' = queue
    BY <1>4 DEF vars, files, writing
  <2>2. Recoverable' = Recoverable
    BY <2>1 DEF Recoverable, Described, TableBatches, LiveLogs, ReadRecords
  <2> QED BY <2>1, <2>2, QuietStutters DEF Quiet
<1>5. ASSUME NEW w \in Writers, Write(w)
      PROVE  D!Next
  <2>1. \E id \in 1 .. MaxWrites : D!Call(id)
    BY <1>5, WriteCalls
  <2> QED BY <2>1 DEF D!Next
<1>6. ASSUME NEW w \in Writers, AddRecord(w) \/ FinishWrite(w)
      PROVE  D!Next
  <2>1. \E set \in SUBSET Calls : D!TakeEffect(set) \/ D!Return(set)
    BY <1>6, AddRecordTakesEffect, FinishWriteReturns
  <2> QED BY <2>1 DEF D!Next, Calls
<1>7. CASE InstallFlush \/ InstallDescriptor
  <2>1. \E set \in SUBSET Ids(Recoverable) : D!MakeSafe(set)
    BY <1>7, InstallMakesSafe
  <2> QED BY <2>1 DEF D!Next
<1>8. CASE Crash \/ \E w \in Writers : FailWrite(w) \/ FailToAddRecord(w)
  BY <1>8, EndIsCrash DEF D!Next
<1>9. CASE PowerLoss
  BY <1>9, PowerLossLoses DEF D!Next
<1> QED BY <1>1, <1>2, <1>3, <1>4, <1>5, <1>6, <1>7, <1>8, <1>9
        DEF Next, Open, BackgroundStep, WriterStep

\* A write takes effect as a whole, for good, while it is being called; only the
\* end of the machine undoes writes, and only those that are in no table of a
\* synced entry: LevelDB implements DurableWrites.
THEOREM LevelDBImplementsDurableWrites == Spec => ImplementsDurableWrites
<1>1. Init => D!Init
  <2> SUFFICES ASSUME Init PROVE D!Init
    OBVIOUS
  <2>1. Recoverable = {} /\ flushed = {} /\ Calls = {}
    BY DEF Init, Recoverable, Calls
  <2>2. Ids({}) = {}
    BY DEF Ids
  <2> QED BY <2>1, <2>2 DEF D!Init, Calls
<1>2. LevelDBInv /\ [Next]_vars => [D!Next]_(D!durableVars)
  BY NextRefinesDurableWrites
<1> QED BY <1>1, <1>2, LevelDBCorrect, PTL DEF Spec, ImplementsDurableWrites, D!Spec
=============================================================================
