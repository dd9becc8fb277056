# A verification project for the PV239 money tracker

The repository is an iOS program in Swift: accounts, a list of income and expense
transactions, a report, all kept in Firestore through the Firebase SDK. This
directory holds TLA+ modules that model it and the storage it rests on, TLC configurations
that check them on small instances, and theorems about them with proofs for TLAPS.

Paths below are relative to `PV239 project/PV239 project/` unless they begin with
`Pods/`; `FS/` stands for `Pods/FirebaseFirestore/Firestore/Source/`, `FC/` for
`Pods/FirebaseFirestore/Firestore/core/src/firebase/firestore/` and `LD/` for
`Pods/leveldb-library/`.

## 1. The system

| part | state | operations |
|---|---|---|
| `Models/Transaction`, `Category`, `TransactionType` | fields of one object (a class: shared by reference) | `setCategory`, `setTransactionType`, `description` |
| `Models/TransactionsManager` | one array of objects, a singleton | `getTransactions`, `setTransactions`, `addTransactions`, `removeTransaction`, `updatetransaction`, and the Firestore callbacks of the last two |
| `LoginViewController`, `SignUpViewController` | the auth state listeners it added, what it presents | `viewDidAppear`, the listener, `getTransactionsForUser` and its callback, the buttons |
| `SettingsViewController` | - | logout |
| `TransactionsTableViewController`, add and detail forms, pickers | a copy of the array, `addedTransaction`, the forms' fields, the opened row | navigation, text entry, picking, Add, Save, Delete |
| `DashboardTableViewController` | the selected segment, three sums | `viewDidAppear`, `segmentControlClicked` |
| Firebase Auth (`Pods/FirebaseAuth`) | current user, its keychain copy, listeners | sign in, sign out, refresh of the token, sign-out by force, notify |
| Firestore SDK (`Pods/FirebaseFirestore`) | a mutation queue per user and a cache on disk, a worker queue, listeners, online state | write, query, acknowledge, reject, change of user |
| - its write path (`FSTLevelDBMutationQueue`, `FSTLocalStore`, `FSTSyncEngine`, `FSTRemoteStore`, `FSTStream`) | rows and ids of batches, completion blocks, the pipeline of sent writes, held acknowledgements | file, send, acknowledge, hold, release, restart, change user |
| - its watch path (`FSTRemoteStore`, `FSTRemoteEvent`) | watched targets, counts of unanswered requests, accumulated changes | listen, stop, aggregate, reject a target |
| - its database transactions (`FC/local/leveldb_transaction`) | pending puts and deletions, iterators | `Put`, `Delete`, `Get`, `Seek`, `Next`, `Commit` |
| LevelDB (`Pods/leveldb-library`) | logs, tables and descriptors on disk; memtables, the writers' queue, a background thread | `Open`, `Write`, compaction, deletion of files |
| AppDelegate, tab bar animation, table cell, storyboards, Core Data model, other pods | nothing the properties need | not modelled |

**Interaction.** The program has one thread, the main queue. A user event calls a
controller, which calls the manager; the manager changes its array at once and asks
Firestore. Every Firestore call is a task on the SDK's worker queue; answers come
back later as blocks of the main queue. Auth changes its user and posts a notification as
a block, which reaches the SDK (whose worker then changes user) and all
listeners ever added. Objects are shared: the array, the table's copy and a pending
update callback may refer to the same `Transaction`. Inside the SDK one worker queue runs the
local store, the sync engine and two streams to the server; every change on disk is a
transaction, which LevelDB takes as one batch and makes durable with files written by two
threads.

**What is hard here.** Answers that arrive after the world has changed (another user,
another load, another edit of the same object); edits and deletions that exist only as a
pending lookup; listeners that accumulate; three notions of "the current user" (Auth's, the
SDK's, the worker's); the process dying anywhere; writes sent twice because a response was
lost; a clock read several times in one calculation; force-unwrapped values that several
screens must have kept valid. Below that: ids of batches and targets that are used again
while answers to their earlier use are under way; acknowledgements that must wait for another
stream; iterators over rows that change; files that must be deleted late enough, in the
middle of compactions, errors and crashes. `PROJECT.json` lists each hazard at its line together with
the properties aimed at it, and says where none is and why.

**What makes each part correct.**

* data: what is stored can be read back, up to two category names the reader does not know;
* forms: only complete rows enter the list, and the row a form was opened for exists;
* manager and table: same objects in the same order; after everything is delivered, what
  the server has;
* session: a signed-in user reaches the tabs and no one else does; nobody sees another account's transactions;
* store: an accepted creation is not lost, a committed deletion is final, a transaction has
  one document, a creation is filed under its owner;
* report: the sums are those of the chosen period;
* write path: each user's writes reach the server in the order they were filed, none is
  skipped, callers hear the truth, and an acknowledged write does not disappear again;
* watch path: a query is given its own changes only, and is answered in the end;
* database: an iterator shows what the transaction would read, a write that returned is
  found after any crash, and every writer returns.

## 2. The modules

| module | what it is |
|---|---|
| `Ordering` | finite sets of numbers in order, subsequences; ranks instead of recursion |
| `TransactionRecord` | the enumerations, `Encode` and `Decode` |
| `Firestore` | the SDK and the server |
| `TransactionsManager` | the manager and its callbacks, EXTENDS both of the above |
| `MoneyApp` | Auth, login, logout, the table and the buttons, composed with the manager and Firestore |
| `TransactionForms` | the screens of the transactions tab in detail, over a store that answers at once |
| `TransactionBook` | what `TransactionForms` promises: the abstract specification it implements |
| `Dashboard` | the report tab |
| `WritePipeline` | the path of a write through the SDK: queues, pipeline, stream, held acknowledgements |
| `Outbox` | what `WritePipeline` promises: an ordered queue per user |
| `WatchTargets` | listening under target ids that are used again |
| `LevelDbTransaction` | a transaction of the local database and its iterator |
| `OrderedView` | what it promises: a map walked in order while it changes |
| `LevelDB` | writers, logs, memtables, tables, descriptors, recovery, crashes; with `Ordering` |
| `DurableWrites` | what it promises: a write takes effect as a whole, while it is called, for good |
| `LogFormat` | the fragments and blocks of a log or descriptor file, and its reader |
| `MCMoneyApp`, `MCDashboard`, `MCWritePipeline`, `MCWatchTargets`, `MCLevelDbTransaction`, `MCLevelDB`, `MCLogFormat` | definitions of constants for TLC |
| `OrderingProofs`, `MoneyAppProofs`, `MemoryProofs`, `SequentialProofs`, `WritePipelineProofs`, `WatchTargetsProofs`, `LevelDBProofs`, `LogFormatProofs` | theorems and proofs |

`MoneyApp` composes everything that is concurrent. The forms and the report are separate,
because they run within one main-thread event each and meet the rest only through the
manager's operations: `MoneyApp` takes from the forms the contents they can produce
(`NewContents`, `EditedContents`), which `TransactionForms` in turn is shown to respect
(`ImplementsBook`).

The other modules go down the layers below `MoneyApp`, each on its own because together
they would be out of TLC's reach. `Firestore` has the SDK as the program sees it; `WritePipeline` and
`WatchTargets` study the two halves of its remote store; their transactions are atomic because
`LevelDbTransaction` and `LevelDB` are shown to make them so; `LevelDB` takes from
`LogFormat` that a log reads as its records up to the first torn one.

### State and actions of `MoneyApp`

* `heap` holds every `Transaction` object since the launch; an object is an index of it.
  `transactions` is the manager's array, `list` the table's copy (`NotLoaded` before the
  table's `viewDidLoad`), both sequences of references. Save changes `heap` in place, as
  `saveButtonClicked` does.
* `main` is the main queue: `auth` and `initial` blocks (Auth), `snapshot` and `error`
  blocks (answers). `worker` is the SDK's queue: `user`, `write` and `listen` tasks.
* `mutations[u]`, `cache` and `keychain` are on disk and survive `Crash`; `worker`,
  `listeners`, `main`, `heap`, `observers` do not.
* `depth` counts presented controllers: login, tabs, login, ... Nothing is ever dismissed
  in this program, so a number is enough to say who is on top and who may present.
* `fsUser` is the user of the SDK's worker, `NoClient` until the first load creates the
  client (`-[FIRFirestore ensureClientConfigured]`).
* `signIns` counts the sign-ins that were sent and not answered, per account. A sign-in is
  sent from the form (`SendSignIn`), and its answer or refusal comes later, whatever is on the
  screen by then: the form stays enabled, and `signIn`'s callback tests nothing.
* `budget` counts what is left of the bounded events. A sign-in that does not wait is an event of
  its own, `hurry`, so that properties can tell it from one that does: it is sent before Auth has
  read the keychain, before an earlier one is answered, or before the load that one set off has
  ended; so is a return from the sign-up screen with a sign-in unanswered, whose new listener
  may bring the tabs. A state in which none was spent is *Patient*.
* `added` and `history` are auxiliary: no guard of a program or SDK action reads them,
  except that ids and keys are drawn fresh (`UUID()`, `addDocument`).

| code | action |
|---|---|
| `viewDidAppear` / `checkLoggedIn` | part of `Init`, `Launched`, `ReturnFromSignUp`, `SignOut` |
| `signIn` / `createUser` called, answered, refused | `SendSignIn`, `SignInAnswered`, `SignInRefused` |
| `possiblyPostAuthStateChangeNotification` delivered | `RunAuthBlock` (SDK first, then every listener) |
| first call of a new listener | `RunInitialBlock` |
| callback of `getTransactionsForUser` | `RunLoadCallback` |
| callbacks of removal and update | `RunRemoveCallback`, `RunUpdateCallback`; any error `RunErrorCallback` |
| Add, Save, Delete | `AddTransaction`, `SaveEdit`, `DeleteTransaction` |
| keychain read on Auth's queue | `LoadKeychain` |
| automatic refresh of the token, and its refusal for good | `RefreshToken`, `SignOutByForce` |
| SDK | `UserDidChange`, `WriteMutations`, `AddListener`, `RaiseFromServer`, `RaiseFromCache`, `RejectListen`, `ApplySuccessfulWrite`, `CommitWithoutResponse`, `RejectFailedWrite`, `GoOffline`, `GoOnline` |
| environment | `OtherDevice`, `Crash` |

### The modules below

`WritePipeline`: `rows`, `lastAcked`, `cache`, `remoteVersion` and `resume` are on disk.
`WriteMutations` files a batch; `FillWritePipeline` (part of every action that may free a
slot) moves batches into `pendingWrites`, sends them if the stream is ready, and opens it if
need be; `ReceiveResponse` and `ReceiveRefusal` take the server's answers;
`ApplyBatchResults`, `ShouldHold`, `ReleaseHeldBatchResults` are the local store's part;
`WatchSnapshot`, `Listen` and `ReleaseQuery` are what the watch side does to it;
`UserDidChange` and `Relaunch` start a queue (`StartMutationQueue`) and the streams anew. `writes`,
`told`, `confirmed`, `refused`, `dropped` are auxiliary.

`WatchTargets`: a request or a change carries the number of the listen it is meant for,
which only properties read. `WatchStreamDidChange` is the whole handler: it aggregates what has
piled up when a snapshot version comes.

`LevelDbTransaction`: the two iterators are positions (`dbPos`, `mutPos`); `Next` is
`SyncToTransaction` and the advance. Deleting a row the transaction set leaves `mutPos` at a
key that is no longer there, as the C++ iterator is then invalid; the invariant says that it is not
read before the next `Seek`.

`LevelDB`: one action is the code between two points where the mutex is released or a file
changes. `phase` is where `DB::Open` is; `flush` and `merge` are the compactions under way,
first the files (`building`, `merging`), then the entry (`logged`), then the installation.
`doomed` are obsolete files being deleted; the process may end with any of them gone. Opening
after a crash is the same sequence of actions, so crashes during recovery are included.

`LogFormat`: a file is a sequence of fragments that stand for their bytes, each from its start; `Crash`
keeps any number of bytes, and the reader works on blocks of them.

### Abstractions

* A payload is a member of a small set. Passwords, e-mail checks, labels, colours, images
  and formats are left out.
* In `Firestore` an acknowledged write is applied to the cache when it is acknowledged. The
  SDK holds it until its watch stream has caught up (`FS/Local/FSTLocalStore.mm:448-529`),
  during which the write is still laid over the cache; what a query sees is the same but for
  what `WritePipeline` finds (below).
* The server commits the writes of a queue in order, and a response that is not lost comes with
  its commit. When the stream breaks instead, any number of the writes sent ahead (up to
  `MaxPendingWrites`, 10 in the code) may have been committed; all are sent again
  (`CommitWithoutResponse`). How sent writes and responses overlap is `WritePipeline`'s subject.
* A listener that joins a query whose view is in sync is raised by the next
  `RaiseFromServer` and not at once.
* The presentation of the tab bar is animated, so the first touch of a tab comes after the
  auth blocks that were in the main queue (`OpenTable`).
* An alert is a state in `TransactionForms` and is skipped in `MoneyApp`, where a
  confirmed logout or deletion is one action. A `signOut` that throws is not represented.
* UIKit's own check of `insertRows` in `viewDidLoad` is not represented (whether it
  applies depends on when UIKit first asks for the number of rows). Its check in
  `viewWillAppear` is what `TableShowsManager` is about.
* In `Dashboard` the clock may pass midnight between any two reads. The transactions do not
  change under a visible report; a load that replaces them then is left to `MoneyApp`.
* `WritePipeline`: every query matches every document; the server answers a listen with
  snapshots no older than what it has applied by then; what a closed stream has not processed is
  dropped on both sides; a write's stream token is not modelled.
* `WatchTargets`: no resume tokens, existence filters, limbo resolution or documents' contents.
  The server confirms a target before it refuses it.
* `LevelDB`: keys are left out, so all tables overlap and a merge keeps every batch. A
  memtable's table goes one level above the least occupied one; tables of a recovery go to
  level 0; a merge takes levels 0 and 1 to level 1. A log is replayed into one table. Trivial
  moves, merges for seeks or size, snapshots, the slowdown of writes, clean shutdown, repair and
  `reuse_logs` are left out; a log that cannot be created is the same as a write that fails. Several
  writers are LevelDB's generality, the SDK has one worker queue. A failing commit ends the
  process (`FC/local/leveldb_transaction.cc:222-225`), and no write asks for a sync. Renames and
  deletions within the directory survive a loss of power in the order they were made.
* A record of a log may be cut short by a failing write, which ends the process; an entry of a
  descriptor is written or not. What an entry written in part does to those that a merge
  under way appends behind it (`LD/db/db_impl.cc:916-927`) depends on lengths and is left out.

## 3. The runs

Every cfg is run with its module by `tlc -config X.cfg M`.

| run | properties | instance |
|---|---|---|
| `forms` (MCForms) | FormsTypeOK, RowsDisplayable, CategoryKept, DetailHasRow, ImplementsBook | two digits, length limit 2, one character typed at a time, 2 rows, one readable category whose description differs from its name and one unreadable |
| `dashboard` | CountedInPeriod, FiguresExact | 4 days: December, two of January, the next December; 2 transactions of 2 amounts |
| `failures` | AddedNotLost, DeletedStaysDeleted, OneDocumentPerTransaction, TableShowsManager | 1 user, 2 transactions, one each of sign-in, edit, deletion, crash, outage, failure, token refresh, other device; up to 10 writes committed unheard |
| `sessions` | TypeOK, TabsAreSignedIn, FiledUnderOwner, ShowsOwnTransactions | 2 users, 2 sign-ins that wait and one that does not, any of them answered or refused at any time, 2 logouts, a deletion, a failure, a sign-out by force |
| `progress` | MemoryMatchesServer, DeletionReachesServer, ComesToRest, SignedInReachesTabs | 1 user, a transaction of 2 amounts, 2 edits, a deletion, an outage, a crash, a return from sign-up; fair |
| `queues` | IdsInOrder, PipelineFull, AnswersMatchPipeline, CallersToldTheTruth, ImplementsOutbox | 2 users, 3 writes, a pipeline of 2, one each of refusal, failure, idle close and relaunch, 2 changes of user |
| `held` | NotReverted, QueueDrains | 2 users, 2 writes and one of another device, 2 queries, an idle close, a change of user, a relaunch; fair |
| `watch` | CountsUnanswered, OwnChangesOnly, EveryListenEnds | 1 target id, 3 listens, 2 stops, one each of refusal, failure and idle close; fair |
| `transaction` | IteratorInSync, ImplementsView | 3 keys, 2 values, 3 changes in a transaction, any rows to begin with |
| `durable` | OpensAgain, ReadsWhatIsDurable, LaterWritesWin, ImplementsDurableWrites, EveryWriteReturns | 2 writers, 4 writes, memtables of one group, merges of 2 tables, one each of crash, loss of power and failure; fair |
| `log` | ReadsPrefix, WholeRecordsFound, DeathIsNotCorruption | blocks of 6 bytes, headers of 3, 3 records of 0 to 7 bytes |
| `creation` (violation) | CreationCommitted | a loss of power while the database is created |

**Bounds.** `Budget` bounds how often each event of the environment happens; ids and
document keys bound the additions; everything else is bounded by consequence. Two
transactions are enough for a wrong row, a wrong document or a wrong order to differ from
the right one, and no queue grows to `MaxPendingWrites`; two edits for one to be overtaken by another; two users and three sign-ins
for A, B, A. One event of each failure is enough because the properties are about what one
of them does to the steps around it, which TLC interleaves in every way; the theorems say
the same of the thirty-three properties that are not liveness, for all bounds. `CHECK_DEADLOCK FALSE` is set in the
runs with a budget because a spent budget ends the behaviour; `forms`, `dashboard` and
`transaction` check for deadlock. In the lower modules three writes are enough to have one
pending behind a pipeline of two, or one acknowledged, one sent and one waiting; three
listens for a change to be two uses of an id too late, and one of several to end while another
begins; four LevelDB writes for a merge with a memtable filling up during it, around a crash;
blocks of 6 bytes for a record to end at each place of a block and to span three of them.

Symmetry is used on ids in `failures`, where all properties are invariants. Keys are not
symmetric: queries answer in key order.

**Fairness** (`FairSpec`). Weak fairness of the main run loop, of Auth's queue and of
the SDK's worker (serial dispatch queues run what they hold); of an answer to a listener,
from the server or, offline, from the cache (`FS/Core/FSTEventManager.mm:162-217`); of
sending the next write while online; and of the end of an outage. In `WritePipeline` and
`WatchTargets`: of the streams' opening, the worker's handlers (blocks of a serial queue) and the
server's answers, and that the program's queries end with their first answer
(`getDocuments`). In `LevelDB`: that threads run and the program opens its database again
after a crash. Nothing is assumed of the user, of failures, of crashes or of the other device.

**What the runs show, and what they do not.** All properties hold, some under conditions
that a reader should know, each found by TLC when the condition was left out:

* *ShowsOwnTransactions*, *FiledUnderOwner*, *DeletedStaysDeleted* and *TableShowsManager* need
  users who wait (no `hurry`); the code does not make them. If B signs in before A's load is answered
  B sees A's list. If a second sign-in is answered with the table open, a transaction added before the
  SDK has heard of it names B and is filed in A's queue, where the server, or a later deletion of
  B's, does not meet it in order.
* *DeletedStaysDeleted* is about deletions of this device committed on behalf of the owner. When
  the responses to a creation and to its deletion are both lost, both are sent again, and the document
  is on the server between the two; the property says that the deletion is then still
  queued for the owner. It stays there while that user is not signed in, so another device may see
  the document for as long, and the server may refuse it the second time: documents of which a
  creation or deletion was refused are excepted. A document that another device deleted can come back
  for good, by a creation that was committed, whose answer was lost, and which is sent again. And after
  add, delete and a quick logout, the callback of the deletion runs for the next user; its
  delete goes into another queue than the creation, the order between the two is lost, and
  the transaction can come back.
* *MemoryMatchesServer* and *TableShowsManager* are for one listener and for users who wait
  (no `hurry`), the former also for one device and no refused request. A user who signs in before
  another's load is answered is shown that other's list, and nothing loads it again. A
  second listener (return from sign-up) starts a second load, which replaces the array under
  an open table, and an edit of an object that is no longer in the array goes to the
  new entry with its id.
* *DeletionReachesServer* excepts deletions interrupted by the end of the process (the lookup is
  forgotten), by a logout or a sign-out by force (the deletion waits for the next sign-in, or is
  filed for nobody or another user), and refused requests (an error of the lookup is only printed, and
  the document stays). Its run has the crash and none of the others; what these do to a deletion is
  left to the safety properties of `sessions` and `failures`. *ComesToRest* excepts a
  user who was signed out.
* *SignedInReachesTabs* is without refused queries. After one, nothing asks again until
  the login controller reappears or the program is relaunched.
* A crash between confirming an edit or a deletion and the answer of its lookup forgets it.
  The code is built that way; memory and server still agree after the relaunch.
* *CategoryKept* has "or none" in it: a category saved as *Other* or *None* is lost by the
  next load, since `setCategory` does not know these names.
* *TabsAreSignedIn* excepts a user whom Auth signed out by itself after a refused token: the
  listeners ignore a nil user, so the tabs stay, and what is added then is shown and not saved.
* *NotReverted* has an exception too: `startMutationQueue` drops held acknowledgements at a
  change of user and at a restart (`FS/Local/FSTLocalStore.mm:138-141`), so an acknowledged write
  disappears until the watch stream brings it. The comment on `heldBatchResults` (`:86-91`)
  promises that it "remains visible"; the TODO at `:139` knows of the case.
* *NotReverted* also rests on the assumption about snapshots above. An acknowledgement that
  arrives while nothing is listened to is released at once (`:472`) and leaves the cached document
  with its old version; a server that answered a query resumed with an older token step by step
  could then show the document as it was before the write.
* *CountsUnanswered* rests on the server confirming a target before it refuses it. A refused
  target leaves its pending response counted (`FS/Remote/FSTRemoteStore.mm:462-471`), and after
  a refusal alone later listens under the id would be taken for unanswered until the stream closes.
* *ReadsWhatIsDurable* is about the end of the process. A loss of power may take whatever was not
  synced, which is every write since the last table, and it may take the tail of an older log
  while a newer one survives; *ImplementsDurableWrites* says what is safe: every batch in a
  table of a synced descriptor entry.
* *CountedInPeriod* allows a report that straddles midnight to mix the two days' periods;
  it excludes only transactions of neither.

**A finding**, the subject of the run that is expected to fail:

* `creation`: the first descriptor is closed but not synced before CURRENT names it
  (`LD/db/db_impl.cc:194-202`), although "the creation of the DB is committed only when the
  descriptor is created" (`:277-278`). After a loss of power at that moment the database cannot
  be opened, and the SDK raises at every launch (`FS/Core/FSTFirestoreClient.mm:179-185`).

The type invariants of `Dashboard` and of the lower modules are conjuncts of one property each
(*FiguresExact*, *PipelineFull*, *CountsUnanswered*, *IteratorInSync*, *OpensAgain*,
*ReadsPrefix*). Every property has a mutant in `PROJECT.json`, a plausible bug under which its run fails.
The mutants are the definitions marked *Mutant*; no specification uses them.

## 4. The proofs

`tlapm` proves, for all values of the constants that satisfy the ASSUMEs of the modules
(users, ids, amounts and budgets of any size; finitely many document keys):

| theorem | of | module |
|---|---|---|
| `TypeCorrect` | `Spec => []TypeOK` | `MoneyAppProofs` |
| `AddedTransactionsKept` | `Spec => []AddedNotLost` | `MoneyAppProofs` |
| `OneDocument` | `Spec => []OneDocumentPerTransaction` | `MoneyAppProofs` |
| `TabsSignedIn` | `Spec => []TabsAreSignedIn` | `MoneyAppProofs` |
| `OwnersFile` | `Spec => []FiledUnderOwner` | `MoneyAppProofs` |
| `DeletionIsFinal` | `Spec => []DeletedStaysDeleted` | `MoneyAppProofs` |
| `OwnTransactionsShown` | `Spec => []ShowsOwnTransactions` | `MoneyAppProofs` |
| `TableIsManagers` | `Spec => []TableShowsManager` | `MoneyAppProofs` |
| `MemoryAgrees` | `Spec => []MemoryMatchesServer` | `MemoryProofs` |
| `FormsTyped` | `FormsSpec => []FormsTypeOK` | `SequentialProofs` |
| `TypesDisplayed` | `FormsSpec => []RowsDisplayable` | `SequentialProofs` |
| `CategoriesKept` | `FormsSpec => []CategoryKept` | `SequentialProofs` |
| `DetailInTable` | `FormsSpec => []DetailHasRow` | `SequentialProofs` |
| `BookImplemented` | `FormsSpec => ImplementsBook` | `SequentialProofs` |
| `FiguresAreExact` | `DashboardSpec => []FiguresExact` | `SequentialProofs` |
| `CountsInPeriod` | `DashboardSpec => []CountedInPeriod` | `SequentialProofs` |
| `IteratorStaysInSync` | `Spec => []IteratorInSync` | `SequentialProofs` |
| `TransactionImplementsView` | `Spec => ImplementsView` | `SequentialProofs` |
| `PipelineCorrect` | `Spec => []PipelineInv`, the invariant the next six rest on | `WritePipelineProofs` |
| `BatchIdsInOrder` | `Spec => []IdsInOrder` | `WritePipelineProofs` |
| `PipelineStaysFull` | `Spec => []PipelineFull` | `WritePipelineProofs` |
| `AnswersBelongToPipeline` | `Spec => []AnswersMatchPipeline` | `WritePipelineProofs` |
| `CallersAreToldTheTruth` | `Spec => []CallersToldTheTruth` | `WritePipelineProofs` |
| `NothingAppearsReverted` | `Spec => []NotReverted` | `WritePipelineProofs` |
| `PipelineImplementsOutbox` | `Spec => ImplementsOutbox` | `WritePipelineProofs` |
| `CountsAreOfUnanswered` | `Spec => []CountsUnanswered` | `WatchTargetsProofs` |
| `OnlyOwnChanges` | `Spec => []OwnChangesOnly` | `WatchTargetsProofs` |
| `LevelDBCorrect` | `Spec => []LevelDBInv`, the invariant the next four rest on | `LevelDBProofs` |
| `DatabaseOpensAgain` | `Spec => []OpensAgain` | `LevelDBProofs` |
| `ReadIsDurable` | `Spec => []ReadsWhatIsDurable` | `LevelDBProofs` |
| `LaterWriteWins` | `Spec => []LaterWritesWin` | `LevelDBProofs` |
| `LevelDBImplementsDurableWrites` | `Spec => ImplementsDurableWrites` | `LevelDBProofs` |
| `LogReadsPrefix` | `Spec => []ReadsPrefix` | `LogFormatProofs` |
| `LogFindsWholeRecords` | `Spec => []WholeRecordsFound` | `LogFormatProofs` |
| `LogDeathIsNotCorruption` | `Spec => []DeathIsNotCorruption` | `LogFormatProofs` |
| `AscendingProperties`, `GreatestProperties`, `SubsequenceType` | the operators the others rest on | `OrderingProofs` |

* **Types.** `TypeOK` is not inductive: a write is filed in `mutations[fsUser]`, which has
  no value while there is no client. `IInv == TypeOK /\ ClientReady` is (*ClientReady*, an
  auxiliary fact and no property of its own, says that before the client exists nothing is queued, listened
  for, answered or shown). There is one lemma for each action, and
  `Invariance` collects them. The interesting part of `TypeOK` is that references do not
  dangle: `heap` only grows within a launch, and a crash drops it together with everything
  that refers to it.
* **Durability.** `Durable == IInv /\ DeletionsRecorded /\ AddedNotLost`. A creation
  leaves its mutation queue only by being committed or refused, and a committed
  document is removed only by a deletion, which was recorded when it was filed:
  `DeletionsRecorded` is what makes the property inductive.
* **Provenance.** `Provenance == IInv /\ OnServer /\ InQueues /\ OnWorker`: a creation is
  followed from the worker queue through a mutation queue to the server; `NoNewCreation`
  says that all steps but `AddTransaction` make none, and a patch keeps id and owner.
* **Presence.** `Presence == IInv /\ TabsAreSignedIn /\ Listening /\ OnTime`. A load that
  is still to be answered belongs to a login controller that is covered, or to the topmost
  one while someone is signed in (`OnTime`, over all callbacks queued, registered or
  answered). A load is asked for only on behalf of a user and by a listener whose
  controller is not above the topmost (`Listening`); a logout presents a new controller and
  so covers every older load.
* **Waiting.** `Waiting` adds to *Presence* what users who wait get for it. A sign-in that is unanswered
  is the only one; the login form is still on the screen when it is answered, because nothing under way
  can bring up the tabs: no load is (`Waits`). Neither the answer's place nor its time is a guard of the
  model, so this must be carried through every step: a listener called later would start a load, hence
  each has been called with the current user, or a notification or its first call is still
  to come (`PrevKnown`), and `LoadsAskUsers` makes `Loading`, which tests only queries by user, see every load.
* **Filing.** `Filing` adds to *Waiting* and *FiledUnderOwner* that each creation in the
  worker's queue will be run while the SDK acts for the user it names (`InOwnersTurn`, over
  `ActsFor`, the user after the first n tasks). A creation joins the queue in the name of
  `authUser`, so the SDK must be heading for that user: Auth's last announcement is of
  `authUser` (`Announced`), when none is left to be delivered the SDK has been told
  (`Heard`), and the table is opened only then (`TableHeard`). What is announced while it is
  open is the same user again (`OnlyAnnounces`), or nobody after a sign-out by force, after which
  nothing is created (`OustedGone`). That no sign-in is answered while it is open is *Waiting*'s.
* **Finality.** `Uniqueness == Provenance /\ Once` says that a key has at most one creation under way,
  and that what is on the server is no longer on the worker queue. `Finality` adds to *Filing* and *Uniqueness* an
  order: no write of a document is ahead of its creation, neither on the worker queue
  (`OnWorkerFirst`), nor in a mutation queue (`InQueuesFirst`), nor there while the creation is still on
  the worker queue (`FiledFirst`), because a deletion or patch is written only of a document that was
  found (`AnswersGenuine`, `InCache`). By *FiledUnderOwner* the creation is in the owner's queue. So when the
  owner's deletion removes the document, a creation that is still queued, because its response was lost, is
  ahead of a deletion that is still queued. `GoneForGood` says that this stays so: behind each queued
  creation of a document that is gone a deletion is queued for the same user, and if the document
  is back, a deletion is queued for its owner. Commits take or resend a beginning of the queue, so the
  last of the two is the deletion; a refusal may drop it, which is the exception.
* **Belonging.** `Belonging` adds to *Filing* and *Provenance* what is known of a load on its way.
  The documents a device shows are genuine, cached and overlaid with pending writes
  (`InCache`, `LocalDocumentGenuine`), so the answer to a query by user has that user's
  transactions only. Every load under way is the signed-in user's, or the one's whom Auth has signed
  out (`LoadsOwned`); that is what users who wait are for: by *Waiting* the answer to a sign-in finds no
  load. The property then holds at every moment the tabs are shown (`OwnShown`).
* **The table.** `Tabular` adds to *Belonging* that no transaction is shown twice and that those shown
  were added (`ShownOnce`, `ShownAdded`, from `AnswersGenuine`: two documents of an answer are
  never of one transaction). An edit replaces the first entry with the id of the row's object and a
  deletion every entry with it; with `ShownOnce` both are the entry of the row. The other
  danger is a load that replaces the array under the table. While there is one listener, which users
  who wait do not hurry, one load at most is under way (`OneLoad`, over the worker's queue, the
  registered listeners and the main queue), none is while the listener is still to be called with the
  user of the keychain (`ToBeLoaded`), and neither is the case once the tabs are shown (`LoadedOnce`).
* **Memory and server.** No step makes the array and the server equal: a creation waits in two queues,
  an edit and a deletion look their document up first and write it in a callback. What a creation, patch or
  deletion does not change on its way from the mutation queue into the cache is the device's own view of
  the document (`View`, `ViewSteps`; a write that is sent goes from the front of the overlay to the
  document under it, `OverlaidTail`). `Agreed` therefore compares the array with the views, but for what is
  under way before them: the document of each entry is seen or its creation is on the worker queue, and no
  deletion of it is looked up (`ShownKept`); a transaction of the user that is not in the array has no document,
  or a lookup or task that deletes it (`OthersGo`); and the content of an entry is what the last write
  of its document on the worker queue makes of it, or the view when there is none, unless an edit of that
  very object is looked up (`ContentsFollow`). Two facts about order make that inductive: a creation is
  filed before its document is looked up, found or changed (`CreationFirst`), so no lookup
  misses it; and a lookup for an edit is of the object the array has (`LookUps`), so its callback writes
  what the entry shows by then, be it a later edit's. `Background` is what they rest on: *Tabular*, *Uniqueness*,
  cache and server are the same when nothing was refused and no other device wrote (`Mirrored`), nothing but loads is
  under way before the tabs are shown (`Untouched`), a sign-in that is unanswered finds nobody signed in and no
  block waiting (`Answerable`), no user was announced before there was a client (`Uncalled`), the worker acts for
  the one who is signed in (`Alone`), and the load that opens the table brings all documents that are seen
  (`LoadAnswered`), which is where the agreement begins (`SittingBegins`). There is one lemma per step from then on.
  When nothing is under way the view is the server's document, and the entries and documents correspond
  one to one (`EntriesAreDocuments`).

* **The screens.** `FormsInv` says where the fields of a form come from. Those of the add form are
  blank or were picked (`AddFields`); those of the detail form are its row's own or were picked, and
  the row is in the table (`DetailFields`); a deletion is asked for only over the detail form
  (`DeletionAsked`). The detail form asks for an amount only and saves by index, so `DetailFields`
  is what makes a save an edit of that row. The steps that do not touch the rows go through
  four lemmas, about pickers, fields, alerts and the return to the table; the others through what
  `Subsequence` and `Reloaded` do to rows. `AmountsAssumption` stands for what `FoldLeft` computes:
  the amounts are the values of the texts that fit the field, and each has one without leading zeros. It is a
  statement about constants, which TLC evaluates in run `forms`.
* **The report.** `DashboardInv` follows a calculation: what it has chosen is of the period on a day
  since it began (`ChosenInPeriod`), and as long as midnight has not passed its sums are what is
  due of the transactions looked at so far (`ChosenDue`). The month is read before the year, maybe a
  day earlier. A transaction with that month and that year lies in the month of one of the two days or
  between them, because the calendar is ordered and no transaction is of tomorrow (`EntriesPast`). The
  sums are loops, written as recursive functions; that such a function exists and what one more
  number adds to it is shown without an induction rule, by the least number for which it
  would fail (`LeastOutside`, `RunningExists`, `SumOfSteps`).
* **The local transaction.** `TransactionInv` adds three facts to the types: a key is not
  both set and deleted (`SetOrDeleted`), a valid iterator hands out a row (`ValidHasEntry`),
  and while the transaction has not changed since the iterator moved, both of its positions are
  where a search for the current key would lead (`PositionsFound`). The last is what makes
  *IteratorInSync* inductive: the code searches again only when the version of the transaction
  has changed, so the positions must be right whenever it has not. `TransactionImplementsView`
  maps each step to one of `OrderedView`: a change or a commit to the same on a map, a move
  of the iterator to a move to the least key of the map that is left, with `LeastExists` from
  `OrderingProofs`.
* **The write pipeline.** `PipelineInv` is the conjunction of the types, what is known of the
  queues (`QueuesInv`), of the pipeline (`PipelineInOrder`) and of the stream (`StreamInOrder`),
  *AnswersMatchPipeline* and *CallersToldTheTruth*. None is inductive alone. The pipeline
  lists the lowest unacknowledged batches of the user, and every one of them up to
  `lastBatchSeen` is in it, so the next fetch begins where the last ended; that stays true
  because the next id is above every id handed out (`NumberingAhead`), also after a restart that
  finds its numbers in what is left of the table (`LastAckedStays`). An answer belongs to the
  head of the pipeline because nothing is under way on a stream that is not ready, and a caller
  is told of its own write because a write has one row (`OneRowPerWrite`). The refinement
  takes the unacknowledged writes of each user in the order of their ids as the abstract queue.
  Most steps leave it alone (`QueuesStay`, a conclusion of the lemmas about releases, snapshots,
  restarts and changes of user); a write adds a row with the largest id, and an answer takes the
  first row away.
* **What is shown.** `ShownInv` adds the order of the server's log to `PipelineInv`, in six parts. A queue
  lists writes in the order they were made, and none that waits is confirmed (`RowsInOrder`).
  What is answered was applied after all that is confirmed (`AnswersLater`), and what is held
  after all that is confirmed and no longer held (`HeldLater`): so results reach the cache in
  the order of the log, whichever way they take. A cached document has the version the last
  snapshot gave it and is no older (`CacheUpToDate`), and of what is confirmed and not held, each write is
  covered by that snapshot or the cache has it or something newer (`CacheKeeps`). The last part is why a
  snapshot undoes nothing: while a query is active, the next one covers all of that
  (`SnapshotBrings`), because a write applied early had no active query to wait for, and a query
  started since gets no older snapshot than the log it started at. `dropped` excuses a write in these parts,
  and nowhere else.
* **Watch targets.** `Inv` begins with the counts themselves: the count of a target is the number of its
  requests on their way, of answers on the stream and of answers accumulated (`Counted`). The aggregator works
  on a list, so its loop gets an invariant of its own (`AggregateFacts`): after i changes the count is what is
  unanswered behind them, and it is 0 only past the last answer for the target. The rest says what comes then:
  the last request under way is for what is listened to now (`LastRequest`); with none under way the
  server serves that, or has refused it and the refusal is on the stream (`ServesListen`); so a change
  that no answer follows, on the stream (`SentForListen`) or accumulated (`KeptForListen`), was sent for the
  listen the target has now, if any. A closed stream carries nothing (`ClosedIsEmpty`), which is why
  its end may reset all counts.
* **LevelDB.** `LevelDBInv` is about what an entry of a descriptor *finds* on disk (`Found`): the
  batches in the tables it names and in the logs from its own on. In every phase the last entry of
  the descriptor in use names tables that are whole, finds what was read, and finds it in
  order; the last entry that was *synced* finds no more than that in tables and in the logs the last one
  does not read, so that a loss of power that goes back to it brings nothing back, and it names
  all that is safe (`OnDisk`). None of this depends on memory, so the end of the process at any
  step is one lemma (`Forgotten`). The rest of the invariant says how the memory relates to the
  disk in each phase. While the database opens, the version and the logs still to be replayed
  hold what the entry finds (`Replaying`). While it is open, the log in use holds the memtable
  and the logs before it the full memtable (`LogsHoldMemory`), the entry finds what the
  version and the full memtable hold even when it already names a table the version does not
  (`EntryHoldsVersion`, `EntryNamesVersion`), each compaction's table is its own
  (`OwnTable`), numbers are above all that is in use (`NumbersAhead`), and what is being
  deleted is needed by no one (`DoomedUnneeded`). The steps that move data then show
  that it is found before and after: a memtable becomes a table and its logs are no longer
  read; inputs of a merge become its output. The refinement takes the ids that can be recovered as the
  abstract writes, those in synced tables as the safe ones, and the queue as the calls.
* **The log format.** `LogInv` says how the fragments lie: each within a block, one at the end of
  the other or at the next boundary when no header fits before it (`Layout`), and numbered by record,
  beginning with a first and closed by a last fragment (`Numbered`). The reader has taken the first m of them
  (`Between`): it has found the records that are closed by then, holds the fragments of the one that
  is not, and its place *follows* the m-th fragment in the sense in which the next one does. A header that
  is in the buffer is therefore the next fragment's (`NextFragment`), and unless the file ends within the
  buffer all of it is there. At the end nothing left over is whole (`AllRead`). The only arithmetic is that
  boundaries are a block apart (`BoundaryFacts`).

Only model-checked: all liveness (the prover has no rule for ENABLED, on which weak fairness rests),
the run with the expected violation, and what `FoldLeft` computes when a number is read
(`AmountsAssumption` stands for it). Every other property of the passing runs has a theorem.

## 5. Not modelled, and the plan

Written in this order: `Ordering`, `TransactionRecord`, `Firestore`,
`TransactionsManager`, `MoneyApp` with its runs and proofs, `TransactionForms` with
`TransactionBook`, `Dashboard`; then, down the layers, `WritePipeline` with `Outbox`, `WatchTargets`,
`LevelDbTransaction` with `OrderedView`, `LevelDB` with `DurableWrites`, `LogFormat`; the proofs
of each after its runs, *MemoryMatchesServer* last.

**Left out of the program**: layout, animation, images, number and date formats, the chart;
a logout that throws, which only shows an alert; the checks of e-mail and password.

**Left out of the SDK**: existence filters, limbo resolution, garbage collection (disabled with
persistence, `FS/Core/FSTFirestoreClient.mm:160-162`), transactions of the public API, which the
program does not use, serialisation, back-off times.

**Left out of LevelDB**: keys and everything that orders, searches, compresses or caches them
(skip list, blocks, filters, table cache), and the cases listed under *Abstractions*.

**Left out altogether**: the other pods. gRPC, BoringSSL, Protobuf and nanopb are transport,
cryptography and encoding that the program reaches through the SDK's streams only, which are
modelled by what they deliver; they are also by far the larger part of the repository's C and
C++ code, and large parts of them are generated tables. Charts and FirebaseUI draw.
