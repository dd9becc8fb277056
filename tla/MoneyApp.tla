------------------------------- MODULE MoneyApp -------------------------------
(***************************************************************************)
(* The program: Firebase Auth, the login controllers and their auth state  *)
(* listeners, the transactions table with its add and detail forms, the    *)
(* TransactionsManager and Firestore.                                      *)
(*                                                                         *)
(* Everything the program itself does runs on the main thread: one action  *)
(* is one user event or one block of the main queue.  The user may act     *)
(* between any two blocks.                                                 *)
(*                                                                         *)
(* View controllers are presented one over the other and never dismissed,  *)
(* so the presentation is a number: login controller n sits at depth       *)
(* 2n - 1, the tab bar it presents at depth 2n, and only the topmost one   *)
(* can present another or be touched.                                      *)
(***************************************************************************)
EXTENDS TransactionsManager

CONSTANTS Unset,               \* a listener has not been called yet
          NotAdded,            \* the id was never used
          NoKey,               \* no document was created
          NotLoaded            \* the table has not been shown

ASSUME BudgetAssumption == Budget \in [Event -> Nat]
ASSUME MarkerAssumption == /\ Absent \notin Document
                           /\ NotAdded \notin [key : DocIds \cup {NoKey},
                                               user : Users \cup {Nobody}]
                           /\ NoKey \notin DocIds
                           /\ Unset \notin Users \cup {Nobody}

VARIABLES keychain,   \* the user Auth keeps on disk
          authUser,   \* Auth.auth().currentUser
          observers,  \* the auth state listeners, never removed
          depth,      \* how many controllers are presented
          signIns,    \* per account, the sign-ins sent and not answered yet
          ousted,     \* auxiliary: the user Auth has signed out by itself,
                      \* until someone signs in, logs out or relaunches
          list,       \* the topmost table's copy of the manager's array
          added       \* auxiliary: per transaction id, the document key and
                      \* the user it was added with

sessionVars == <<keychain, authUser, observers, depth, signIns, ousted>>
vars == <<server, cache, mutations, fsUser, worker, listeners, online, main,
          budget, history, heap, transactions, keychain, authUser, observers,
          depth, signIns, ousted, list, added>>

OnLogin == depth % 2 = 1
OnTabs == depth % 2 = 0

\* The blocks Auth puts on the main queue.
AuthBlock(u)    == [kind |-> "auth", user |-> u]
InitialBlock(i) == [kind |-> "initial", observer |-> i]

Observer(n) == [login |-> n, prev |-> Unset]

-----------------------------------------------------------------------------
\* Launch: the login controller's viewDidAppear adds the first listener.  By
\* then Auth has read its user from the keychain, or it has not.
Launched ==
    /\ main' = <<InitialBlock(1)>>
    /\ authUser' \in {Nobody, keychain}
    /\ observers' = <<Observer(1)>>
    /\ depth' = 1
    /\ signIns' = [u \in Users |-> 0]
    /\ ousted' = Nobody
    /\ heap' = << >>
    /\ transactions' = << >>
    /\ list' = NotLoaded
    /\ StoreCrash

Init ==
    /\ StoreInit
    /\ ManagerInit
    /\ keychain = Nobody
    /\ authUser = Nobody
    /\ main = <<InitialBlock(1)>>
    /\ observers = <<Observer(1)>>
    /\ depth = 1
    /\ signIns = [u \in Users |-> 0]
    /\ ousted = Nobody
    /\ list = NotLoaded
    /\ added = [x \in Ids |-> NotAdded]

\* The process is killed and the program launched again.
Crash == /\ Spend("crash")
         /\ Launched
         /\ UNCHANGED <<keychain, added>>

-----------------------------------------------------------------------------
\* Auth.

\* The auth state listeners have yet to be called, or a load to be answered.
Loading == \/ main # << >>
           \/ \E i \in DOMAIN worker : worker[i].kind = "listen"
           \/ \E u \in Users : listeners[ByUser(u)] # << >>

\* Mutant: the user read from the keychain is not announced.
LoadKeychainSilently ==
    /\ authUser # keychain
    /\ authUser' = keychain
    /\ UNCHANGED <<storeVars, budget, managerVars, keychain, observers, depth,
                   signIns, ousted, list, added>>

\* Auth's own queue reads the user from the keychain and posts a notification.
\* In between, Auth has no current user.
LoadKeychain ==
    /\ authUser # keychain
    /\ authUser' = keychain
    /\ main' = Append(main, AuthBlock(keychain))
    /\ UNCHANGED <<server, cache, mutations, fsUser, worker, listeners, online,
                   budget, history, managerVars, keychain, observers, depth,
                   signIns, ousted, list, added>>

\* Some sign-in has been sent and not answered.
SigningIn == \E u \in Users : signIns[u] > 0

\* loginButtonClicked, or the same in the sign-up form: the form stays as it is
\* and may be sent again at once.  A sign-in sent before Auth has read the
\* keychain, before an earlier one is answered or before the load that one set
\* off has ended is counted apart.
SendSignIn(u) ==
    /\ OnLogin
    /\ Spend(IF Loading \/ SigningIn \/ authUser # keychain THEN "hurry"
             ELSE "signIn")
    /\ signIns' = [signIns EXCEPT ![u] = @ + 1]
    /\ UNCHANGED <<storeVars, managerVars, keychain, authUser, observers, depth,
                   ousted, list, added>>

\* The answer comes, whatever is on the screen by then: Auth has a new current
\* user and posts a notification.
SignInAnswered(u) ==
    /\ signIns[u] > 0
    /\ online /\ authUser = keychain
    /\ authUser' = u /\ keychain' = u
    /\ ousted' = Nobody
    /\ main' = Append(main, AuthBlock(u))
    /\ signIns' = [signIns EXCEPT ![u] = @ - 1]
    /\ UNCHANGED <<server, cache, mutations, fsUser, worker, listeners, online,
                   budget, history, managerVars, observers, depth, list, added>>

\* The sign-in fails, which only shows a message.
SignInRefused(u) ==
    /\ signIns[u] > 0
    /\ signIns' = [signIns EXCEPT ![u] = @ - 1]
    /\ UNCHANGED <<storeVars, budget, managerVars, keychain, authUser, observers,
                   depth, ousted, list, added>>

\* The token of the current user is renewed before it expires: the same user
\* is announced again.
RefreshToken ==
    /\ authUser # Nobody /\ online
    /\ Spend("refresh")
    /\ main' = Append(main, AuthBlock(authUser))
    /\ UNCHANGED <<server, cache, mutations, fsUser, worker, listeners, online,
                   history, managerVars, sessionVars, list, added>>

\* The server says that the account is gone or its token no longer valid: Auth
\* signs the user out on its own queue, whatever is on the screen.
SignOutByForce ==
    /\ authUser # Nobody /\ online
    /\ Spend("revoke")
    /\ authUser' = Nobody /\ keychain' = Nobody
    /\ ousted' = authUser
    /\ main' = Append(main, AuthBlock(Nobody))
    /\ UNCHANGED <<server, cache, mutations, fsUser, worker, listeners, online,
                   history, managerVars, observers, depth, signIns, list, added>>

\* viewDidAppear of the login controller on top: one more listener, and a
\* block that calls it with the user of that moment.
checkLoggedIn(n, queue) ==
    /\ observers' = Append(observers, Observer(n))
    /\ main' = Append(queue, InitialBlock(Len(observers) + 1))

\* The sign-up screen is left and the login controller appears again.  Its new
\* listener may bring the tab bar while a sign-in is still unanswered.
ReturnFromSignUp ==
    /\ OnLogin
    /\ Spend(IF SigningIn THEN "hurry" ELSE "return")
    /\ checkLoggedIn((depth + 1) \div 2, main)
    /\ UNCHANGED <<server, cache, mutations, fsUser, worker, listeners, online,
                   history, managerVars, keychain, authUser, depth, signIns,
                   ousted, list, added>>

\* Logout confirmed: the user is signed out, unless Auth has done so already
\* (it then posts nothing), and a new login controller is presented over the
\* tab bar.
SignOut ==
    /\ OnTabs
    /\ Spend("signOut")
    /\ authUser' = Nobody /\ keychain' = Nobody
    /\ depth' = depth + 1
    /\ ousted' = Nobody
    /\ checkLoggedIn((depth + 2) \div 2,
                     IF authUser = Nobody THEN main
                     ELSE Append(main, AuthBlock(Nobody)))
    /\ UNCHANGED <<server, cache, mutations, fsUser, worker, listeners, online,
                   history, managerVars, signIns, list, added>>

\* The listeners at the positions in I are called with the current user,
\* unless that is the user they were called with last; each asks for the
\* user's transactions.  The first call of all creates the SDK's client, which
\* starts with that user.
Notify(I, tasks) ==
    LET called == {i \in I : observers[i].prev # authUser}
        loads  == IF authUser = Nobody THEN {} ELSE called
    IN  /\ observers' = [i \in DOMAIN observers |->
                           IF i \in I THEN [observers[i] EXCEPT !.prev = authUser]
                           ELSE observers[i]]
        /\ worker' = worker \o tasks \o
             [j \in 1 .. Cardinality(loads) |->
                ListenTask(ByUser(authUser),
                           LoadCallback(observers[Ascending(loads)[j]].login))]
        /\ fsUser' = IF fsUser = NoClient /\ loads # {} THEN authUser ELSE fsUser

\* A notification is delivered: first to the SDK, which tells its worker if
\* the user it names is another than before, then to every listener.
RunAuthBlock ==
    /\ main # << >> /\ Head(main).kind = "auth"
    /\ Notify(DOMAIN observers,
              IF CredentialsUser \in {NoClient, Head(main).user} THEN << >>
              ELSE <<UserTask(Head(main).user)>>)
    /\ main' = Tail(main)
    /\ UNCHANGED <<server, cache, mutations, listeners, online, budget,
                   history, managerVars, keychain, authUser, depth, signIns,
                   ousted, list, added>>

RunInitialBlock ==
    /\ main # << >> /\ Head(main).kind = "initial"
    /\ Notify({Head(main).observer}, << >>)
    /\ main' = Tail(main)
    /\ UNCHANGED <<server, cache, mutations, listeners, online, budget,
                   history, managerVars, keychain, authUser, depth, signIns,
                   ousted, list, added>>

-----------------------------------------------------------------------------
\* The callbacks of getDocuments.

Answered(kind) == /\ main # << >>
                  /\ Head(main).kind = "snapshot"
                  /\ Head(main).callback.kind = kind
                  /\ main' = Tail(main)

\* Mutant: whichever login controller is on top presents the tab bar.
RunLoadCallbackOnTop ==
    /\ Answered("load")
    /\ setLoadedTransactions(Head(main).docs)
    /\ IF OnLogin
       THEN depth' = depth + 1 /\ list' = NotLoaded
       ELSE UNCHANGED <<depth, list>>
    /\ UNCHANGED <<server, cache, mutations, fsUser, listeners, online, budget,
                   history, keychain, authUser, observers, signIns, ousted,
                   added>>

\* The loaded transactions replace the manager's, whatever is shown; the tab
\* bar appears only if the controller that asked presents nothing yet.
RunLoadCallback ==
    /\ Answered("load")
    /\ setLoadedTransactions(Head(main).docs)
    /\ IF depth = 2 * Head(main).callback.login - 1
       THEN depth' = depth + 1 /\ list' = NotLoaded
       ELSE UNCHANGED <<depth, list>>
    /\ UNCHANGED <<server, cache, mutations, fsUser, listeners, online, budget,
                   history, keychain, authUser, observers, signIns, ousted,
                   added>>

RunRemoveCallback ==
    /\ Answered("remove")
    /\ deleteFound(Head(main).docs)
    /\ UNCHANGED <<server, cache, mutations, fsUser, listeners, online, budget,
                   history, sessionVars, list, added>>

RunUpdateCallback ==
    /\ Answered("update")
    /\ updateFound(Head(main).docs, Head(main).callback.ref)
    /\ UNCHANGED <<server, cache, mutations, fsUser, listeners, online, budget,
                   history, sessionVars, list, added>>

\* Every callback only prints an error.
RunErrorCallback ==
    /\ main # << >> /\ Head(main).kind = "error"
    /\ main' = Tail(main)
    /\ UNCHANGED <<server, cache, mutations, fsUser, worker, listeners, online,
                   budget, history, managerVars, sessionVars, list, added>>

-----------------------------------------------------------------------------
\* The transactions tab.

\* viewDidLoad, when the tab is first selected.  Presenting the tab bar is
\* animated: by the time it can be touched, the main queue has run the auth
\* blocks that were in it.
OpenTable ==
    /\ OnTabs /\ list = NotLoaded
    /\ \A i \in DOMAIN main : main[i].kind # "auth"
    /\ list' = transactions
    /\ UNCHANGED <<storeVars, budget, managerVars, sessionVars, added>>

UsedKeys == {added[x].key : x \in {y \in Ids : added[y] # NotAdded}}

\* addTransactionButtonClicked; the table copies the array again when it
\* reappears.
AddTransaction ==
    /\ OnTabs /\ list # NotLoaded
    /\ \E x \in Ids, d \in DocIds \ UsedKeys, c \in NewContents :
         /\ added[x] = NotAdded
         /\ addTransactions([id |-> x, content |-> c], authUser, d)
         /\ added' = [added EXCEPT ![x] =
                        [key |-> IF authUser = Nobody THEN NoKey ELSE d,
                         user |-> authUser]]
    /\ list' = transactions'
    /\ UNCHANGED <<server, cache, mutations, fsUser, listeners, online, main,
                   budget, history, sessionVars>>

\* saveButtonClicked: the object in the row is changed in place.
SaveEdit ==
    /\ OnTabs /\ list # NotLoaded
    /\ Spend("edit")
    /\ \E row \in DOMAIN list : \E c \in EditedContents(heap[list[row]].content) :
         updatetransaction(list[row], c)
    /\ UNCHANGED <<server, cache, mutations, fsUser, listeners, online, main,
                   history, sessionVars, list, added>>

\* deleteTransactionButtonClicked, confirmed.
DeleteTransaction ==
    /\ OnTabs /\ list # NotLoaded
    /\ Spend("delete")
    /\ \E row \in DOMAIN list :
         /\ list' = Subsequence(list, DOMAIN list \ {row})
         /\ removeTransaction(heap[list[row]].id)
    /\ UNCHANGED <<server, cache, mutations, fsUser, listeners, online, main,
                   history, sessionVars, added>>

-----------------------------------------------------------------------------
UserStep == \/ \E u \in Users : SendSignIn(u)
            \/ SignOut \/ ReturnFromSignUp
            \/ OpenTable \/ AddTransaction \/ SaveEdit \/ DeleteTransaction

MainStep == \/ RunAuthBlock \/ RunInitialBlock
            \/ RunLoadCallback \/ RunRemoveCallback \/ RunUpdateCallback
            \/ RunErrorCallback

AuthStep == \/ LoadKeychain \/ RefreshToken \/ SignOutByForce
            \/ \E u \in Users : SignInAnswered(u) \/ SignInRefused(u)

\* A step of the SDK or the server leaves the program's own state alone.
Frame == UNCHANGED <<managerVars, sessionVars, list, added>>

Next == \/ UserStep
        \/ MainStep
        \/ AuthStep
        \/ Crash
        \/ Frame /\ StoreStep({Encode(c) : c \in NewContents})

Spec == Init /\ [][Next]_vars

-----------------------------------------------------------------------------
(* Fairness: the main run loop, Auth's queue and the SDK's worker queue run  *)
(* what they hold, an outage ends, and while the SDK is online the server    *)
(* answers queries and writes.  Nothing is assumed of the user, of failures  *)
(* or of the other device.                                                   *)
FairSpec ==
    /\ Spec
    /\ WF_vars(MainStep) /\ WF_vars(LoadKeychain)
    /\ WF_vars(Frame /\ (UserDidChange \/ WriteMutations \/ AddListener))
    /\ \A q \in Queries :
          WF_vars(Frame /\ (RaiseFromServer(q) \/ RaiseFromCache(q)))
    /\ WF_vars(Frame /\ (ApplySuccessfulWrite \/ RejectFailedWrite))
    /\ WF_vars(Frame /\ GoOnline)

-----------------------------------------------------------------------------
(* Types.                                                                    *)

DocState == Document \cup {Absent}

Mutation == [op : {"set"}, key : DocIds, document : Document]
       \cup [op : {"patch"}, key : DocIds, content : StoredContent]
       \cup [op : {"delete"}, key : DocIds]

\* The callbacks while n objects exist.
Callback(n) == [kind : {"load"}, login : Nat]
          \cup [kind : {"remove"}]
          \cup [kind : {"update"}, ref : 1 .. n]

Task(n) == [kind : {"user"}, user : Users \cup {Nobody}]
      \cup [kind : {"write"}, mutation : Mutation]
      \cup [kind : {"listen"}, query : Queries, callback : Callback(n)]

\* The blocks while n objects and k auth state listeners exist.
Block(n, k) == [kind : {"auth"}, user : Users \cup {Nobody}]
          \cup [kind : {"initial"}, observer : 1 .. k]
          \cup [kind : {"snapshot"}, callback : Callback(n),
                docs : [DocIds -> DocState]]
          \cup [kind : {"error"}, callback : Callback(n)]

StoreTypeOK ==
    /\ server \in [DocIds -> DocState]
    /\ cache \in [DocIds -> DocState]
    /\ mutations \in [Users \cup {Nobody} -> Seq(Mutation)]
    /\ fsUser \in Users \cup {Nobody, NoClient}
    /\ worker \in Seq(Task(Len(heap)))
    /\ listeners \in [Queries -> Seq(Callback(Len(heap)))]
    /\ online \in BOOLEAN
    /\ main \in Seq(Block(Len(heap), Len(observers)))
    /\ budget \in [Event -> Nat]
    /\ history \in [filed : SUBSET DocIds, deleted : SUBSET DocIds,
                    refused : SUBSET DocIds, gone : SUBSET DocIds]

ManagerTypeOK ==
    /\ heap \in Seq(Transaction)
    /\ transactions \in Seq(1 .. Len(heap))

SessionTypeOK ==
    /\ keychain \in Users \cup {Nobody}
    /\ authUser \in {Nobody, keychain}
    /\ observers \in Seq([login : Nat, prev : Users \cup {Nobody, Unset}])
    /\ depth \in Nat \ {0}
    /\ signIns \in [Users -> Nat]
    /\ ousted \in Users \cup {Nobody}
    /\ list \in Seq(1 .. Len(heap)) \cup {NotLoaded}
    /\ added \in [Ids -> [key : DocIds \cup {NoKey},
                          user : Users \cup {Nobody}] \cup {NotAdded}]

\* The type invariant.  A reference in an array, in a pending callback or in
\* the table always denotes an object that exists, and a block that calls an
\* auth state listener one that was added.
TypeOK == StoreTypeOK /\ ManagerTypeOK /\ SessionTypeOK

-----------------------------------------------------------------------------
(* Safety.                                                                   *)

\* Whoever sees the tabs is signed in, although every login controller ever
\* shown still listens and its loads may be answered after a logout; unless
\* Auth has signed the user out by itself, which the listeners ignore.  So
\* addTransactionsToDatabase, which leaves without a word when there is no
\* current user, drops a transaction the table goes on showing in that case
\* only.
TabsAreSignedIn == OnTabs => authUser # Nobody \/ ousted # Nobody

SetPending(d) == \E u \in Users \cup {Nobody} : \E i \in DOMAIN mutations[u] :
                    mutations[u][i].op = "set" /\ mutations[u][i].key = d

\* Once the SDK has filed the creation of a document, the document is on the
\* server or its creation is still queued on disk, through crashes, outages,
\* lost responses and changes of user, unless a deletion of it was filed or
\* the server refused it.  This is what the program relies on when
\* addTransactionsToDatabase only prints the error of addDocument.
AddedNotLost ==
    \A d \in history.filed \ (history.deleted \cup history.refused) :
        server[d] # Absent \/ SetPending(d)

\* A transaction has one document at most, the one it was created with, and
\* the document names the user who created it, whatever was edited, re-sent,
\* reloaded or rewritten by another device since: the programs looks
\* documents up by the "id" field and deletes or patches every match.
OneDocumentPerTransaction ==
    \A d \in Found(server) :
        added[server[d].id] = [key |-> d, user |-> server[d].user_id]

\* Every sign-in waits for what the one before it set off.
Patient == budget["hurry"] = Budget["hurry"]

\* A document whose deletion on this device the server has committed on behalf
\* of its owner does not come back: not by a late patch of the same
\* transaction, nor by what another user's session left behind.  When neither
\* response was heard, its creation is sent again and does bring it back; then
\* the deletion is still queued behind, for the owner the document names, unless
\* the server refuses it this time.  (A document that another device deleted can
\* come back for good.)
DeletedStaysDeleted ==
    Patient =>
        \A d \in history.gone \ history.refused : server[d] # Absent =>
            LET q == mutations[server[d].user_id]
            IN  \E i \in DOMAIN q : q[i] = Delete(d)

\* The creation of a document is filed in the queue of the user whose id it
\* carries: addTransactionsToDatabase takes the id from Auth, the SDK files
\* the write under the user it was last told of.  A sign-in that does not wait
\* may be answered with the table open, and a transaction added before the SDK
\* is told is filed under the earlier user.
FiledUnderOwner ==
    Patient => \A u \in Users \cup {Nobody} : \A i \in DOMAIN mutations[u] :
                   mutations[u][i].op = "set" => mutations[u][i].document.user_id = u

\* Nothing is under way between the screen and the server.
Quiescent == /\ worker = << >> /\ main = << >>
             /\ \A q \in Queries : listeners[q] = << >>
             /\ \A u \in Users \cup {Nobody} : mutations[u] = << >>

\* When nothing is under way, the transactions in memory are those the server
\* has for the signed-in user, with the contents a reload would show.  What can
\* set them apart is a refusal, which the program only prints, another device,
\* which it does not listen to, a sign-in that does not wait, which shows the
\* earlier user's transactions, and a second listener, whose late load takes
\* the object of an edit out of the array.
MemoryMatchesServer ==
    /\ Quiescent /\ OnTabs /\ authUser # Nobody /\ Len(observers) = 1
    /\ \A e \in {"failure", "remote", "hurry"} : budget[e] = Budget[e]
    =>
        LET mine == {d \in Found(server) : server[d].user_id = authUser}
        IN  /\ Len(transactions) = Cardinality(mine)
            /\ {[id |-> heap[transactions[i]].id,
                 content |-> Decode(Encode(heap[transactions[i]].content))] :
                   i \in DOMAIN transactions}
               = {[id |-> server[d].id, content |-> Decode(server[d].content)] :
                   d \in mine}

\* While the tabs are shown the manager holds the signed-in user's transactions
\* and no one else's, although the listeners and callbacks of earlier sessions
\* are never removed; or, when Auth has signed the user out, that user's and
\* those added since for nobody.  It rests on users who wait: a sign-in sent
\* during a load, or before another one is answered, shows the earlier user's
\* transactions to the next one.
ShowsOwnTransactions ==
    OnTabs /\ Patient =>
        \A i \in DOMAIN transactions :
            LET user == added[heap[transactions[i]].id].user
            IN  IF authUser # Nobody THEN user = authUser
                ELSE user \in {ousted, Nobody}

\* The table shows the manager's array, object for object.  viewWillAppear
\* announces one inserted row to UIKit, which refuses the update unless the
\* copied array has exactly one row more; the row index kept by the detail
\* form and the object in that row rest on it too.  It holds while there is one
\* listener and users wait: with several, or after a sign-in that does not, a
\* late load replaces the array under the table.
TableShowsManager ==
    OnTabs /\ list # NotLoaded /\ Len(observers) = 1 /\ Patient
    => list = transactions

-----------------------------------------------------------------------------
(* Liveness.                                                                 *)

RemovalRequested(x) ==
    \E i \in DOMAIN worker : worker[i] = ListenTask(ById(x), RemoveCallback)

\* A confirmed deletion reaches the server for good, unless the process ends
\* (the lookup that precedes it is kept in memory only), Auth signs the user
\* out, the user logs out (the deletion then waits for the next sign-in, or is
\* filed for nobody), or the server refuses the lookup or the deletion, which
\* the program only prints.
DeletionReachesServer ==
    \A x \in Ids, n \in 0 .. Budget["crash"] :
        RemovalRequested(x) /\ budget["crash"] = n
          ~> \/ [](\A d \in Found(server) : server[d].id # x)
             \/ budget["crash"] < n \/ ousted # Nobody
             \/ \E e \in {"signOut", "failure"} : budget[e] < Budget[e]

\* A signed-in user gets to the tab bar, after a relaunch and offline too,
\* unless Auth takes the user away again.
SignedInReachesTabs == keychain # Nobody ~> (OnTabs \/ ousted # Nobody)

\* The program comes to rest with every write delivered, as long as someone is
\* signed in: writes of a user who is not wait for the next sign-in.
ComesToRest == <>[](authUser # Nobody => Quiescent)
=============================================================================
