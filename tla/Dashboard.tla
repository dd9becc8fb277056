------------------------------ MODULE Dashboard ------------------------------
(***************************************************************************)
(* The report tab: income, expense and balance of the transactions of a    *)
(* period (all time, this month, today).  The figures are calculated when  *)
(* the tab appears and when a segment is tapped, in one run of the main    *)
(* thread; but the filters read the clock anew for every transaction, and  *)
(* for a month twice, so midnight may pass anywhere in between.            *)
(*                                                                         *)
(* The transactions are the manager's.  They change on another tab only;   *)
(* a load that replaces them under a visible report is left to MoneyApp.   *)
(***************************************************************************)
EXTENDS Integers, Sequences

CONSTANTS LastDay,     \* bound: the days are 1 .. LastDay
          Calendar,    \* the month and the year of every day
          Sums,        \* the amounts of transactions
          MaxEntries   \* bound: the number of transactions

Days == 1 .. LastDay
Kinds == {"Income", "Expense"}
Segments == {"all", "month", "today"}

ASSUME CalendarAssumption ==
    /\ LastDay \in Nat \ {0}
    /\ Calendar \in [Days -> [month : 1 .. 12, year : Nat]]
    /\ \A d, e \in Days : d < e =>
          \/ Calendar[d].year < Calendar[e].year
          \/ /\ Calendar[d].year = Calendar[e].year
             /\ Calendar[d].month <= Calendar[e].month
ASSUME SumsAssumption == Sums \subseteq Nat /\ MaxEntries \in Nat

VARIABLES today,    \* what Date() returns
          entries,  \* TransactionsManager.shared.getTransactions()
          visible,  \* the report tab is shown
          segment,  \* the selected segment
          update,   \* the updateView under way: whether there is one, the
                    \* next transaction it looks at, the month it has read
                    \* for it (0: none yet) and those it has chosen
          figures,  \* what the labels show
          span      \* auxiliary: the days on which the last updateView
                    \* began and ended

dashboardVars == <<today, entries, visible, segment, update, figures, span>>

Entry == [transactionType : Kinds, amount : Sums, date : Days]

Idle == ~update.active

\* What a loop over the sequence a of numbers adds up to.
SumOf(a) ==
    LET sum[n \in 0 .. Len(a)] == IF n = 0 THEN 0 ELSE sum[n - 1] + a[n]
    IN  sum[Len(a)]

\* The sum of the amounts of one kind in the sequence s.
Contribution(kind, e) == IF e.transactionType = kind THEN e.amount ELSE 0
Total(kind, s) == SumOf([i \in DOMAIN s |-> Contribution(kind, s[i])])

-----------------------------------------------------------------------------
DashboardInit ==
    /\ today = 1
    /\ entries = << >>
    /\ visible = FALSE
    /\ segment = "all"
    /\ update = [active |-> FALSE, next |-> 1, month |-> 0, chosen |-> << >>]
    /\ figures = [income |-> 0, expense |-> 0, balance |-> 0]
    /\ span = [from |-> 1, to |-> 1]

Midnight == /\ today < LastDay
            /\ today' = today + 1
            /\ UNCHANGED <<entries, visible, segment, update, figures, span>>

\* Another tab adds, edits or removes a transaction; its date picker goes no
\* further than today.
ChangeEntries ==
    /\ ~visible
    /\ \/ \E e \in Entry : /\ e.date <= today
                           /\ Len(entries) < MaxEntries
                           /\ entries' = Append(entries, e)
       \/ \E i \in DOMAIN entries : \E e \in Entry :
             /\ e.date <= today
             /\ entries' = [entries EXCEPT ![i] = e]
       \/ /\ entries # << >>
          /\ entries' = Tail(entries)
    /\ UNCHANGED <<today, visible, segment, update, figures, span>>

\* updateView is entered.
BeginUpdate ==
    /\ update' = [active |-> TRUE, next |-> 1, month |-> 0, chosen |-> << >>]
    /\ span' = [from |-> today, to |-> today]

viewDidAppear ==
    /\ ~visible
    /\ visible' = TRUE
    /\ BeginUpdate
    /\ UNCHANGED <<today, entries, segment, figures>>

LeaveReport ==
    /\ visible /\ Idle
    /\ visible' = FALSE
    /\ UNCHANGED <<today, entries, segment, update, figures, span>>

segmentControlClicked ==
    /\ visible /\ Idle
    /\ \E s \in Segments : segment' = s
    /\ BeginUpdate
    /\ UNCHANGED <<today, entries, visible, figures>>

-----------------------------------------------------------------------------
\* updateTransactions.

Looking == update.active /\ update.next <= Len(entries)
Looked == entries[update.next]

\* The transaction looked at is kept if it matches; on to the next one.
Keep(matches) ==
    update' = [update EXCEPT !.next = @ + 1, !.month = 0,
                 !.chosen = IF matches THEN Append(@, Looked) ELSE @]

takeAll ==
    /\ segment = "all" /\ Looking
    /\ update' = [update EXCEPT !.next = Len(entries) + 1, !.chosen = entries]
    /\ UNCHANGED <<today, entries, visible, segment, figures, span>>

\* getThisMonthTransactions: the clock is read for the month ...
readCurrentMonth ==
    /\ segment = "month" /\ Looking /\ update.month = 0
    /\ update' = [update EXCEPT !.month = Calendar[today].month]
    /\ UNCHANGED <<today, entries, visible, segment, figures, span>>

\* Mutant: the year is not compared.
compareMonthOnly ==
    /\ segment = "month" /\ Looking /\ update.month # 0
    /\ Keep(Calendar[Looked.date].month = update.month)
    /\ UNCHANGED <<today, entries, visible, segment, figures, span>>

\* ... and again for the year.
readCurrentYear ==
    /\ segment = "month" /\ Looking /\ update.month # 0
    /\ Keep(/\ Calendar[Looked.date].month = update.month
            /\ Calendar[Looked.date].year = Calendar[today].year)
    /\ UNCHANGED <<today, entries, visible, segment, figures, span>>

\* getTodayTransactions: isDateInToday reads the clock.
isDateInToday ==
    /\ segment = "today" /\ Looking
    /\ Keep(Looked.date = today)
    /\ UNCHANGED <<today, entries, visible, segment, figures, span>>

\* Mutant: the sums go on from the last ones.
calculateDataOnTop ==
    LET income  == figures.income + Total("Income", update.chosen)
        expense == figures.expense + Total("Expense", update.chosen)
    IN  figures' = [income |-> income, expense |-> expense,
                    balance |-> income - expense]

calculateData ==
    LET income  == Total("Income", update.chosen)
        expense == Total("Expense", update.chosen)
    IN  figures' = [income |-> income, expense |-> expense,
                    balance |-> income - expense]

\* All transactions were looked at: the rest of updateView.
updateView ==
    /\ update.active /\ ~Looking
    /\ calculateData
    /\ update' = [update EXCEPT !.active = FALSE]
    /\ span' = [span EXCEPT !.to = today]
    /\ UNCHANGED <<today, entries, visible, segment>>

DashboardNext ==
    \/ Midnight \/ ChangeEntries
    \/ viewDidAppear \/ LeaveReport \/ segmentControlClicked
    \/ takeAll \/ readCurrentMonth \/ readCurrentYear \/ isDateInToday
    \/ updateView

DashboardSpec == DashboardInit /\ [][DashboardNext]_dashboardVars

-----------------------------------------------------------------------------
DashboardTypeOK ==
    /\ today \in Days
    /\ entries \in Seq(Entry)
    /\ visible \in BOOLEAN
    /\ segment \in Segments
    /\ update \in [active : BOOLEAN, next : 1 .. MaxEntries + 1,
                   month : 0 .. 12, chosen : Seq(Entry)]
    /\ figures \in [income : Nat, expense : Nat, balance : Int]
    /\ span \in [from : Days, to : Days]

\* What a period means, on day d.
InPeriod(e, period, d) ==
    CASE period = "all"   -> TRUE
      [] period = "month" -> Calendar[e.date] = Calendar[d]
      [] period = "today" -> e.date = d

\* The amounts of one kind in s, where what is out of the period counts nothing.
Due(kind, s, period, d) ==
    SumOf([i \in DOMAIN s |-> IF InPeriod(s[i], period, d)
                              THEN Contribution(kind, s[i]) ELSE 0])

\* A report calculated within one day shows exactly the sums of the manager's
\* transactions of the period, for as long as it is on the screen and however
\* often the segment was changed before.  (With the type invariant.)
FiguresExact ==
    /\ DashboardTypeOK
    /\ visible /\ Idle /\ span.from = span.to =>
        LET income  == Due("Income", entries, segment, span.from)
            expense == Due("Expense", entries, segment, span.from)
        IN  figures = [income |-> income, expense |-> expense,
                       balance |-> income - expense]

\* When midnight passes during the calculation, at the turn of a month or of a
\* year too, each transaction counted is of the period as it was on a day on
\* which the calculation ran: a month read before midnight and a year read
\* after it never count a transaction of neither month.
CountedInPeriod ==
    visible /\ Idle =>
        \A i \in DOMAIN update.chosen : \E d \in span.from .. span.to :
            InPeriod(update.chosen[i], segment, d)
=============================================================================
