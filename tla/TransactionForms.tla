-------------------------- MODULE TransactionForms --------------------------
(***************************************************************************)
(* The screens of the transactions tab: the table, the add form, the       *)
(* detail form and the two pickers, on the stack of a navigation           *)
(* controller.  The user edits a text field, picks, saves, deletes, goes   *)
(* back, or has the tab loaded anew (a relaunch or another login).         *)
(*                                                                         *)
(* How an accepted change reaches the server, and when, is the subject of  *)
(* MoneyApp; here the store answers at once and forgets only what the      *)
(* conversion to documents and back forgets.                               *)
(***************************************************************************)
EXTENDS TransactionRecord, Ordering, SequencesExt

CONSTANTS Digits,     \* the digits a user may type
          Letter,     \* any other character
          MaxLength,  \* the field's maxLength in Transactions.storyboard
          MaxTyped,   \* bound: the longest string inserted at once
          MaxRows     \* bound: the number of transactions

ASSUME DigitsAssumption == Digits \subseteq 0 .. 9 /\ Letter \notin Digits
ASSUME LengthAssumption == MaxLength \in Nat \ {0} /\ MaxTyped \in Nat
                              /\ MaxRows \in Nat

VARIABLES screens,  \* the navigation stack, the screen on top last
          popup,    \* the alert over it: "none", "refused" or "delete?"
          form,     \* the fields of the add or detail form on the stack
          row,      \* the table row the detail form was opened for
          rows,     \* the contents of the table's transactions
          picked    \* auxiliary: the category last chosen for each row

formsVars == <<screens, popup, form, row, rows, picked>>

Shown(screen) == screens[Len(screens)] = screen /\ popup = "none"
OnForm == Shown("add") \/ Shown("detail")

-----------------------------------------------------------------------------
\* Numbers and their texts.

Texts(low, high) == UNION {[1 .. n -> Digits] : n \in low .. high}

\* Int(text)!
Value(text) == FoldLeft(LAMBDA v, digit : 10 * v + digit, 0, text)

\* amount.description
Description(amount) ==
    CHOOSE text \in Texts(1, MaxLength) :
        Value(text) = amount /\ (Len(text) > 1 => text[1] # 0)

\* The amounts are what the field's texts mean, and each has a description that
\* fits the field.  The date picker always has a date.
ASSUME AmountsAssumption ==
    /\ \A text \in Texts(1, MaxLength) : Value(text) \in Amounts
    /\ \A amount \in Amounts : \E text \in Texts(1, MaxLength) :
         Value(text) = amount /\ (Len(text) > 1 => text[1] # 0)
ASSUME DatesAssumption == Dates # {}

-----------------------------------------------------------------------------
\* The add form is made with type and category "None".  This is also the value
\* of form while there is none.
BlankForm(d) == [transactionType |-> "None", category |-> "None",
                 categorySelected |-> FALSE, text |-> << >>, date |-> d]
NoForm == BlankForm(CHOOSE d \in Dates : TRUE)

FormsInit ==
    /\ screens = <<"table">>
    /\ popup = "none"
    /\ form = NoForm /\ row = 0
    /\ rows = << >> /\ picked = << >>

\* The form is popped, and with it what was entered.
ShowTable == screens' = <<"table">> /\ form' = NoForm /\ row' = 0

OpenAddForm ==
    /\ Shown("table")
    /\ screens' = Append(screens, "add")
    /\ \E d \in Dates : form' = BlankForm(d)
    /\ UNCHANGED <<popup, row, rows, picked>>

\* viewDidLoad of the detail form takes its fields from the transaction.
detailFields(t) ==
    [transactionType |-> t.transactionType, category |-> t.category,
     categorySelected |-> TRUE, text |-> Description(t.amount), date |-> t.date]

OpenDetailForm ==
    /\ Shown("table")
    /\ screens' = Append(screens, "detail")
    /\ \E i \in DOMAIN rows : row' = i /\ form' = detailFields(rows[i])
    /\ UNCHANGED <<popup, rows, picked>>

\* The back button of the navigation bar.
GoBack ==
    /\ popup = "none"
    /\ \/ OnForm /\ ShowTable
       \/ /\ Shown("types") \/ Shown("categories")
          /\ screens' = Front(screens)
          /\ UNCHANGED <<form, row>>
    /\ UNCHANGED <<popup, rows, picked>>

DismissPopup ==
    /\ popup # "none"
    /\ popup' = "none"
    /\ UNCHANGED <<screens, form, row, rows, picked>>

-----------------------------------------------------------------------------
\* The fields.

\* textField(shouldChangeCharactersIn:replacementString:)
shouldChangeCharacters(string) == ToSet(string) \subseteq Digits

\* Mutant: the text is not limited.
fixNothing(text) == text

\* The editingChanged action "fix": safelyLimitedTo(maxLength).
fix(text) == SubSeq(text, 1, IF Len(text) <= MaxLength THEN Len(text)
                             ELSE MaxLength)

\* The characters after the first i, up to the j-th, are replaced by string.
TypeAmount ==
    /\ OnForm
    /\ \E i, j \in 0 .. Len(form.text) :
       \E string \in UNION {[1 .. n -> Digits \cup {Letter}] : n \in 0 .. MaxTyped} :
         /\ i <= j
         /\ shouldChangeCharacters(string)
         /\ form' = [form EXCEPT !.text =
                       fix(SubSeq(@, 1, i) \o string \o SubSeq(@, j + 1, Len(@)))]
    /\ UNCHANGED <<screens, popup, row, rows, picked>>

PickDate ==
    /\ OnForm
    /\ \E d \in Dates : form' = [form EXCEPT !.date = d]
    /\ UNCHANGED <<screens, popup, row, rows, picked>>

OpenPicker(screen) ==
    /\ OnForm
    /\ screens' = Append(screens, screen)
    /\ UNCHANGED <<popup, form, row, rows, picked>>

\* didSelectRowAt of the two pickers; both return to the form.
PickType ==
    /\ Shown("types")
    /\ \E t \in PickableTypes : form' = [form EXCEPT !.transactionType = t]
    /\ screens' = Front(screens)
    /\ UNCHANGED <<popup, row, rows, picked>>

PickCategory ==
    /\ Shown("categories")
    /\ \E c \in PickableCategories :
         form' = [form EXCEPT !.category = c, !.categorySelected = TRUE]
    /\ screens' = Front(screens)
    /\ UNCHANGED <<popup, row, rows, picked>>

-----------------------------------------------------------------------------
\* The buttons.

\* Mutant: the type is not asked for.
CheckAttributesButType == form.categorySelected /\ Len(form.text) # 0

\* CheckAttributes of the add form.
CheckAttributes == /\ form.transactionType # "None"
                   /\ form.categorySelected
                   /\ Len(form.text) # 0

\* The content the fields describe.
Entered == [transactionType |-> form.transactionType, category |-> form.category,
            amount |-> Value(form.text), date |-> form.date]

RefuseInput == /\ popup' = "refused"
               /\ UNCHANGED <<screens, form, row, rows, picked>>

addTransactionButtonClicked ==
    /\ Shown("add")
    /\ \/ ~CheckAttributes /\ RefuseInput
       \/ /\ CheckAttributes
          /\ Len(rows) < MaxRows
          /\ rows' = Append(rows, Entered)
          /\ picked' = Append(picked, form.category)
          /\ ShowTable
          /\ UNCHANGED popup

\* The detail form's CheckAttributes asks for an amount only.
saveButtonClicked ==
    /\ Shown("detail")
    /\ \/ Len(form.text) = 0 /\ RefuseInput
       \/ /\ Len(form.text) # 0
          /\ rows' = [rows EXCEPT ![row] = Entered]
          /\ picked' = IF form.category = rows[row].category THEN picked
                       ELSE [picked EXCEPT ![row] = form.category]
          /\ ShowTable
          /\ UNCHANGED popup

deleteTransactionButtonClicked ==
    /\ Shown("detail")
    /\ popup' = "delete?"
    /\ UNCHANGED <<screens, form, row, rows, picked>>

\* Mutant: the detail form stays after the deletion.
confirmDeletionAndStay ==
    /\ popup = "delete?"
    /\ rows' = Subsequence(rows, DOMAIN rows \ {row})
    /\ picked' = Subsequence(picked, DOMAIN picked \ {row})
    /\ popup' = "none"
    /\ UNCHANGED <<screens, form, row>>

\* Mutant: the rows that look like the opened one are removed.
confirmDeletionOfEqualRows ==
    LET others == {i \in DOMAIN rows : rows[i] # rows[row]}
    IN  /\ popup = "delete?"
        /\ rows' = Subsequence(rows, others)
        /\ picked' = Subsequence(picked, others)
        /\ popup' = "none"
        /\ ShowTable

\* "Yes": the row is removed, and the table is shown.
confirmDeletion ==
    /\ popup = "delete?"
    /\ rows' = Subsequence(rows, DOMAIN rows \ {row})
    /\ picked' = Subsequence(picked, DOMAIN picked \ {row})
    /\ popup' = "none"
    /\ ShowTable

-----------------------------------------------------------------------------
\* Mutant: the name of the case is stored, its description is looked for.
ReloadedByCaseName(c) == Decode([Encode(c) EXCEPT !.category =
                                   IF c.category = Nil THEN NSNull ELSE c.category])

\* A row that was stored and read again.
Reloaded(c) == Decode(Encode(c))

Book == INSTANCE TransactionBook WITH book <- rows

\* A new tab bar is made after the next login, its rows in the order of their
\* documents.
ReloadTab ==
    /\ \E p \in Book!Orders(Len(rows)) :
         /\ rows' = [i \in DOMAIN rows |-> Reloaded(rows[p[i]])]
         /\ picked' = [i \in DOMAIN rows |-> picked[p[i]]]
    /\ popup' = "none"
    /\ ShowTable

FormsNext ==
    \/ OpenAddForm \/ OpenDetailForm \/ GoBack \/ DismissPopup
    \/ TypeAmount \/ PickDate
    \/ OpenPicker("types") \/ OpenPicker("categories")
    \/ PickType \/ PickCategory
    \/ addTransactionButtonClicked \/ saveButtonClicked
    \/ deleteTransactionButtonClicked \/ confirmDeletion
    \/ ReloadTab

FormsSpec == FormsInit /\ [][FormsNext]_formsVars

-----------------------------------------------------------------------------
\* The type invariant.  The text can always be turned into an amount: neither
\* Int(text)! nor the sums of the dashboard can trap.
FormsTypeOK ==
    /\ screens \in {<<"table">>} \cup
         {<<"table", s>> : s \in {"add", "detail"}} \cup
         {<<"table", s, p>> : s \in {"add", "detail"}, p \in {"types", "categories"}}
    /\ popup \in {"none", "refused", "delete?"}
    /\ form \in [transactionType : TransactionType, category : Category \cup {Nil},
                 categorySelected : BOOLEAN, text : Texts(0, MaxLength), date : Dates]
    /\ row \in 0 .. MaxRows
    /\ rows \in Seq(Content)
    /\ picked \in Seq(Category) /\ Len(picked) = Len(rows)

\* Every row has a type the table can show, after any sequence of refused and
\* accepted entries, edits and reloads: cellForRowAt unwraps it by force.
RowsDisplayable == \A i \in DOMAIN rows : rows[i].transactionType \in ReadableTypes

\* A row shows the category that was last chosen for it, however often it was
\* edited and reloaded since, or none if that was "Other" or "None":
\* setCategory does not know these two names.
CategoryKept ==
    \A i \in DOMAIN rows :
        \/ rows[i].category = picked[i]
        \/ rows[i].category = Nil /\ picked[i] \notin ReadableCategories

\* While a detail form is on the stack its row exists: deleting removes the
\* row of the table by the index it was opened with.
DetailHasRow == Len(screens) > 1 /\ screens[2] = "detail" => row \in DOMAIN rows

\* The screens implement the book: rows change only by a complete entry, by an
\* edit of what the form was opened with, by one removal, or by a reload.
ImplementsBook == Book!BookSpec
=============================================================================
