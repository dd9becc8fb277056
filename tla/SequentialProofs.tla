-------------------------- MODULE SequentialProofs --------------------------
(***************************************************************************)
(* The parts of the program that no other thread or queue interferes with: *)
(* the screens of the transactions tab, the report tab, and a transaction  *)
(* of the SDK on its database.                                             *)
(*                                                                         *)
(* The screens of the transactions tab, for any amounts, dates, pickers,   *)
(* digits and limits: what they may show, and that they implement the book *)
(* of TransactionBook.  The detail form writes its fields over the row it  *)
(* was opened for, by index, and unlike the add form asks only for an      *)
(* amount.  What it saves is right because of how its fields came about:   *)
(* they are the row's own until they are picked, the row stays where it is *)
(* while the form is on the stack, and a confirmation is asked for only    *)
(* over that form.                                                         *)
(*                                                                         *)
(* The report tab, for any calendar, amounts and number of transactions:   *)
(* what is counted is of the period, and within one day the figures are    *)
(* exactly its sums.  The sums are those of a loop, written as a recursive *)
(* function.  That such a function exists, and what it adds up to, is      *)
(* shown by looking at the least number for which it would not hold.       *)
(*                                                                         *)
(* A database transaction, for every number of keys, all values and any    *)
(* number of changes: its iterator stays in step with the transaction it   *)
(* walks over, and the transaction implements OrderedView.                 *)
(***************************************************************************)
EXTENDS TransactionForms, Dashboard, LevelDbTransaction, OrderingProofs

FormNames == {"add", "detail"}
PickerNames == {"types", "categories"}

\* The navigation stacks with the given form.
StacksOf(f) == {<<"table", f>>} \cup {<<"table", f, p>> : p \in PickerNames}

\* What the rows promise.
RowsOK ==
    /\ rows \in Seq(Content)
    /\ picked \in Seq(Category) /\ Len(picked) = Len(rows)
    /\ Len(rows) <= MaxRows
    /\ RowsDisplayable
    /\ CategoryKept

\* The fields of the add form are blank or were picked.
AddFields ==
    screens \in StacksOf("add") =>
      /\ form.transactionType \in PickableTypes \cup {"None"}
      /\ form.categorySelected => form.category \in PickableCategories

\* The fields of the detail form are the row's or were picked.
DetailFields ==
    screens \in StacksOf("detail") =>
      /\ row \in DOMAIN rows
      /\ form.transactionType \in PickableTypes \cup {rows[row].transactionType}
      /\ form.category \in PickableCategories \cup {rows[row].category}

\* The confirmation covers the detail form.
DeletionAsked == popup = "delete?" => screens = <<"table", "detail">>

\* The inductive invariant.
FormsInv == FormsTypeOK /\ RowsOK /\ AddFields /\ DetailFields /\ DeletionAsked

-----------------------------------------------------------------------------
\* Data.

\* A text of bounded length is a sequence of digits of that length.
LEMMA TextsAreSequences ==
    ASSUME NEW low \in Nat, NEW high \in Nat, NEW text
    PROVE  text \in Texts(low, high) <=>
             text \in Seq(Digits) /\ low <= Len(text) /\ Len(text) <= high
<1>1. ASSUME text \in Texts(low, high)
      PROVE  text \in Seq(Digits) /\ low <= Len(text) /\ Len(text) <= high
  <2>1. PICK n \in low .. high : text \in [1 .. n -> Digits]
    BY <1>1 DEF Texts
  <2>2. n \in Nat /\ text \in Seq(Digits)
    BY <2>1, SeqDef
  <2>3. Len(text) = n
    BY <2>1, <2>2
  <2> QED BY <2>1, <2>2, <2>3
<1>2. ASSUME text \in Seq(Digits), low <= Len(text), Len(text) <= high
      PROVE  text \in Texts(low, high)
  <2>1. Len(text) \in low .. high /\ text \in [1 .. Len(text) -> Digits]
    BY <1>2
  <2> QED BY <2>1 DEF Texts
<1> QED BY <1>1, <1>2

\* The field's text never exceeds its limit, whatever it is given.
LEMMA FixedText ==
    ASSUME NEW text \in Seq(Digits)
    PROVE  fix(text) \in Texts(0, MaxLength)
<1> DEFINE n == IF Len(text) <= MaxLength THEN Len(text) ELSE MaxLength
<1>1. n \in Nat /\ n <= MaxLength /\ n <= Len(text) /\ MaxLength \in Nat
  BY LengthAssumption
<1>2. \A i \in 1 .. n : text[i] \in Digits
  BY <1>1
<1>3. fix(text) = SubSeq(text, 1, n)
  BY DEF fix
<1> HIDE DEF n
<1>4. SubSeq(text, 1, n) \in Seq(Digits) /\ Len(SubSeq(text, 1, n)) = n
  <2>1. /\ SubSeq(text, 1, n) \in Seq(Digits)
        /\ Len(SubSeq(text, 1, n)) = IF 1 <= n THEN n - 1 + 1 ELSE 0
    BY <1>1, <1>2, SubSeqProperties
  <2> QED BY <1>1, <2>1
<1>5. fix(text) \in Seq(Digits) /\ 0 <= Len(fix(text)) /\ Len(fix(text)) <= MaxLength
  BY <1>1, <1>3, <1>4
<1>6. MaxLength \in Nat /\ 0 \in Nat
  BY <1>1
<1> QED BY <1>5, <1>6, TextsAreSequences

\* Replacing a part of a text by digits gives a text.
LEMMA TypedText ==
    ASSUME NEW text \in Seq(Digits), NEW i \in 0 .. Len(text),
           NEW j \in 0 .. Len(text), NEW string \in Seq(Digits)
    PROVE  SubSeq(text, 1, i) \o string \o SubSeq(text, j + 1, Len(text))
             \in Seq(Digits)
<1>1. SubSeq(text, 1, i) \in Seq(Digits)
  <2>1. \A k \in 1 .. i : text[k] \in Digits
    OBVIOUS
  <2> QED BY <2>1, SubSeqProperties
<1>2. SubSeq(text, j + 1, Len(text)) \in Seq(Digits)
  <2>1. \A k \in j + 1 .. Len(text) : text[k] \in Digits
    OBVIOUS
  <2>2. j + 1 \in Int /\ Len(text) \in Int
    OBVIOUS
  <2> QED BY <2>1, <2>2, SubSeqProperties
<1>3. SubSeq(text, 1, i) \o string \in Seq(Digits)
  BY <1>1, ConcatProperties
<1> QED BY <1>2, <1>3, ConcatProperties

\* A string that the field accepts consists of digits.
LEMMA AcceptedString ==
    ASSUME NEW string \in UNION {[1 .. n -> Digits \cup {Letter}] : n \in 0 .. MaxTyped},
           shouldChangeCharacters(string)
    PROVE  string \in Seq(Digits)
<1>1. PICK n \in 0 .. MaxTyped : string \in [1 .. n -> Digits \cup {Letter}]
  OBVIOUS
<1>2. \A k \in 1 .. n : string[k] \in Digits
  BY <1>1 DEF shouldChangeCharacters, ToSet
<1>3. n \in Nat /\ string \in [1 .. n -> Digits]
  BY <1>1, <1>2, LengthAssumption
<1> QED BY <1>3, SeqDef

\* The amount of a row has a text that fits the field.
LEMMA DescriptionText ==
    ASSUME NEW amount \in Amounts
    PROVE  Description(amount) \in Texts(0, MaxLength)
<1>1. Description(amount) \in Texts(1, MaxLength)
  BY AmountsAssumption DEF Description
<1> QED BY <1>1, LengthAssumption, TextsAreSequences

\* The form that is not there has fields too.
LEMMA NoFormType ==
    NoForm \in [transactionType : TransactionType, category : Category \cup {Nil},
                categorySelected : BOOLEAN, text : Texts(0, MaxLength), date : Dates]
<1>1. (CHOOSE d \in Dates : TRUE) \in Dates
  BY DatesAssumption
<1>2. << >> \in Texts(0, MaxLength)
  <2>1. << >> \in Seq(Digits) /\ 0 <= Len(<< >>) /\ Len(<< >>) <= MaxLength
    BY EmptySeq, LengthAssumption
  <2> QED BY <2>1, LengthAssumption, TextsAreSequences
<1> QED BY <1>1, <1>2 DEF NoForm, BlankForm, TransactionType, Category

\* Storing a row and reading it back keeps a readable type, and the category or
\* nothing of it.
LEMMA ReloadedRow ==
    ASSUME NEW c \in Content, c.transactionType \in ReadableTypes
    PROVE  /\ Reloaded(c) \in Content
           /\ Reloaded(c).transactionType \in ReadableTypes
           /\ c.category \in ReadableCategories => Reloaded(c).category = c.category
           /\ c.category \notin ReadableCategories => Reloaded(c).category = Nil
<1>1. Nil \notin Category /\ Nil \notin TransactionType
  BY NilAssumption
<1>2. setTransactionType(c.transactionType) \in ReadableTypes
  BY DEF setTransactionType, TypeDescription, ReadableTypes
<1>3. c.transactionType # Nil
  BY <1>1 DEF ReadableTypes, TransactionType
<1>4. Reloaded(c).transactionType \in ReadableTypes
  BY <1>2, <1>3 DEF Reloaded, Encode, Decode, TypeDescription
<1>5. \A a, b \in Category : CategoryDescription(a) = CategoryDescription(b) => a = b
  BY DEF CategoryDescription, Category
<1>6. ReadableCategories \subseteq Category
  BY DEF ReadableCategories
<1>7. ASSUME c.category \in ReadableCategories
      PROVE  Reloaded(c).category = c.category
  <2>1. setCategory(CategoryDescription(c.category)) = c.category
    BY <1>5, <1>6, <1>7 DEF setCategory
  <2> QED BY <1>1, <1>6, <1>7, <2>1 DEF Reloaded, Encode, Decode
<1>8. ASSUME c.category \notin ReadableCategories
      PROVE  Reloaded(c).category = Nil
  <2>1. CASE c.category = Nil
    <3>1. NSNull \notin CategoryDescriptions
      BY NilAssumption
    <3>2. ~ \E d \in ReadableCategories : CategoryDescription(d) = NSNull
      BY <1>6, <3>1 DEF CategoryDescriptions
    <3> QED BY <2>1, <3>2 DEF Reloaded, Encode, Decode, setCategory
  <2>2. CASE c.category # Nil
    <3>1. c.category \in Category
      BY <2>2 DEF Content
    <3>2. ~ \E d \in ReadableCategories :
               CategoryDescription(d) = CategoryDescription(c.category)
      BY <1>5, <1>6, <1>8, <3>1
    <3> QED BY <2>2, <3>2 DEF Reloaded, Encode, Decode, setCategory
  <2> QED BY <2>1, <2>2
<1>9. Reloaded(c).category \in Category \cup {Nil}
  BY <1>6, <1>7, <1>8
<1>10. Reloaded(c).amount \in Amounts /\ Reloaded(c).date \in Dates
  BY DEF Reloaded, Encode, Decode, Content
<1>11. Reloaded(c) \in Content
  <2>1. Reloaded(c) = [transactionType |-> Reloaded(c).transactionType,
                       category |-> Reloaded(c).category,
                       amount |-> Reloaded(c).amount, date |-> Reloaded(c).date]
    BY DEF Reloaded, Decode
  <2>2. Reloaded(c).transactionType \in TransactionType
    BY <1>4 DEF ReadableTypes, TransactionType
  <2> HIDE DEF Reloaded
  <2> QED BY <1>9, <1>10, <2>1, <2>2 DEF Content
<1> QED BY <1>4, <1>7, <1>8, <1>11

-----------------------------------------------------------------------------
\* The screens.

Forms == [transactionType : TransactionType, category : Category \cup {Nil},
          categorySelected : BOOLEAN, text : Texts(0, MaxLength), date : Dates]
Stacks == {<<"table">>} \cup StacksOf("add") \cup StacksOf("detail")

\* The type invariant without the rows.
ScreensOK == screens \in Stacks /\ popup \in {"none", "refused", "delete?"}
               /\ form \in Forms /\ row \in 0 .. MaxRows

\* The type invariant is about the screens and the rows.
LEMMA TypeParts ==
    FormsTypeOK <=> /\ ScreensOK
                    /\ rows \in Seq(Content)
                    /\ picked \in Seq(Category) /\ Len(picked) = Len(rows)
<1>1. {<<"table", s>> : s \in FormNames}
        \cup {<<"table", s, p>> : s \in FormNames, p \in PickerNames}
      = StacksOf("add") \cup StacksOf("detail")
  BY DEF StacksOf, FormNames
<1> QED BY <1>1 DEF FormsTypeOK, ScreensOK, Forms, Stacks, FormNames, PickerNames

\* The screen on top determines the stack, up to the form under a picker.
LEMMA TopOfStack ==
    ASSUME screens \in Stacks
    PROVE  /\ Shown("table") => screens = <<"table">>
           /\ Shown("add") => screens = <<"table", "add">>
           /\ Shown("detail") => screens = <<"table", "detail">>
           /\ Shown("types") \/ Shown("categories") =>
                \E f \in FormNames : \E p \in PickerNames : screens = <<"table", f, p>>
<1>1. \/ screens = <<"table">>
      \/ \E f \in FormNames : screens = <<"table", f>>
      \/ \E f \in FormNames : \E p \in PickerNames : screens = <<"table", f, p>>
  BY DEF Stacks, StacksOf, FormNames
<1>2. CASE screens = <<"table">>
  <2>1. screens[Len(screens)] = "table"
    BY <1>2
  <2> QED BY <1>2, <2>1 DEF Shown
<1>3. ASSUME NEW f \in FormNames, screens = <<"table", f>>
      PROVE  screens[Len(screens)] = f
  BY <1>3
<1>4. ASSUME NEW f \in FormNames, NEW p \in PickerNames, screens = <<"table", f, p>>
      PROVE  screens[Len(screens)] = p
  BY <1>4
<1> QED BY <1>1, <1>2, <1>3, <1>4 DEF Shown, FormNames, PickerNames

\* Pushing a screen on the short stacks, and popping it.
LEMMA PushAndPop ==
    ASSUME NEW f, NEW p
    PROVE  /\ Append(<<"table">>, f) = <<"table", f>>
           /\ Append(<<"table", f>>, p) = <<"table", f, p>>
           /\ Front(<<"table", f, p>>) = <<"table", f>>
<1> DEFINE S == {"table", f, p}
<1>1. /\ <<"table">> \in Seq(S) /\ Len(<<"table">>) = 1 /\ <<"table">>[1] = "table"
      /\ <<"table", f>> \in Seq(S) /\ Len(<<"table", f>>) = 2
      /\ <<"table", f>>[1] = "table" /\ <<"table", f>>[2] = f
      /\ <<"table", f, p>> \in Seq(S) /\ Len(<<"table", f, p>>) = 3
      /\ <<"table", f, p>>[1] = "table" /\ <<"table", f, p>>[2] = f
      /\ <<"table", f, p>>[3] = p
  OBVIOUS
<1>2. f \in S /\ p \in S
  OBVIOUS
<1> HIDE DEF S
<1>3. Append(<<"table">>, f) = <<"table", f>>
  <2> DEFINE s == Append(<<"table">>, f)
             t == <<"table", f>>
  <2>1. s \in Seq(S) /\ Len(s) = 2 /\ s[1] = "table" /\ s[2] = f
    BY <1>1, <1>2, AppendProperties
  <2>2. t \in Seq(S) /\ Len(t) = 2 /\ t[1] = "table" /\ t[2] = f
    BY <1>1
  <2> HIDE DEF s, t
  <2>3. \A i \in 1 .. Len(s) : s[i] = t[i]
    BY <2>1, <2>2
  <2>4. s = t
    BY <2>1, <2>2, <2>3, SeqEqual
  <2> QED BY <2>4 DEF s, t
<1>4. Append(<<"table", f>>, p) = <<"table", f, p>>
  <2> DEFINE s == Append(<<"table", f>>, p)
             t == <<"table", f, p>>
  <2>1. s \in Seq(S) /\ Len(s) = 3 /\ s[1] = "table" /\ s[2] = f /\ s[3] = p
    BY <1>1, <1>2, AppendProperties
  <2>2. t \in Seq(S) /\ Len(t) = 3 /\ t[1] = "table" /\ t[2] = f /\ t[3] = p
    BY <1>1
  <2> HIDE DEF s, t
  <2>3. \A i \in 1 .. Len(s) : s[i] = t[i]
    BY <2>1, <2>2
  <2>4. s = t
    BY <2>1, <2>2, <2>3, SeqEqual
  <2> QED BY <2>4 DEF s, t
<1>5. Front(<<"table", f, p>>) = <<"table", f>>
  <2> DEFINE u == <<"table", f, p>>
             s == SubSeq(u, 1, 2)
             t == <<"table", f>>
  <2>1. Len(u) = 3 /\ u[1] = "table" /\ u[2] = f /\ "table" \in S
    BY <1>1 DEF S
  <2>2. t \in Seq(S) /\ Len(t) = 2 /\ t[1] = "table" /\ t[2] = f
    BY <1>1
  <2>3. Front(u) = s
    BY <2>1 DEF Front
  <2> HIDE DEF t, u
  <2>4. \A i \in 1 .. 2 : u[i] \in S
    BY <2>1, <1>2
  <2>5. s \in Seq(S) /\ Len(s) = 2 /\ s[1] = u[1] /\ s[2] = u[2]
    BY <2>4, SubSeqProperties
  <2> HIDE DEF s
  <2>6. \A i \in 1 .. Len(s) : s[i] = t[i]
    BY <2>1, <2>2, <2>5
  <2>7. s = t
    BY <2>2, <2>5, <2>6, SeqEqual
  <2> QED BY <2>3, <2>7 DEF t, u
<1> QED BY <1>3, <1>4, <1>5

\* Opening a picker and returning from it keep the form.
LEMMA PickerOverForm ==
    ASSUME NEW f \in FormNames, NEW p \in PickerNames
    PROVE  /\ Append(<<"table", f>>, p) = <<"table", f, p>>
           /\ Front(<<"table", f, p>>) = <<"table", f>>
           /\ <<"table", f>> \in Stacks /\ <<"table", f, p>> \in Stacks
           /\ \A g \in FormNames : /\ <<"table", f>> \in StacksOf(g) <=> f = g
                                   /\ <<"table", f, p>> \in StacksOf(g) <=> f = g
           /\ <<"table", f, p>> # <<"table", "detail">>
<1>1. Append(<<"table", f>>, p) = <<"table", f, p>>
  BY PushAndPop
<1>2. Front(<<"table", f, p>>) = <<"table", f>>
  BY PushAndPop
<1>3. \A g \in FormNames : /\ <<"table", f>> \in StacksOf(g) <=> f = g
                           /\ <<"table", f, p>> \in StacksOf(g) <=> f = g
  <2> TAKE g \in FormNames
  <2>1. \A q : /\ <<"table", f, p>> = <<"table", g, q>> <=> f = g /\ p = q
               /\ <<"table", f>> # <<"table", g, q>>
               /\ <<"table", f, p>> # <<"table", g>>
    OBVIOUS
  <2>2. <<"table", f>> = <<"table", g>> <=> f = g
    OBVIOUS
  <2> QED BY <2>1, <2>2 DEF StacksOf
<1>4. <<"table", f, p>> # <<"table", "detail">>
  OBVIOUS
<1>5. StacksOf(f) \subseteq Stacks
  BY DEF Stacks, FormNames
<1> QED BY <1>1, <1>2, <1>3, <1>4, <1>5

\* No form is on the stack of the table alone.
LEMMA TableAlone ==
    /\ <<"table">> \in Stacks
    /\ \A f \in FormNames : <<"table">> \notin StacksOf(f)
    /\ \A f \in FormNames : Append(<<"table">>, f) = <<"table", f>>
<1>1. \A f, q : <<"table">> # <<"table", f, q>> /\ <<"table">> # <<"table", f>>
  OBVIOUS
<1>2. \A f : Append(<<"table">>, f) = <<"table", f>>
  BY PushAndPop
<1> QED BY <1>1, <1>2 DEF Stacks, StacksOf

\* Once the table is shown again the invariant depends on the rows alone.
LEMMA TableShown ==
    ASSUME ShowTable, popup' \in {"none", "refused"}, RowsOK'
    PROVE  FormsInv'
<1>1. screens' = <<"table">> /\ form' = NoForm /\ row' = 0
  BY DEF ShowTable
<1>2. ScreensOK'
  <2>1. NoForm \in Forms
    BY NoFormType DEF Forms
  <2>2. 0 \in 0 .. MaxRows
    BY LengthAssumption
  <2> QED BY <1>1, <2>1, <2>2, TableAlone DEF ScreensOK
<1>3. FormsTypeOK'
  BY <1>2, TypeParts, PTL DEF RowsOK
<1>4. AddFields' /\ DetailFields'
  BY <1>1, TableAlone DEF AddFields, DetailFields, FormNames
<1>5. DeletionAsked'
  BY DEF DeletionAsked
<1> QED BY <1>3, <1>4, <1>5 DEF FormsInv

\* A step that leaves the rows alone.
LEMMA RowsKept ==
    ASSUME RowsOK, UNCHANGED <<rows, picked>>
    PROVE  RowsOK'
BY DEF RowsOK, RowsDisplayable, CategoryKept

-----------------------------------------------------------------------------
\* The steps.

\* The tab starts with an empty table.
LEMMA FormsInitially == FormsInit => FormsInv
<1> SUFFICES ASSUME FormsInit PROVE FormsInv
  OBVIOUS
<1>1. screens = <<"table">> /\ popup = "none" /\ form = NoForm /\ row = 0
  BY DEF FormsInit
<1>2. ScreensOK
  <2>1. NoForm \in Forms
    BY NoFormType DEF Forms
  <2>2. 0 \in 0 .. MaxRows
    BY LengthAssumption
  <2> QED BY <1>1, <2>1, <2>2, TableAlone DEF ScreensOK
<1>3. RowsOK
  <2>1. rows \in Seq(Content) /\ picked \in Seq(Category)
    BY EmptySeq DEF FormsInit
  <2>2. Len(rows) = 0 /\ Len(picked) = 0 /\ DOMAIN rows = {}
    BY DEF FormsInit
  <2> QED BY <2>1, <2>2, LengthAssumption DEF RowsOK, RowsDisplayable, CategoryKept
<1>4. FormsTypeOK
  BY <1>2, <1>3, TypeParts DEF RowsOK
<1> QED BY <1>1, <1>3, <1>4, TableAlone
        DEF FormsInv, AddFields, DetailFields, DeletionAsked, FormNames

\* The add form opens blank.
LEMMA OpenAddFormStep == FormsInv /\ OpenAddForm => FormsInv'
<1> SUFFICES ASSUME FormsInv, OpenAddForm PROVE FormsInv'
  OBVIOUS
<1>1. ScreensOK /\ RowsOK
  BY TypeParts DEF FormsInv
<1>2. RowsOK'
  BY <1>1, RowsKept DEF OpenAddForm
<1>3. screens' = <<"table", "add">> /\ <<"table", "add">> \in Stacks
  <2>1. screens = <<"table">>
    BY <1>1, TopOfStack DEF ScreensOK, OpenAddForm
  <2>2. <<"table", "add">> \in Stacks
    BY DEF Stacks, StacksOf
  <2> QED BY <2>1, <2>2, PushAndPop DEF OpenAddForm
<1>4. PICK d \in Dates : form' = BlankForm(d)
  BY DEF OpenAddForm
<1>5. BlankForm(d) \in Forms
  <2>1. << >> \in Texts(0, MaxLength)
    <3>1. << >> \in Seq(Digits) /\ 0 <= Len(<< >>) /\ Len(<< >>) <= MaxLength
      BY EmptySeq, LengthAssumption
    <3> QED BY <3>1, LengthAssumption, TextsAreSequences
  <2> QED BY <2>1 DEF BlankForm, Forms, TransactionType, Category
<1>6. popup' = popup /\ popup = "none" /\ row' = row
  BY DEF OpenAddForm, Shown
<1>7. ScreensOK'
  BY <1>1, <1>3, <1>4, <1>5, <1>6 DEF ScreensOK
<1>8. FormsTypeOK'
  BY <1>2, <1>7, TypeParts, PTL DEF RowsOK
<1>9. AddFields'
  BY <1>4 DEF AddFields, BlankForm
<1>10. DetailFields' /\ DeletionAsked'
  <2>1. <<"table", "add">> \notin StacksOf("detail")
    <3>1. \A p : /\ <<"table", "add">> # <<"table", "detail", p>>
                 /\ <<"table", "add">> # <<"table", "detail">>
      OBVIOUS
    <3> QED BY <3>1 DEF StacksOf
  <2> QED BY <1>3, <1>6, <2>1 DEF DetailFields, DeletionAsked
<1> QED BY <1>2, <1>8, <1>9, <1>10 DEF FormsInv

\* The detail form opens with the fields of a row that exists.
LEMMA OpenDetailFormStep == FormsInv /\ OpenDetailForm => FormsInv'
<1> SUFFICES ASSUME FormsInv, OpenDetailForm PROVE FormsInv'
  OBVIOUS
<1>1. ScreensOK /\ RowsOK
  BY TypeParts DEF FormsInv
<1>2. RowsOK'
  BY <1>1, RowsKept DEF OpenDetailForm
<1>3. screens' = <<"table", "detail">> /\ <<"table", "detail">> \in Stacks
  <2>1. screens = <<"table">>
    BY <1>1, TopOfStack DEF ScreensOK, OpenDetailForm
  <2>2. <<"table", "detail">> \in Stacks
    BY DEF Stacks, StacksOf
  <2> QED BY <2>1, <2>2, PushAndPop DEF OpenDetailForm
<1>4. PICK i \in DOMAIN rows : row' = i /\ form' = detailFields(rows[i])
  BY DEF OpenDetailForm
<1>5. rows[i] \in Content /\ i \in 0 .. MaxRows
  <2>1. rows \in Seq(Content) /\ Len(rows) <= MaxRows /\ MaxRows \in Nat
    BY <1>1, LengthAssumption DEF RowsOK
  <2> QED BY <2>1
<1>6. detailFields(rows[i]) \in Forms
  <2>1. rows[i].transactionType \in ReadableTypes
    BY <1>1 DEF RowsOK, RowsDisplayable
  <2>2. rows[i].transactionType \in TransactionType
    BY <2>1 DEF ReadableTypes, TransactionType
  <2>3. Description(rows[i].amount) \in Texts(0, MaxLength)
    BY <1>5, DescriptionText DEF Content
  <2> QED BY <1>5, <2>2, <2>3 DEF detailFields, Forms, Content
<1>7. popup' = popup /\ popup = "none" /\ rows' = rows
  BY DEF OpenDetailForm, Shown
<1>8. ScreensOK'
  BY <1>1, <1>3, <1>4, <1>5, <1>6, <1>7 DEF ScreensOK
<1>9. FormsTypeOK'
  BY <1>2, <1>8, TypeParts, PTL DEF RowsOK
<1>10. DetailFields'
  BY <1>4, <1>7 DEF DetailFields, detailFields
<1>11. AddFields' /\ DeletionAsked'
  <2>1. <<"table", "detail">> \notin StacksOf("add")
    <3>1. \A p : /\ <<"table", "detail">> # <<"table", "add", p>>
                 /\ <<"table", "detail">> # <<"table", "add">>
      OBVIOUS
    <3> QED BY <3>1 DEF StacksOf
  <2> QED BY <1>3, <1>7, <2>1 DEF AddFields, DeletionAsked
<1> QED BY <1>2, <1>9, <1>10, <1>11 DEF FormsInv

\* Between a form and its pickers the rows and the row stay, and the form may
\* get a picked type or category.
LEMMA PickerSteps ==
    ASSUME FormsInv, NEW f \in FormNames, NEW p \in PickerNames,
           \/ screens = <<"table", f>> /\ screens' = <<"table", f, p>>
           \/ screens = <<"table", f, p>> /\ screens' = <<"table", f>>,
           popup = "none", UNCHANGED <<popup, row, rows, picked>>,
           \/ form' = form
           \/ \E t \in PickableTypes : form' = [form EXCEPT !.transactionType = t]
           \/ \E c \in PickableCategories :
                form' = [form EXCEPT !.category = c, !.categorySelected = TRUE]
    PROVE  FormsInv'
<1>1. ScreensOK /\ RowsOK
  BY TypeParts DEF FormsInv
<1>2. RowsOK'
  BY <1>1, RowsKept
<1>3. /\ screens' \in Stacks
      /\ \A g \in FormNames : screens' \in StacksOf(g) <=> screens \in StacksOf(g)
  <2> DEFINE small(g) == <<"table", g>>
             large(g, q) == <<"table", g, q>>
  <2>1. /\ small(f) \in Stacks /\ large(f, p) \in Stacks
        /\ \A g \in FormNames : small(f) \in StacksOf(g) <=> large(f, p) \in StacksOf(g)
    BY PickerOverForm
  <2>2. \/ screens = small(f) /\ screens' = large(f, p)
        \/ screens = large(f, p) /\ screens' = small(f)
    OBVIOUS
  <2> HIDE DEF small, large
  <2> QED BY <2>1, <2>2
<1>4. /\ PickableTypes \subseteq TransactionType
      /\ PickableCategories \subseteq Category
  BY PickerAssumption DEF ReadableTypes, TransactionType
<1>5. /\ form' \in Forms
      /\ form'.transactionType \in PickableTypes \cup {form.transactionType}
      /\ form'.category \in PickableCategories \cup {form.category}
      /\ form'.categorySelected /\ ~form.categorySelected =>
           form'.category \in PickableCategories
  <2>1. form \in Forms
    BY <1>1 DEF ScreensOK
  <2>2. CASE form' = form
    BY <2>1, <2>2
  <2>3. CASE \E t \in PickableTypes : form' = [form EXCEPT !.transactionType = t]
    BY <1>4, <2>1, <2>3 DEF Forms
  <2>4. CASE \E c \in PickableCategories :
               form' = [form EXCEPT !.category = c, !.categorySelected = TRUE]
    BY <1>4, <2>1, <2>4 DEF Forms
  <2> QED BY <2>2, <2>3, <2>4
<1>6. ScreensOK'
  BY <1>1, <1>3, <1>5 DEF ScreensOK
<1>7. FormsTypeOK'
  BY <1>2, <1>6, TypeParts, PTL DEF RowsOK
<1>8. AddFields'
  BY <1>3, <1>5 DEF FormsInv, AddFields, FormNames
<1>9. DetailFields'
  BY <1>3, <1>5 DEF FormsInv, DetailFields, FormNames
<1>10. DeletionAsked'
  BY DEF DeletionAsked
<1> QED BY <1>2, <1>7, <1>8, <1>9, <1>10 DEF FormsInv


\* Typing, and choosing a date, change neither type nor category.
LEMMA FieldSteps ==
    ASSUME FormsInv, UNCHANGED <<screens, popup, row, rows, picked>>,
           \/ \E text \in Texts(0, MaxLength) : form' = [form EXCEPT !.text = text]
           \/ \E d \in Dates : form' = [form EXCEPT !.date = d]
    PROVE  FormsInv'
<1>1. ScreensOK /\ RowsOK
  BY TypeParts DEF FormsInv
<1>2. RowsOK'
  BY <1>1, RowsKept
<1>3. /\ form' \in Forms
      /\ form'.transactionType = form.transactionType
      /\ form'.category = form.category
      /\ form'.categorySelected = form.categorySelected
  BY <1>1 DEF ScreensOK, Forms
<1>4. ScreensOK'
  BY <1>1, <1>3 DEF ScreensOK
<1>5. FormsTypeOK'
  BY <1>2, <1>4, TypeParts, PTL DEF RowsOK
<1>6. AddFields' /\ DetailFields' /\ DeletionAsked'
  BY <1>3 DEF FormsInv, AddFields, DetailFields, DeletionAsked
<1> QED BY <1>2, <1>5, <1>6 DEF FormsInv

\* A step that only shows or hides an alert.
LEMMA AlertSteps ==
    ASSUME FormsInv, UNCHANGED <<screens, form, row, rows, picked>>,
           popup' \in {"none", "refused", "delete?"},
           popup' = "delete?" => screens = <<"table", "detail">>
    PROVE  FormsInv'
<1>1. ScreensOK /\ RowsOK
  BY TypeParts DEF FormsInv
<1>2. RowsOK'
  BY <1>1, RowsKept
<1>3. ScreensOK'
  BY <1>1 DEF ScreensOK
<1>4. FormsTypeOK'
  BY <1>2, <1>3, TypeParts, PTL DEF RowsOK
<1>5. AddFields' /\ DetailFields' /\ DeletionAsked'
  BY DEF FormsInv, AddFields, DetailFields, DeletionAsked
<1> QED BY <1>2, <1>4, <1>5 DEF FormsInv

\* The typed text stays within its limit.
LEMMA TypeAmountStep == FormsInv /\ TypeAmount => FormsInv'
<1> SUFFICES ASSUME FormsInv, TypeAmount PROVE FormsInv'
  OBVIOUS
<1>1. form \in Forms
  BY TypeParts DEF FormsInv, ScreensOK
<1>2. form.text \in Seq(Digits)
  <2>1. form.text \in Texts(0, MaxLength)
    BY <1>1 DEF Forms
  <2> QED BY <2>1, LengthAssumption, TextsAreSequences
<1>3. PICK i \in 0 .. Len(form.text), j \in 0 .. Len(form.text),
           string \in UNION {[1 .. n -> Digits \cup {Letter}] : n \in 0 .. MaxTyped} :
        /\ shouldChangeCharacters(string)
        /\ form' = [form EXCEPT !.text =
                      fix(SubSeq(@, 1, i) \o string \o SubSeq(@, j + 1, Len(@)))]
  BY DEF TypeAmount
<1> DEFINE text == SubSeq(form.text, 1, i) \o string
                     \o SubSeq(form.text, j + 1, Len(form.text))
<1>4. fix(text) \in Texts(0, MaxLength)
  <2>1. string \in Seq(Digits)
    BY <1>3, AcceptedString
  <2>2. text \in Seq(Digits)
    BY <1>2, <2>1, TypedText
  <2> HIDE DEF text
  <2> QED BY <2>2, FixedText
<1>5. form' = [form EXCEPT !.text = fix(text)]
  BY <1>3
<1> HIDE DEF text
<1>6. UNCHANGED <<screens, popup, row, rows, picked>>
  BY DEF TypeAmount
<1> QED BY <1>4, <1>5, <1>6, FieldSteps

\* The back button.
LEMMA GoBackStep == FormsInv /\ GoBack => FormsInv'
<1> SUFFICES ASSUME FormsInv, GoBack PROVE FormsInv'
  OBVIOUS
<1>1. ScreensOK /\ RowsOK
  BY TypeParts DEF FormsInv
<1>2. popup = "none" /\ UNCHANGED <<popup, rows, picked>>
  BY DEF GoBack
<1>3. CASE OnForm /\ ShowTable
  <2>1. RowsOK'
    BY <1>1, <1>2, RowsKept
  <2> QED BY <1>2, <1>3, <2>1, TableShown
<1>4. CASE /\ Shown("types") \/ Shown("categories")
           /\ screens' = Front(screens)
           /\ UNCHANGED <<form, row>>
  <2>1. PICK f \in FormNames, p \in PickerNames : screens = <<"table", f, p>>
    BY <1>1, <1>4, TopOfStack DEF ScreensOK
  <2>2. screens' = <<"table", f>>
    BY <1>4, <2>1, PushAndPop
  <2> QED BY <1>2, <1>4, <2>1, <2>2, PickerSteps
<1> QED BY <1>3, <1>4 DEF GoBack

\* A picker opens over either form.
LEMMA OpenPickerStep ==
    ASSUME NEW p \in PickerNames
    PROVE  FormsInv /\ OpenPicker(p) => FormsInv'
<1> SUFFICES ASSUME FormsInv, OpenPicker(p) PROVE FormsInv'
  OBVIOUS
<1>1. PICK f \in FormNames : screens = <<"table", f>>
  BY TypeParts, TopOfStack DEF FormsInv, ScreensOK, OpenPicker, OnForm, FormNames
<1>2. screens' = <<"table", f, p>>
  BY <1>1, PushAndPop DEF OpenPicker
<1>3. popup = "none" /\ form' = form /\ UNCHANGED <<popup, row, rows, picked>>
  BY DEF OpenPicker, OnForm, Shown
<1> QED BY <1>1, <1>2, <1>3, PickerSteps

\* A picked type or category goes into the form below.
LEMMA PickStep == FormsInv /\ (PickType \/ PickCategory) => FormsInv'
<1> SUFFICES ASSUME FormsInv, PickType \/ PickCategory PROVE FormsInv'
  OBVIOUS
<1>1. /\ Shown("types") \/ Shown("categories")
      /\ screens' = Front(screens)
      /\ popup = "none" /\ UNCHANGED <<popup, row, rows, picked>>
  BY DEF PickType, PickCategory, Shown
<1>2. PICK f \in FormNames, p \in PickerNames : screens = <<"table", f, p>>
  BY <1>1, TypeParts, TopOfStack DEF FormsInv, ScreensOK
<1>3. screens' = <<"table", f>>
  BY <1>1, <1>2, PushAndPop
<1>4. \/ \E t \in PickableTypes : form' = [form EXCEPT !.transactionType = t]
      \/ \E c \in PickableCategories :
           form' = [form EXCEPT !.category = c, !.categorySelected = TRUE]
  BY DEF PickType, PickCategory
<1> QED BY <1>1, <1>2, <1>3, <1>4, PickerSteps


\* The fields of a form with a text describe an amount and a date.
LEMMA EnteredFigures ==
    ASSUME form \in Forms, Len(form.text) # 0
    PROVE  Value(form.text) \in Amounts /\ form.date \in Dates
<1>1. MaxLength \in Nat /\ form.text \in Texts(0, MaxLength)
  BY LengthAssumption DEF Forms
<1>2. form.text \in Seq(Digits) /\ 1 <= Len(form.text) /\ Len(form.text) <= MaxLength
  <2>1. form.text \in Seq(Digits) /\ Len(form.text) <= MaxLength
    BY <1>1, TextsAreSequences
  <2> QED BY <2>1
<1>3. form.text \in Texts(1, MaxLength)
  BY <1>1, <1>2, TextsAreSequences
<1> QED BY <1>3, AmountsAssumption DEF Forms

\* A complete add form describes a new entry.
LEMMA EnteredNew ==
    ASSUME FormsInv, Shown("add"), CheckAttributes
    PROVE  Entered \in NewContents
<1>1. screens \in StacksOf("add") /\ form \in Forms
  BY TypeParts, TopOfStack DEF FormsInv, ScreensOK, StacksOf
<1>2. form.transactionType \in PickableTypes /\ form.category \in PickableCategories
  BY <1>1 DEF FormsInv, AddFields, CheckAttributes
<1>3. Value(form.text) \in Amounts /\ form.date \in Dates
  BY <1>1, EnteredFigures DEF CheckAttributes
<1> QED BY <1>2, <1>3 DEF Entered, NewContents

\* A detail form with an amount describes an edit of its row.
LEMMA EnteredEdit ==
    ASSUME FormsInv, Shown("detail"), Len(form.text) # 0
    PROVE  row \in DOMAIN rows /\ Entered \in EditedContents(rows[row])
<1>1. screens \in StacksOf("detail") /\ form \in Forms
  BY TypeParts, TopOfStack DEF FormsInv, ScreensOK, StacksOf
<1>2. /\ row \in DOMAIN rows
      /\ form.transactionType \in PickableTypes \cup {rows[row].transactionType}
      /\ form.category \in PickableCategories \cup {rows[row].category}
  BY <1>1 DEF FormsInv, DetailFields
<1>3. Value(form.text) \in Amounts /\ form.date \in Dates
  BY <1>1, EnteredFigures
<1> QED BY <1>2, <1>3 DEF Entered, EditedContents

\* A confirmed deletion is one of the row that the detail form was opened for.
LEMMA DeletionHasRow ==
    ASSUME FormsInv, popup = "delete?"
    PROVE  row \in DOMAIN rows
BY DEF FormsInv, DeletionAsked, DetailFields, StacksOf

\* An accepted entry is a row that can be shown.
LEMMA AddStep == FormsInv /\ addTransactionButtonClicked => FormsInv'
<1> SUFFICES ASSUME FormsInv, addTransactionButtonClicked PROVE FormsInv'
  OBVIOUS
<1>1. Shown("add") /\ popup = "none"
  BY DEF addTransactionButtonClicked, Shown
<1>2. CASE RefuseInput
  BY <1>1, <1>2, AlertSteps DEF RefuseInput
<1>3. CASE /\ CheckAttributes /\ Len(rows) < MaxRows
           /\ rows' = Append(rows, Entered)
           /\ picked' = Append(picked, form.category)
           /\ ShowTable /\ UNCHANGED popup
  <2> DEFINE n == Len(rows)
  <2>1. Entered \in NewContents
    BY <1>1, <1>3, EnteredNew
  <2>2. /\ Entered \in Content /\ Entered.transactionType \in ReadableTypes
        /\ form.category \in Category /\ Entered.category = form.category
    BY <2>1, PickerAssumption
       DEF NewContents, Content, ReadableTypes, TransactionType, Entered
  <2>3. /\ rows \in Seq(Content) /\ picked \in Seq(Category)
        /\ Len(picked) = n /\ n \in Nat
    BY DEF FormsInv, RowsOK
  <2> HIDE DEF n
  <2>4. /\ rows' \in Seq(Content) /\ Len(rows') = n + 1
        /\ \A i \in 1 .. n : rows'[i] = rows[i]
        /\ rows'[n + 1] = Entered
    <3>1. Len(rows) = n
      BY DEF n
    <3> QED BY <1>3, <2>2, <2>3, <3>1, AppendProperties
  <2>5. /\ picked' \in Seq(Category) /\ Len(picked') = n + 1
        /\ \A i \in 1 .. n : picked'[i] = picked[i]
        /\ picked'[n + 1] = form.category
    BY <1>3, <2>2, <2>3, AppendProperties
  <2>6. /\ DOMAIN rows = 1 .. n /\ DOMAIN rows' = 1 .. n + 1
        /\ \A i \in 1 .. n + 1 : i \in 1 .. n \/ i = n + 1
    BY <2>3, <2>4 DEF n
  <2>7. RowsDisplayable'
    BY <2>2, <2>4, <2>6 DEF FormsInv, RowsOK, RowsDisplayable
  <2>8. CategoryKept'
    <3>1. ASSUME NEW i \in DOMAIN rows'
          PROVE  \/ rows'[i].category = picked'[i]
                 \/ rows'[i].category = Nil /\ picked'[i] \notin ReadableCategories
      <4>1. CASE i \in 1 .. n
        BY <2>4, <2>5, <2>6, <4>1 DEF FormsInv, RowsOK, CategoryKept
      <4>2. CASE i = n + 1
        BY <2>2, <2>4, <2>5, <4>2
      <4> QED BY <2>6, <4>1, <4>2
    <3> QED BY <3>1 DEF CategoryKept
  <2>9. Len(rows') <= MaxRows
    BY <1>3, <2>3, <2>4, LengthAssumption DEF n
  <2>10. RowsOK'
    BY <2>4, <2>5, <2>7, <2>8, <2>9 DEF RowsOK
  <2> QED BY <1>1, <1>3, <2>10, TableShown
<1> QED BY <1>2, <1>3 DEF addTransactionButtonClicked

\* A saved edit keeps what was not picked anew.
LEMMA SaveStep == FormsInv /\ saveButtonClicked => FormsInv'
<1> SUFFICES ASSUME FormsInv, saveButtonClicked PROVE FormsInv'
  OBVIOUS
<1>1. Shown("detail") /\ popup = "none"
  BY DEF saveButtonClicked, Shown
<1>2. CASE RefuseInput
  BY <1>1, <1>2, AlertSteps DEF RefuseInput
<1>3. CASE /\ Len(form.text) # 0
           /\ rows' = [rows EXCEPT ![row] = Entered]
           /\ picked' = IF form.category = rows[row].category THEN picked
                        ELSE [picked EXCEPT ![row] = form.category]
           /\ ShowTable /\ UNCHANGED popup
  <2>1. row \in DOMAIN rows /\ Entered \in EditedContents(rows[row])
    BY <1>1, <1>3, EnteredEdit
  <2>2. /\ rows \in Seq(Content) /\ picked \in Seq(Category)
        /\ Len(picked) = Len(rows) /\ DOMAIN picked = DOMAIN rows
        /\ DOMAIN rows = 1 .. Len(rows)
    BY DEF FormsInv, RowsOK
  <2>3. rows[row] \in Content /\ rows[row].transactionType \in ReadableTypes
    BY <2>1, <2>2 DEF FormsInv, RowsOK, RowsDisplayable
  <2>4. /\ Entered \in Content /\ Entered.transactionType \in ReadableTypes
        /\ Entered.category = form.category
        /\ form.category # rows[row].category => form.category \in Category
    BY <2>1, <2>3, PickerAssumption
       DEF EditedContents, Content, ReadableTypes, TransactionType, Entered
  <2>5. /\ rows' \in Seq(Content) /\ Len(rows') = Len(rows)
        /\ \A i \in 1 .. Len(rows) : rows'[i] = IF i = row THEN Entered ELSE rows[i]
    BY <1>3, <2>1, <2>2, <2>4, ExceptSeq
  <2>6. /\ picked' \in Seq(Category) /\ Len(picked') = Len(rows)
        /\ \A i \in 1 .. Len(rows) :
             picked'[i] = IF i = row /\ form.category # rows[row].category
                          THEN form.category ELSE picked[i]
    <3>1. CASE form.category = rows[row].category
      BY <1>3, <2>2, <3>1
    <3>2. CASE form.category # rows[row].category
      BY <1>3, <2>1, <2>2, <2>4, <3>2, ExceptSeq
    <3> QED BY <3>1, <3>2
  <2>7. DOMAIN rows' = 1 .. Len(rows)
    BY <2>5
  <2>8. RowsDisplayable'
    BY <2>2, <2>4, <2>5, <2>7 DEF FormsInv, RowsOK, RowsDisplayable
  <2>9. CategoryKept'
    BY <2>1, <2>2, <2>4, <2>5, <2>6, <2>7 DEF FormsInv, RowsOK, CategoryKept
  <2>10. RowsOK'
    BY <2>5, <2>6, <2>8, <2>9 DEF FormsInv, RowsOK
  <2> QED BY <1>1, <1>3, <2>10, TableShown
<1> QED BY <1>2, <1>3 DEF saveButtonClicked

\* The rows that remain after a deletion are as they were.
LEMMA ConfirmStep == FormsInv /\ confirmDeletion => FormsInv'
<1> SUFFICES ASSUME FormsInv, confirmDeletion PROVE FormsInv'
  OBVIOUS
<1> DEFINE K == DOMAIN rows \ {row}
           n == Cardinality(K)
<1>1. /\ rows \in Seq(Content) /\ picked \in Seq(Category)
      /\ Len(picked) = Len(rows) /\ DOMAIN picked = DOMAIN rows
      /\ DOMAIN rows = 1 .. Len(rows) /\ Len(rows) \in Nat /\ Len(rows) <= MaxRows
  BY DEF FormsInv, RowsOK
<1>2. /\ rows' = Subsequence(rows, K) /\ picked' = Subsequence(picked, K)
      /\ ShowTable /\ popup' = "none"
  BY <1>1 DEF confirmDeletion
<1>3. K \in SUBSET DOMAIN rows /\ K \in SUBSET DOMAIN picked
  BY <1>1
<1> HIDE DEF K
<1>4. /\ rows' \in Seq(Content) /\ Len(rows') = n
      /\ \A i \in 1 .. n : rows'[i] = rows[Ascending(K)[i]]
  BY <1>1, <1>2, <1>3, SubsequenceType
<1>5. /\ picked' \in Seq(Category) /\ Len(picked') = n
      /\ \A i \in 1 .. n : picked'[i] = picked[Ascending(K)[i]]
  BY <1>1, <1>2, <1>3, SubsequenceType
<1>6. IsFiniteSet(1 .. Len(rows)) /\ Cardinality(1 .. Len(rows)) = Len(rows)
  <2>1. 1 \in Int /\ Len(rows) \in Int
    BY <1>1
  <2>2. /\ IsFiniteSet(1 .. Len(rows))
        /\ Cardinality(1 .. Len(rows)) =
             IF 1 > Len(rows) THEN 0 ELSE Len(rows) - 1 + 1
    BY <2>1, FS_Interval
  <2> QED BY <1>1, <2>2
<1>7. IsFiniteSet(K) /\ n <= Len(rows) /\ n \in Nat
  <2>1. K \in SUBSET (1 .. Len(rows))
    BY <1>1, <1>3
  <2>2. IsFiniteSet(K) /\ Cardinality(K) <= Cardinality(1 .. Len(rows))
    BY <1>6, <2>1, FS_Subset
  <2> QED BY <1>6, <2>2, FS_CardinalityType
<1>8. \A i \in 1 .. n : Ascending(K)[i] \in DOMAIN rows
  <2>1. K \in SUBSET Int
    BY <1>1, <1>3
  <2> QED BY <1>3, <1>7, <2>1, AscendingProperties
<1>9. DOMAIN rows' = 1 .. n
  BY <1>4
<1>10. RowsDisplayable'
  BY <1>4, <1>8, <1>9 DEF FormsInv, RowsOK, RowsDisplayable
<1>11. CategoryKept'
  BY <1>4, <1>5, <1>8, <1>9 DEF FormsInv, RowsOK, CategoryKept
<1>12. Len(rows') <= MaxRows
  BY <1>1, <1>4, <1>7, LengthAssumption
<1>13. RowsOK'
  BY <1>4, <1>5, <1>10, <1>11, <1>12 DEF RowsOK
<1> QED BY <1>2, <1>13, TableShown

\* A reload forgets the categories that cannot be read back, and nothing else.
LEMMA ReloadStep == FormsInv /\ ReloadTab => FormsInv'
<1> SUFFICES ASSUME FormsInv, ReloadTab PROVE FormsInv'
  OBVIOUS
<1>1. /\ rows \in Seq(Content) /\ picked \in Seq(Category)
      /\ Len(picked) = Len(rows) /\ DOMAIN picked = DOMAIN rows
      /\ DOMAIN rows = 1 .. Len(rows) /\ Len(rows) \in Nat /\ Len(rows) <= MaxRows
  BY DEF FormsInv, RowsOK
<1>2. PICK p \in Book!Orders(Len(rows)) :
        /\ rows' = [i \in DOMAIN rows |-> Reloaded(rows[p[i]])]
        /\ picked' = [i \in DOMAIN rows |-> picked[p[i]]]
  BY DEF ReloadTab
<1>3. \A i \in 1 .. Len(rows) : p[i] \in DOMAIN rows
  BY <1>1 DEF Book!Orders
<1>4. \A i \in DOMAIN rows :
        /\ Reloaded(rows[i]) \in Content
        /\ Reloaded(rows[i]).transactionType \in ReadableTypes
        /\ \/ Reloaded(rows[i]).category = picked[i]
           \/ Reloaded(rows[i]).category = Nil /\ picked[i] \notin ReadableCategories
  <2> TAKE i \in DOMAIN rows
  <2>1. rows[i] \in Content /\ rows[i].transactionType \in ReadableTypes
    BY <1>1 DEF FormsInv, RowsOK, RowsDisplayable
  <2>2. \/ rows[i].category = picked[i]
        \/ rows[i].category = Nil /\ picked[i] \notin ReadableCategories
    BY DEF FormsInv, RowsOK, CategoryKept
  <2>3. Nil \notin ReadableCategories
    BY NilAssumption DEF ReadableCategories
  <2> QED BY <2>1, <2>2, <2>3, ReloadedRow
<1>5. rows' \in Seq(Content) /\ Len(rows') = Len(rows) /\ DOMAIN rows' = DOMAIN rows
  <2>1. rows' \in [1 .. Len(rows) -> Content]
    BY <1>1, <1>2, <1>3, <1>4
  <2> QED BY <1>1, <2>1, SeqDef
<1>6. picked' \in Seq(Category) /\ Len(picked') = Len(rows)
  <2>1. picked' \in [1 .. Len(rows) -> Category]
    BY <1>1, <1>2, <1>3
  <2> QED BY <1>1, <2>1, SeqDef
<1>7. RowsDisplayable'
  BY <1>1, <1>2, <1>3, <1>4, <1>5 DEF RowsDisplayable
<1>8. CategoryKept'
  BY <1>1, <1>2, <1>3, <1>4, <1>5 DEF CategoryKept
<1>9. RowsOK'
  BY <1>1, <1>5, <1>6, <1>7, <1>8 DEF RowsOK
<1> QED BY <1>9, TableShown DEF ReloadTab


\* FormsInv is inductive.
LEMMA FormsInvStep == FormsInv /\ [FormsNext]_formsVars => FormsInv'
<1> SUFFICES ASSUME FormsInv, [FormsNext]_formsVars PROVE FormsInv'
  OBVIOUS
<1>1. CASE OpenAddForm
  BY <1>1, OpenAddFormStep
<1>2. CASE OpenDetailForm
  BY <1>2, OpenDetailFormStep
<1>3. CASE GoBack
  BY <1>3, GoBackStep
<1>4. CASE DismissPopup
  <2>1. popup' = "none" /\ UNCHANGED <<screens, form, row, rows, picked>>
    BY <1>4 DEF DismissPopup
  <2> QED BY <2>1, AlertSteps
<1>5. CASE TypeAmount
  BY <1>5, TypeAmountStep
<1>6. CASE PickDate
  BY <1>6, FieldSteps DEF PickDate
<1>7. CASE OpenPicker("types") \/ OpenPicker("categories")
  BY <1>7, OpenPickerStep DEF PickerNames
<1>8. CASE PickType \/ PickCategory
  BY <1>8, PickStep
<1>9. CASE addTransactionButtonClicked
  BY <1>9, AddStep
<1>10. CASE saveButtonClicked
  BY <1>10, SaveStep
<1>11. CASE deleteTransactionButtonClicked
  <2>1. screens = <<"table", "detail">>
    BY <1>11, TypeParts, TopOfStack
       DEF FormsInv, ScreensOK, deleteTransactionButtonClicked
  <2>2. popup' = "delete?" /\ UNCHANGED <<screens, form, row, rows, picked>>
    BY <1>11 DEF deleteTransactionButtonClicked
  <2> QED BY <2>1, <2>2, AlertSteps
<1>12. CASE confirmDeletion
  BY <1>12, ConfirmStep
<1>13. CASE ReloadTab
  BY <1>13, ReloadStep
<1>14. CASE UNCHANGED formsVars
  BY <1>14 DEF formsVars, FormsInv, FormsTypeOK, RowsOK, RowsDisplayable,
       CategoryKept, AddFields, DetailFields, DeletionAsked
<1> QED BY <1>1, <1>2, <1>3, <1>4, <1>5, <1>6, <1>7, <1>8, <1>9, <1>10, <1>11,
           <1>12, <1>13, <1>14 DEF FormsNext

\* What the invariant says of the screens and the rows.
LEMMA FormsInvAlways == FormsSpec => []FormsInv
BY FormsInitially, FormsInvStep, PTL DEF FormsSpec

-----------------------------------------------------------------------------
\* The results.

\* The text of the form can always be turned into an amount, so Int(text)!
\* does not trap, whatever is typed, cut off and refused.
THEOREM FormsTyped == FormsSpec => []FormsTypeOK
<1>1. FormsInv => FormsTypeOK
  BY DEF FormsInv
<1> QED BY <1>1, FormsInvAlways, PTL

\* Every row has a type that the table can show: cellForRowAt unwraps it.
THEOREM TypesDisplayed == FormsSpec => []RowsDisplayable
<1>1. FormsInv => RowsDisplayable
  BY DEF FormsInv, RowsOK
<1> QED BY <1>1, FormsInvAlways, PTL

\* A row shows the category last chosen for it, or none if setCategory does not
\* know its name, however often it is edited and reloaded.
THEOREM CategoriesKept == FormsSpec => []CategoryKept
<1>1. FormsInv => CategoryKept
  BY DEF FormsInv, RowsOK
<1> QED BY <1>1, FormsInvAlways, PTL

\* The detail form saves and deletes by an index that is one of the table's.
THEOREM DetailInTable == FormsSpec => []DetailHasRow
<1>1. FormsInv => DetailHasRow
  <2> SUFFICES ASSUME FormsInv, Len(screens) > 1, screens[2] = "detail"
               PROVE  row \in DOMAIN rows
    BY DEF DetailHasRow
  <2>1. screens \in Stacks
    BY TypeParts DEF FormsInv, ScreensOK
  <2>2. screens \in StacksOf("detail")
    <3>1. screens # <<"table">>
      OBVIOUS
    <3>2. screens \notin StacksOf("add")
      BY DEF StacksOf
    <3> QED BY <2>1, <3>1, <3>2 DEF Stacks
  <2> QED BY <2>2 DEF FormsInv, DetailFields
<1> QED BY <1>1, FormsInvAlways, PTL

\* The book's operators are those of the screens.
LEMMA BookOperators ==
    /\ \A c : Book!Decode(Book!Encode(c)) = Decode(Encode(c))
    /\ \A s, K : Book!Subsequence(s, K) = Subsequence(s, K)
<1>1. ASSUME NEW c
      PROVE  Book!Decode(Book!Encode(c)) = Decode(Encode(c))
  BY DEF Book!Decode, Book!Encode, Decode, Encode, Book!setCategory, setCategory,
     Book!setTransactionType, setTransactionType, Book!TypeDescription,
     TypeDescription, Book!CategoryDescription, CategoryDescription,
     Book!ReadableTypes, ReadableTypes, Book!ReadableCategories, ReadableCategories,
     Book!Category, Category
<1>2. \A S : Book!Cardinality(S) = Cardinality(S)
  BY DEF Book!Cardinality, Cardinality
<1>3. \A K, k : Book!Rank(K, k) = Rank(K, k)
  BY <1>2 DEF Book!Rank, Rank
<1>4. \A K : Book!Ascending(K) = Ascending(K)
  BY <1>2, <1>3 DEF Book!Ascending, Ascending
<1>5. \A s, K : Book!Subsequence(s, K) = Subsequence(s, K)
  BY <1>2, <1>4 DEF Book!Subsequence, Subsequence
<1> QED BY <1>1, <1>5

\* Every step of the screens is a step of the book or leaves it alone: rows
\* change only by a complete entry, by an edit of what the form was opened with,
\* by the removal of one row, or by a reload.
LEMMA StepsOfBook ==
    FormsInv /\ [FormsNext]_formsVars => [Book!BookNext]_rows
<1> SUFFICES ASSUME FormsInv, [FormsNext]_formsVars
             PROVE  Book!BookNext \/ rows' = rows
  OBVIOUS
<1>1. CASE addTransactionButtonClicked
  <2>1. CASE CheckAttributes /\ rows' = Append(rows, Entered)
    <3>1. Entered \in NewContents
      BY <1>1, <2>1, EnteredNew DEF addTransactionButtonClicked
    <3>2. Book!AddEntry
      BY <2>1, <3>1 DEF Book!AddEntry, Book!NewContents, NewContents
    <3> QED BY <3>2 DEF Book!BookNext
  <2>2. CASE rows' = rows
    BY <2>2
  <2> QED BY <1>1, <2>1, <2>2 DEF addTransactionButtonClicked, RefuseInput
<1>2. CASE saveButtonClicked
  <2>1. CASE Len(form.text) # 0 /\ rows' = [rows EXCEPT ![row] = Entered]
    <3>1. row \in DOMAIN rows /\ Entered \in EditedContents(rows[row])
      BY <1>2, <2>1, EnteredEdit DEF saveButtonClicked
    <3>2. Book!EditEntry
      BY <2>1, <3>1 DEF Book!EditEntry, Book!EditedContents, EditedContents
    <3> QED BY <3>2 DEF Book!BookNext
  <2>2. CASE rows' = rows
    BY <2>2
  <2> QED BY <1>2, <2>1, <2>2 DEF saveButtonClicked, RefuseInput
<1>3. CASE confirmDeletion
  <2>1. row \in DOMAIN rows
    BY <1>3, DeletionHasRow DEF confirmDeletion
  <2>2. rows' = Subsequence(rows, DOMAIN rows \ {row})
    BY <1>3 DEF confirmDeletion
  <2>3. Book!RemoveEntry
    BY <2>1, <2>2, BookOperators DEF Book!RemoveEntry
  <2> QED BY <2>3 DEF Book!BookNext
<1>4. CASE ReloadTab
  <2>1. rows \in Seq(Content)
    BY DEF FormsInv, RowsOK
  <2>2. PICK p \in Book!Orders(Len(rows)) :
          rows' = [i \in DOMAIN rows |-> Reloaded(rows[p[i]])]
    BY <1>4 DEF ReloadTab
  <2>3. DOMAIN rows = 1 .. Len(rows)
    BY <2>1
  <2>4. rows' = [i \in 1 .. Len(rows) |-> Decode(Encode(rows[p[i]]))]
    BY <2>2, <2>3 DEF Reloaded
  <2>5. Book!ReloadBook
    BY <2>4, BookOperators DEF Book!ReloadBook
  <2> QED BY <2>5 DEF Book!BookNext
<1>5. CASE UNCHANGED rows
  BY <1>5
<1>6. ASSUME \/ OpenAddForm \/ OpenDetailForm \/ GoBack \/ DismissPopup
             \/ TypeAmount \/ PickDate
             \/ OpenPicker("types") \/ OpenPicker("categories")
             \/ PickType \/ PickCategory
             \/ deleteTransactionButtonClicked \/ UNCHANGED formsVars
      PROVE  UNCHANGED rows
  BY <1>6 DEF OpenAddForm, OpenDetailForm, GoBack, DismissPopup, TypeAmount,
       PickDate, OpenPicker, PickType, PickCategory,
       deleteTransactionButtonClicked, formsVars
<1> QED BY <1>1, <1>2, <1>3, <1>4, <1>5, <1>6 DEF FormsNext

\* The screens implement the book.
THEOREM BookImplemented == FormsSpec => ImplementsBook
<1>1. FormsInit => Book!BookInit
  BY DEF FormsInit, Book!BookInit
<1> QED BY <1>1, StepsOfBook, FormsInvAlways, PTL
        DEF FormsSpec, ImplementsBook, Book!BookSpec

-----------------------------------------------------------------------------
\* The report.

\* The sums of the first n numbers of a, for all n up to m.
Running(a, m, g) ==
    /\ g \in [0 .. m -> Nat]
    /\ g[0] = 0
    /\ \A n \in 1 .. m : g[n] = g[n - 1] + a[n]

-----------------------------------------------------------------------------
\* Loops over a sequence.

\* The running sums of a sequence of numbers exist.
LEMMA RunningExists ==
    ASSUME NEW m \in Nat, NEW a, \A n \in 1 .. m : a[n] \in Nat
    PROVE  \E g : Running(a, m, g)
<1> DEFINE P == {n \in 0 .. m : \E g : Running(a, n, g)}
<1>1. 0 \in P
  <2> DEFINE g == [n \in 0 .. 0 |-> 0]
  <2>1. Running(a, 0, g)
    BY DEF Running
  <2> QED BY <2>1
<1>2. ASSUME NEW n \in 1 .. m, n - 1 \in P
      PROVE  n \in P
  <2>1. PICK g : Running(a, n - 1, g)
    BY <1>2
  <2> DEFINE h == [k \in 0 .. n |-> IF k = n THEN g[n - 1] + a[n] ELSE g[k]]
  <2>2. n \in Int /\ n - 1 \in 0 .. n - 1 /\ a[n] \in Nat
    OBVIOUS
  <2>3. h \in [0 .. n -> Nat]
    <3>1. ASSUME NEW k \in 0 .. n
          PROVE  h[k] \in Nat
      <4>1. CASE k = n
        BY <2>1, <2>2, <4>1 DEF Running
      <4>2. CASE k # n
        BY <2>1, <2>2, <4>2 DEF Running
      <4> QED BY <4>1, <4>2
    <3> QED BY <3>1
  <2>4. h[0] = 0
    BY <2>1, <2>2 DEF Running
  <2>5. ASSUME NEW k \in 1 .. n
        PROVE  h[k] = h[k - 1] + a[k]
    <3>1. CASE k = n
      BY <2>2, <3>1
    <3>2. CASE k # n
      BY <2>1, <2>2, <3>2 DEF Running
    <3> QED BY <3>1, <3>2
  <2>6. Running(a, n, h)
    BY <2>3, <2>4, <2>5 DEF Running
  <2> QED BY <2>6
<1>3. \A n \in 0 .. m : n \in P
  <2> HIDE DEF P
  <2> QED BY <1>1, <1>2, LeastOutside
<1>4. m \in P
  BY <1>3
<1> QED BY <1>4

\* The sum of a sequence is the last of its running sums.
LEMMA SumIsRunning ==
    ASSUME NEW a, Len(a) \in Nat, \A n \in 1 .. Len(a) : a[n] \in Nat
    PROVE  \E g : Running(a, Len(a), g) /\ SumOf(a) = g[Len(a)]
<1> DEFINE m == Len(a)
           Rec(g) == g = [n \in 0 .. m |-> IF n = 0 THEN 0 ELSE g[n - 1] + a[n]]
           f == CHOOSE g : Rec(g)
<1>1. PICK g : Running(a, m, g)
  BY RunningExists
<1>2. Rec(g)
  BY <1>1 DEF Running
<1>3. Rec(f)
  BY <1>2
<1>4. SumOf(a) = f[m]
  BY DEF SumOf
<1> HIDE DEF f
<1>5. f[0] = 0 /\ \A n \in 1 .. m : f[n] = f[n - 1] + a[n]
  BY <1>3
<1>6. \A n \in 0 .. m : f[n] \in Nat
  <2> DEFINE P == {n \in 0 .. m : f[n] \in Nat}
  <2>1. 0 \in P
    BY <1>5
  <2>2. \A n \in 1 .. m : n - 1 \in P => n \in P
    BY <1>5
  <2>3. \A n \in 0 .. m : n \in P
    <3> HIDE DEF P
    <3> QED BY <2>1, <2>2, LeastOutside
  <2> QED BY <2>3
<1>7. f \in [0 .. m -> Nat]
  <2>1. f = [n \in 0 .. m |-> f[n]]
    BY <1>3
  <2> QED BY <1>6, <2>1
<1>8. Running(a, m, f)
  BY <1>5, <1>7 DEF Running
<1> QED BY <1>4, <1>8

\* Running sums are determined by the numbers.
LEMMA RunningUnique ==
    ASSUME NEW m \in Nat, NEW a, NEW b, NEW g, NEW h, Running(a, m, g),
           Running(b, m, h), \A n \in 1 .. m : a[n] = b[n]
    PROVE  g[m] = h[m]
<1> DEFINE P == {n \in 0 .. m : g[n] = h[n]}
<1>1. 0 \in P
  BY DEF Running
<1>2. \A n \in 1 .. m : n - 1 \in P => n \in P
  BY DEF Running
<1>3. \A n \in 0 .. m : n \in P
  <2> HIDE DEF P
  <2> QED BY <1>1, <1>2, LeastOutside
<1> QED BY <1>3

\* The sum of no numbers is 0, and one more number adds itself.
LEMMA SumOfSteps ==
    ASSUME NEW a \in Seq(Nat)
    PROVE  /\ SumOf(a) \in Nat
           /\ Len(a) = 0 => SumOf(a) = 0
           /\ \A b \in Seq(Nat) :
                /\ Len(b) = Len(a) + 1
                /\ \A n \in 1 .. Len(a) : b[n] = a[n]
                => SumOf(b) = SumOf(a) + b[Len(b)]
<1> DEFINE m == Len(a)
<1>1. m \in Nat /\ \A n \in 1 .. m : a[n] \in Nat
  OBVIOUS
<1>2. PICK g : Running(a, m, g) /\ SumOf(a) = g[m]
  BY <1>1, SumIsRunning
<1>3. SumOf(a) \in Nat /\ (m = 0 => SumOf(a) = 0)
  BY <1>1, <1>2 DEF Running
<1>4. ASSUME NEW b \in Seq(Nat), Len(b) = m + 1, \A n \in 1 .. m : b[n] = a[n]
      PROVE  SumOf(b) = SumOf(a) + b[Len(b)]
  <2> DEFINE l == Len(b)
  <2>1. l \in Nat /\ l = m + 1 /\ \A n \in 1 .. l : b[n] \in Nat
    BY <1>4
  <2>2. PICK h : Running(b, l, h) /\ SumOf(b) = h[l]
    BY <2>1, SumIsRunning
  <2> HIDE DEF m, l
  <2>3. h[l] = h[m] + b[l]
    BY <1>1, <2>1, <2>2 DEF Running
  <2> DEFINE k == [n \in 0 .. m |-> h[n]]
  <2>4. Running(b, m, k)
    BY <1>1, <2>1, <2>2 DEF Running
  <2>5. k[m] = g[m]
    <3> HIDE DEF k
    <3> QED BY <1>1, <1>2, <1>4, <2>4, RunningUnique
  <2>6. k[m] = h[m]
    BY <1>1
  <2> QED BY <1>2, <2>2, <2>3, <2>5, <2>6 DEF l
<1> QED BY <1>3, <1>4

-----------------------------------------------------------------------------
\* The report.

\* The transactions: no more than the bound, and none of tomorrow.
EntriesPast ==
    /\ Len(entries) <= MaxEntries
    /\ \A i \in DOMAIN entries : entries[i].date <= today

\* The calculation under way: it runs while the report is shown, and the month
\* it has read is that of a day since it began.
UpdateUnderWay ==
    /\ span.from <= today
    /\ update.active => /\ visible
                        /\ update.next <= Len(entries) + 1
                        /\ update.month # 0 => \E d \in span.from .. today :
                                                  Calendar[d].month = update.month

\* The last day that a calculation has seen.
Seen == IF update.active THEN today ELSE span.to

\* What was chosen is of the period on a day of the calculation.
ChosenInPeriod ==
    \A i \in DOMAIN update.chosen : \E d \in span.from .. Seen :
        InPeriod(update.chosen[i], segment, d)

\* What is due of the first n transactions.
DueSoFar(kind, s, period, d, n) ==
    SumOf([i \in 1 .. n |-> IF InPeriod(s[i], period, d)
                            THEN Contribution(kind, s[i]) ELSE 0])

\* Until midnight passes, what was chosen adds up to what is due so far.
ChosenDue ==
    update.active /\ span.from = today =>
        \A kind \in Kinds :
            Total(kind, update.chosen) =
              DueSoFar(kind, entries, segment, today, update.next - 1)

\* The inductive invariant.
DashboardInv == /\ EntriesPast /\ UpdateUnderWay /\ ChosenInPeriod /\ ChosenDue
                /\ FiguresExact

\* One more number that is added to both of two sums.
LEMMA TotalSteps ==
    ASSUME NEW kind \in Kinds, NEW s \in Seq(Entry)
    PROVE  /\ Total(kind, s) \in Nat
           /\ Len(s) = 0 => Total(kind, s) = 0
           /\ \A e \in Entry :
                Total(kind, Append(s, e)) = Total(kind, s) + Contribution(kind, e)
<1> DEFINE Terms(t) == [i \in DOMAIN t |-> Contribution(kind, t[i])]
<1>1. \A e \in Entry : Contribution(kind, e) \in Nat
  BY SumsAssumption DEF Entry, Contribution
<1>2. ASSUME NEW t \in Seq(Entry)
      PROVE  /\ Terms(t) \in Seq(Nat) /\ Len(Terms(t)) = Len(t)
             /\ \A i \in 1 .. Len(t) : Terms(t)[i] = Contribution(kind, t[i])
  <2>1. DOMAIN t = 1 .. Len(t) /\ Len(t) \in Nat /\ \A i \in 1 .. Len(t) : t[i] \in Entry
    OBVIOUS
  <2>2. Terms(t) \in [1 .. Len(t) -> Nat]
    BY <1>1, <2>1
  <2>3. Terms(t) \in Seq(Nat)
    BY <2>1, <2>2, SeqDef
  <2> QED BY <2>1, <2>2, <2>3
<1>3. ASSUME NEW e \in Entry
      PROVE  Total(kind, Append(s, e)) = Total(kind, s) + Contribution(kind, e)
  <2> DEFINE t == Append(s, e)
  <2>1. t \in Seq(Entry) /\ Len(t) = Len(s) + 1 /\ t[Len(s) + 1] = e
        /\ \A i \in 1 .. Len(s) : t[i] = s[i]
    BY AppendProperties
  <2> HIDE DEF t
  <2>2. /\ Terms(s) \in Seq(Nat) /\ Len(Terms(s)) = Len(s) /\ Len(s) \in Nat
        /\ Terms(t) \in Seq(Nat) /\ Len(Terms(t)) = Len(s) + 1
        /\ \A i \in 1 .. Len(s) : Terms(t)[i] = Terms(s)[i]
        /\ Terms(t)[Len(s) + 1] = Contribution(kind, e)
    <3>1. /\ \A i \in 1 .. Len(s) : Terms(s)[i] = Contribution(kind, s[i])
          /\ \A i \in 1 .. Len(t) : Terms(t)[i] = Contribution(kind, t[i])
          /\ Terms(s) \in Seq(Nat) /\ Len(Terms(s)) = Len(s)
          /\ Terms(t) \in Seq(Nat) /\ Len(Terms(t)) = Len(t)
      BY <1>2, <2>1
    <3> HIDE DEF Terms
    <3> QED BY <2>1, <3>1
  <2> HIDE DEF Terms
  <2>3. SumOf(Terms(t)) = SumOf(Terms(s)) + Contribution(kind, e)
    BY <2>2, SumOfSteps
  <2> QED BY <2>3 DEF Total, Terms, t
<1>4. Terms(s) \in Seq(Nat) /\ Len(Terms(s)) = Len(s)
  BY <1>2
<1> HIDE DEF Terms
<1>5. SumOf(Terms(s)) \in Nat /\ (Len(s) = 0 => SumOf(Terms(s)) = 0)
  BY <1>4, SumOfSteps
<1>6. Total(kind, s) = SumOf(Terms(s))
  BY DEF Total, Terms
<1> QED BY <1>3, <1>5, <1>6

\* What is due grows by the next transaction if it is of the period.
LEMMA DueSteps ==
    ASSUME NEW kind \in Kinds, NEW s \in Seq(Entry), NEW period, NEW d, NEW n \in Nat
    PROVE  /\ n = 0 => DueSoFar(kind, s, period, d, n) = 0
           /\ n + 1 <= Len(s) =>
                DueSoFar(kind, s, period, d, n + 1) =
                  DueSoFar(kind, s, period, d, n) + IF InPeriod(s[n + 1], period, d)
                                    THEN Contribution(kind, s[n + 1]) ELSE 0
<1> DEFINE Term(i) == IF InPeriod(s[i], period, d) THEN Contribution(kind, s[i]) ELSE 0
           Terms(k) == [i \in 1 .. k |-> Term(i)]
<1>1. \A i \in 1 .. Len(s) : Term(i) \in Nat
  <2>1. \A i \in 1 .. Len(s) : s[i] \in Entry
    OBVIOUS
  <2> QED BY <2>1, SumsAssumption DEF Entry, Contribution
<1>2. \A k : DueSoFar(kind, s, period, d, k) = SumOf(Terms(k))
  BY DEF DueSoFar
<1> HIDE DEF Term
<1>3. ASSUME NEW k \in Nat, k <= Len(s)
      PROVE  Terms(k) \in Seq(Nat) /\ Len(Terms(k)) = k
             /\ \A i \in 1 .. k : Terms(k)[i] = Term(i)
  <2>1. Terms(k) \in [1 .. k -> Nat]
    <3>1. Len(s) \in Nat
      OBVIOUS
    <3> QED BY <1>1, <1>3, <3>1
  <2>2. Terms(k) \in Seq(Nat)
    BY <2>1, SeqDef
  <2> QED BY <2>1, <2>2
<1> HIDE DEF Terms
<1>4. ASSUME n = 0
      PROVE  DueSoFar(kind, s, period, d, n) = 0
  <2>1. 0 <= Len(s)
    OBVIOUS
  <2>2. Terms(0) \in Seq(Nat) /\ Len(Terms(0)) = 0
    BY <1>3, <2>1
  <2> QED BY <1>2, <1>4, <2>2, SumOfSteps
<1>5. ASSUME n + 1 <= Len(s)
      PROVE  DueSoFar(kind, s, period, d, n + 1) = DueSoFar(kind, s, period, d, n) + Term(n + 1)
  <2>1. n <= Len(s) /\ n + 1 \in Nat
    BY <1>5
  <2>2. /\ Terms(n) \in Seq(Nat) /\ Len(Terms(n)) = n
        /\ Terms(n + 1) \in Seq(Nat) /\ Len(Terms(n + 1)) = n + 1
        /\ \A i \in 1 .. n : Terms(n + 1)[i] = Terms(n)[i]
        /\ Terms(n + 1)[n + 1] = Term(n + 1)
    <3>1. /\ Terms(n) \in Seq(Nat) /\ Len(Terms(n)) = n
          /\ \A i \in 1 .. n : Terms(n)[i] = Term(i)
      BY <1>3, <2>1
    <3>2. /\ Terms(n + 1) \in Seq(Nat) /\ Len(Terms(n + 1)) = n + 1
          /\ \A i \in 1 .. n + 1 : Terms(n + 1)[i] = Term(i)
      BY <1>3, <1>5, <2>1
    <3> QED BY <2>1, <3>1, <3>2
  <2>3. SumOf(Terms(n + 1)) = SumOf(Terms(n)) + Term(n + 1)
    BY <2>2, SumOfSteps
  <2> QED BY <1>2, <2>3
<1> QED BY <1>4, <1>5 DEF Term

\* In the end it is what is due of all of them.
LEMMA AllLooked ==
    ASSUME NEW kind \in Kinds, NEW s \in Seq(Entry), NEW period, NEW d
    PROVE  DueSoFar(kind, s, period, d, Len(s)) = Due(kind, s, period, d)
<1>1. DOMAIN s = 1 .. Len(s)
  OBVIOUS
<1> QED BY <1>1 DEF DueSoFar, Due

\* In the period of all time everything is due.
LEMMA AllIsDue ==
    ASSUME NEW kind \in Kinds, NEW s \in Seq(Entry), NEW d
    PROVE  Total(kind, s) = DueSoFar(kind, s, "all", d, Len(s))
<1>1. DOMAIN s = 1 .. Len(s)
  OBVIOUS
<1>2. \A i : InPeriod(s[i], "all", d)
  BY DEF InPeriod
<1>3. [i \in DOMAIN s |-> Contribution(kind, s[i])]
      = [i \in 1 .. Len(s) |-> IF InPeriod(s[i], "all", d)
                                     THEN Contribution(kind, s[i]) ELSE 0]
  BY <1>1, <1>2
<1> QED BY <1>3 DEF Total, DueSoFar

-----------------------------------------------------------------------------
\* The steps.

\* At first nothing is shown.
LEMMA DashboardInitially == DashboardInit => DashboardInv
<1> SUFFICES ASSUME DashboardInit PROVE DashboardInv
  OBVIOUS
<1>1. /\ today = 1 /\ entries = << >> /\ visible = FALSE /\ segment = "all"
      /\ update = [active |-> FALSE, next |-> 1, month |-> 0, chosen |-> << >>]
      /\ figures = [income |-> 0, expense |-> 0, balance |-> 0]
      /\ span = [from |-> 1, to |-> 1]
  BY DEF DashboardInit
<1>2. /\ << >> \in Seq(Entry) /\ Len(<< >>) = 0 /\ DOMAIN << >> = {}
      /\ 1 \in Days /\ 1 \in 1 .. MaxEntries + 1
  BY EmptySeq, CalendarAssumption, SumsAssumption DEF Days
<1>3. DashboardTypeOK
  <2>1. today \in Days /\ entries \in Seq(Entry) /\ visible \in BOOLEAN /\ segment \in Segments
    BY <1>1, <1>2 DEF Segments
  <2>2. update \in [active : BOOLEAN, next : 1 .. MaxEntries + 1,
                    month : 0 .. 12, chosen : Seq(Entry)]
    BY <1>1, <1>2
  <2>3. figures \in [income : Nat, expense : Nat, balance : Int]
        /\ span \in [from : Days, to : Days]
    BY <1>1, <1>2
  <2> QED BY <2>1, <2>2, <2>3 DEF DashboardTypeOK
<1>4. EntriesPast /\ UpdateUnderWay /\ ChosenInPeriod /\ ChosenDue
  BY <1>1, <1>2, SumsAssumption
     DEF EntriesPast, UpdateUnderWay, ChosenInPeriod, ChosenDue
<1>5. FiguresExact
  BY <1>1, <1>3 DEF FiguresExact
<1> QED BY <1>4, <1>5 DEF DashboardInv

\* Midnight ends the day of a calculation under way.
LEMMA MidnightStep == DashboardInv /\ Midnight => DashboardInv'
<1> SUFFICES ASSUME DashboardInv, Midnight PROVE DashboardInv'
  OBVIOUS
<1>1. /\ today < LastDay /\ today' = today + 1
      /\ UNCHANGED <<entries, visible, segment, update, figures, span>>
  BY DEF Midnight
<1>2. DashboardTypeOK
  BY DEF DashboardInv, FiguresExact
<1>3. today \in Nat /\ LastDay \in Nat /\ span.from \in Nat /\ span.to \in Nat
  BY <1>2, CalendarAssumption DEF DashboardTypeOK, Days
<1>4. DashboardTypeOK'
  BY <1>1, <1>2, <1>3 DEF DashboardTypeOK, Days
<1>5. EntriesPast'
  <2>1. \A i \in DOMAIN entries : entries[i].date \in Nat
    <3>1. entries \in Seq(Entry)
      BY <1>2 DEF DashboardTypeOK
    <3>2. \A e \in Entry : e.date \in Nat
      BY CalendarAssumption DEF Entry, Days
    <3> QED BY <3>1, <3>2
  <2> QED BY <1>1, <1>3, <2>1 DEF DashboardInv, EntriesPast
<1>6. span.from .. today \subseteq span.from .. today'
  BY <1>1, <1>3
<1>7. UpdateUnderWay'
  BY <1>1, <1>3, <1>6 DEF DashboardInv, UpdateUnderWay
<1>8. ChosenInPeriod'
  <2>1. span.from .. Seen \subseteq span'.from .. Seen'
    BY <1>1, <1>6 DEF Seen
  <2> QED BY <1>1, <2>1 DEF DashboardInv, ChosenInPeriod, InPeriod
<1>9. ChosenDue'
  BY <1>1, <1>3 DEF DashboardInv, ChosenDue, UpdateUnderWay
<1>10. FiguresExact'
  BY <1>1, <1>4 DEF DashboardInv, FiguresExact, Idle, Due, InPeriod
<1> QED BY <1>5, <1>7, <1>8, <1>9, <1>10 DEF DashboardInv

\* The transactions change while nothing is calculated or shown.
LEMMA ChangeStep == DashboardInv /\ ChangeEntries => DashboardInv'
<1> SUFFICES ASSUME DashboardInv, ChangeEntries PROVE DashboardInv'
  OBVIOUS
<1>1. ~visible /\ UNCHANGED <<today, visible, segment, update, figures, span>>
  BY DEF ChangeEntries
<1>2. DashboardTypeOK
  BY DEF DashboardInv, FiguresExact
<1>3. /\ entries \in Seq(Entry) /\ Len(entries) \in Nat /\ MaxEntries \in Nat
      /\ DOMAIN entries = 1 .. Len(entries)
      /\ Len(entries) <= MaxEntries
      /\ \A i \in 1 .. Len(entries) : entries[i].date <= today
  BY <1>2, SumsAssumption DEF DashboardInv, DashboardTypeOK, EntriesPast
<1> DEFINE Past == /\ entries' \in Seq(Entry) /\ Len(entries') <= MaxEntries
                   /\ \A i \in 1 .. Len(entries') : entries'[i].date <= today
<1>4. Past
  <2>1. ASSUME NEW e \in Entry, e.date <= today, Len(entries) < MaxEntries,
               entries' = Append(entries, e)
        PROVE  Past
    <3>1. /\ entries' \in Seq(Entry) /\ Len(entries') = Len(entries) + 1
          /\ \A i \in 1 .. Len(entries) : entries'[i] = entries[i]
          /\ entries'[Len(entries) + 1] = e
      BY <1>3, <2>1, AppendProperties
    <3> QED BY <1>3, <2>1, <3>1
  <2>2. ASSUME NEW i \in DOMAIN entries, NEW e \in Entry, e.date <= today,
               entries' = [entries EXCEPT ![i] = e]
        PROVE  Past
    <3>1. /\ entries' \in Seq(Entry) /\ Len(entries') = Len(entries)
          /\ \A j \in 1 .. Len(entries) : entries'[j] = IF j = i THEN e ELSE entries[j]
      BY <1>3, <2>2, ExceptSeq
    <3> QED BY <1>3, <2>2, <3>1
  <2>3. ASSUME entries # << >>, entries' = Tail(entries)
        PROVE  Past
    <3>1. /\ entries' \in Seq(Entry) /\ Len(entries') = Len(entries) - 1
          /\ \A j \in 1 .. Len(entries') : entries'[j] = entries[j + 1]
      BY <1>3, <2>3, HeadTailProperties
    <3>2. \A j \in 1 .. Len(entries') : j + 1 \in 1 .. Len(entries)
      BY <1>3, <3>1
    <3> QED BY <1>3, <3>1, <3>2
  <2> QED BY <2>1, <2>2, <2>3 DEF ChangeEntries
<1>5. DashboardTypeOK'
  BY <1>1, <1>2, <1>4 DEF DashboardTypeOK
<1>6. EntriesPast'
  BY <1>1, <1>4 DEF EntriesPast
<1>7. ~update.active
  BY <1>1 DEF DashboardInv, UpdateUnderWay
<1>8. UpdateUnderWay' /\ ChosenDue'
  BY <1>1, <1>7 DEF DashboardInv, UpdateUnderWay, ChosenDue
<1>9. ChosenInPeriod'
  BY <1>1 DEF DashboardInv, ChosenInPeriod, Seen, InPeriod
<1>10. FiguresExact'
  BY <1>1, <1>5 DEF FiguresExact
<1> QED BY <1>6, <1>8, <1>9, <1>10 DEF DashboardInv

\* A calculation begins with nothing chosen.
LEMMA BeginStep ==
    ASSUME DashboardInv, BeginUpdate, UNCHANGED <<today, entries, figures>>,
           visible' = TRUE, segment' \in Segments
    PROVE  DashboardInv'
<1>1. /\ update' = [active |-> TRUE, next |-> 1, month |-> 0, chosen |-> << >>]
      /\ span' = [from |-> today, to |-> today]
  BY DEF BeginUpdate
<1>2. DashboardTypeOK
  BY DEF DashboardInv, FiguresExact
<1>3. /\ << >> \in Seq(Entry) /\ Len(<< >>) = 0 /\ DOMAIN << >> = {}
      /\ 1 \in 1 .. MaxEntries + 1 /\ today \in Nat
      /\ entries \in Seq(Entry) /\ Len(entries) \in Nat
  BY <1>2, EmptySeq, SumsAssumption DEF DashboardTypeOK, Days
<1>4. DashboardTypeOK'
  BY <1>1, <1>2, <1>3 DEF DashboardTypeOK
<1>5. EntriesPast'
  BY DEF DashboardInv, EntriesPast
<1>6. UpdateUnderWay'
  BY <1>1, <1>3 DEF UpdateUnderWay
<1>7. ChosenInPeriod'
  BY <1>1, <1>3 DEF ChosenInPeriod
<1>8. ChosenDue'
  <2>1. ASSUME NEW kind \in Kinds
        PROVE  Total(kind, << >>) = DueSoFar(kind, entries, segment', today, 0)
    <3>1. Total(kind, << >>) = 0
      BY <1>3, TotalSteps
    <3>2. DueSoFar(kind, entries, segment', today, 0) = 0
      BY <1>3, DueSteps
    <3> QED BY <3>1, <3>2
  <2>2. update'.next - 1 = 0 /\ update'.chosen = << >>
    BY <1>1
  <2> QED BY <2>1, <2>2 DEF ChosenDue
<1>9. FiguresExact'
  BY <1>1, <1>4 DEF FiguresExact, Idle
<1> QED BY <1>5, <1>6, <1>7, <1>8, <1>9 DEF DashboardInv

\* The report is left as it is.
LEMMA LeaveStep == DashboardInv /\ LeaveReport => DashboardInv'
<1> SUFFICES ASSUME DashboardInv, LeaveReport PROVE DashboardInv'
  OBVIOUS
<1>1. /\ ~update.active /\ visible' = FALSE
      /\ UNCHANGED <<today, entries, segment, update, figures, span>>
  BY DEF LeaveReport, Idle
<1>2. DashboardTypeOK'
  BY <1>1 DEF DashboardInv, FiguresExact, DashboardTypeOK
<1>3. EntriesPast' /\ UpdateUnderWay' /\ ChosenDue'
  BY <1>1 DEF DashboardInv, EntriesPast, UpdateUnderWay, ChosenDue
<1>4. ChosenInPeriod'
  BY <1>1 DEF DashboardInv, ChosenInPeriod, Seen, InPeriod
<1>5. FiguresExact'
  BY <1>1, <1>2 DEF FiguresExact
<1> QED BY <1>3, <1>4, <1>5 DEF DashboardInv

\* The transaction looked at is kept if it is of the period on a day of the
\* calculation, and within one day exactly if it is of that day's period.
LEMMA KeepStep ==
    ASSUME DashboardInv, Looking, NEW m \in BOOLEAN, Keep(m),
           UNCHANGED <<today, entries, visible, segment, figures, span>>,
           m => \E d \in span.from .. today : InPeriod(Looked, segment, d),
           span.from = today => (m <=> InPeriod(Looked, segment, today))
    PROVE  DashboardInv'
<1>1. DashboardTypeOK
  BY DEF DashboardInv, FiguresExact
<1> DEFINE n == update.next - 1
           chosen == update.chosen
<1>2. /\ entries \in Seq(Entry) /\ Len(entries) \in Nat /\ MaxEntries \in Nat
      /\ n \in Nat /\ n + 1 \in Nat /\ update.next = n + 1 /\ n + 1 <= Len(entries)
      /\ Len(entries) <= MaxEntries
      /\ chosen \in Seq(Entry) /\ update.active
  BY <1>1, SumsAssumption DEF DashboardTypeOK, Looking, DashboardInv, EntriesPast
<1>3. Looked \in Entry /\ Looked = entries[n + 1]
  BY <1>2 DEF Looked
<1>4. /\ update'.active /\ update'.next = n + 2 /\ update'.month = 0
      /\ update'.chosen = IF m THEN Append(chosen, Looked) ELSE chosen
      /\ update' \in [active : BOOLEAN, next : 1 .. MaxEntries + 1,
                      month : 0 .. 12, chosen : Seq(Entry)]
  <2>1. update \in [active : BOOLEAN, next : 1 .. MaxEntries + 1,
                    month : 0 .. 12, chosen : Seq(Entry)]
    BY <1>1 DEF DashboardTypeOK
  <2>2. n + 2 \in 1 .. MaxEntries + 1
    BY <1>2
  <2>3. Append(chosen, Looked) \in Seq(Entry)
    BY <1>2, <1>3, AppendProperties
  <2> DEFINE longer == IF m THEN Append(chosen, Looked) ELSE chosen
             next == update.next + 1
  <2>4. update' = [update EXCEPT !.next = next, !.month = 0, !.chosen = longer]
    BY DEF Keep
  <2>5. next = n + 2 /\ update.active
    BY <1>2
  <2>6. longer \in Seq(Entry)
    BY <1>2, <2>3
  <2>7. next \in 1 .. MaxEntries + 1
    BY <2>2, <2>5
  <2> HIDE DEF n, chosen, longer, next
  <2>8. update' = [active |-> update.active, next |-> next, month |-> 0,
                   chosen |-> longer]
    BY <2>1, <2>4
  <2>9. /\ update'.active /\ update'.next = next /\ update'.month = 0
        /\ update'.chosen = longer
    BY <2>5, <2>8
  <2>10. update' \in [active : BOOLEAN, next : 1 .. MaxEntries + 1,
                      month : 0 .. 12, chosen : Seq(Entry)]
    BY <2>1, <2>6, <2>7, <2>8
  <2> QED BY <2>5, <2>9, <2>10 DEF longer
<1>5. DashboardTypeOK'
  BY <1>1, <1>4 DEF DashboardTypeOK
<1>6. EntriesPast'
  BY DEF DashboardInv, EntriesPast
<1>7. UpdateUnderWay'
  BY <1>2, <1>4 DEF DashboardInv, UpdateUnderWay
<1>8. ChosenInPeriod'
  <2>1. /\ \A i \in DOMAIN chosen : \E d \in span.from .. today :
             InPeriod(chosen[i], segment, d)
    BY <1>2 DEF DashboardInv, ChosenInPeriod, Seen
  <2>2. \A i \in DOMAIN update'.chosen :
          \E d \in span.from .. today : InPeriod(update'.chosen[i], segment, d)
    <3>1. CASE ~m
      BY <1>4, <2>1, <3>1
    <3>2. CASE m
      <4> DEFINE longer == Append(chosen, Looked)
      <4>1. /\ Len(chosen) \in Nat /\ DOMAIN chosen = 1 .. Len(chosen)
            /\ longer \in Seq(Entry) /\ Len(longer) = Len(chosen) + 1
            /\ \A i \in 1 .. Len(chosen) : longer[i] = chosen[i]
            /\ longer[Len(chosen) + 1] = Looked
        BY <1>2, <1>3, AppendProperties
      <4>2. update'.chosen = longer
        BY <1>4, <3>2
      <4> HIDE DEF longer, chosen
      <4>3. ASSUME NEW i \in DOMAIN longer
            PROVE  \E d \in span.from .. today : InPeriod(longer[i], segment, d)
        <5>1. i \in 1 .. Len(chosen) \/ i = Len(chosen) + 1
          BY <4>1
        <5> QED BY <2>1, <3>2, <4>1, <5>1
      <4> QED BY <4>2, <4>3
    <3> QED BY <3>1, <3>2
  <2> QED BY <1>4, <2>2 DEF ChosenInPeriod, Seen
<1>9. ChosenDue'
  <2> SUFFICES ASSUME span.from = today, NEW kind \in Kinds
               PROVE  Total(kind, update'.chosen)
                        = DueSoFar(kind, entries, segment, today, n + 1)
    BY <1>2, <1>4 DEF ChosenDue
  <2>1. Total(kind, chosen) = DueSoFar(kind, entries, segment, today, n)
    BY <1>2 DEF DashboardInv, ChosenDue
  <2> DEFINE add == IF InPeriod(entries[n + 1], segment, today)
                    THEN Contribution(kind, entries[n + 1]) ELSE 0
  <2> HIDE DEF n, chosen
  <2>2. DueSoFar(kind, entries, segment, today, n + 1)
          = DueSoFar(kind, entries, segment, today, n) + add
    BY <1>2, DueSteps
  <2>3. Total(kind, chosen) \in Nat
    BY <1>2, TotalSteps
  <2>4. Total(kind, update'.chosen) = Total(kind, chosen) + add
    <3>1. CASE m
      <4>1. add = Contribution(kind, Looked)
        BY <1>3, <3>1
      <4>2. Total(kind, Append(chosen, Looked))
              = Total(kind, chosen) + Contribution(kind, Looked)
        BY <1>2, <1>3, TotalSteps
      <4> QED BY <1>4, <3>1, <4>1, <4>2
    <3>2. CASE ~m
      <4>1. add = 0
        BY <1>3, <3>2
      <4> QED BY <1>4, <2>3, <3>2, <4>1
    <3> QED BY <3>1, <3>2
  <2> QED BY <2>1, <2>2, <2>4
<1>10. FiguresExact'
  BY <1>4, <1>5 DEF FiguresExact, Idle
<1> QED BY <1>6, <1>7, <1>8, <1>9, <1>10 DEF DashboardInv

\* All transactions are taken at once.
LEMMA TakeAllStep == DashboardInv /\ takeAll => DashboardInv'
<1> SUFFICES ASSUME DashboardInv, takeAll PROVE DashboardInv'
  OBVIOUS
<1>1. /\ segment = "all" /\ update.active
      /\ UNCHANGED <<today, entries, visible, segment, figures, span>>
  BY DEF takeAll, Looking
<1>2. DashboardTypeOK
  BY DEF DashboardInv, FiguresExact
<1>3. /\ entries \in Seq(Entry) /\ Len(entries) \in Nat /\ MaxEntries \in Nat
      /\ Len(entries) <= MaxEntries /\ today \in Nat /\ span.from \in Nat
      /\ span.from <= today
  BY <1>2, SumsAssumption
     DEF DashboardTypeOK, DashboardInv, EntriesPast, UpdateUnderWay, Days
<1>4. /\ update'.active /\ update'.next = Len(entries) + 1
      /\ update'.month = update.month /\ update'.chosen = entries
      /\ update' \in [active : BOOLEAN, next : 1 .. MaxEntries + 1,
                      month : 0 .. 12, chosen : Seq(Entry)]
  <2>1. update \in [active : BOOLEAN, next : 1 .. MaxEntries + 1,
                    month : 0 .. 12, chosen : Seq(Entry)]
    BY <1>2 DEF DashboardTypeOK
  <2>2. Len(entries) + 1 \in 1 .. MaxEntries + 1
    BY <1>3
  <2> QED BY <1>1, <1>3, <2>1, <2>2 DEF takeAll
<1>5. DashboardTypeOK'
  BY <1>1, <1>2, <1>4 DEF DashboardTypeOK
<1>6. EntriesPast' /\ UpdateUnderWay'
  BY <1>1, <1>3, <1>4 DEF DashboardInv, EntriesPast, UpdateUnderWay
<1>7. ChosenInPeriod'
  <2>1. today \in span.from .. today
    BY <1>3
  <2>2. \A e : InPeriod(e, "all", today)
    BY DEF InPeriod
  <2> QED BY <1>1, <1>4, <2>1, <2>2 DEF ChosenInPeriod, Seen
<1>8. ChosenDue'
  <2>1. update'.next - 1 = Len(entries)
    BY <1>3, <1>4
  <2> QED BY <1>1, <1>3, <1>4, <2>1, AllIsDue DEF ChosenDue
<1>9. FiguresExact'
  BY <1>4, <1>5 DEF FiguresExact, Idle
<1> QED BY <1>6, <1>7, <1>8, <1>9 DEF DashboardInv

\* The month that is read is today's.
LEMMA ReadMonthStep == DashboardInv /\ readCurrentMonth => DashboardInv'
<1> SUFFICES ASSUME DashboardInv, readCurrentMonth PROVE DashboardInv'
  OBVIOUS
<1>1. /\ update.active /\ update' = [update EXCEPT !.month = Calendar[today].month]
      /\ UNCHANGED <<today, entries, visible, segment, figures, span>>
  BY DEF readCurrentMonth, Looking
<1>2. DashboardTypeOK
  BY DEF DashboardInv, FiguresExact
<1>3. /\ today \in Days /\ today \in Nat /\ span.from \in Nat /\ span.from <= today
      /\ Calendar[today].month \in 0 .. 12
  BY <1>2, CalendarAssumption
     DEF DashboardTypeOK, DashboardInv, UpdateUnderWay, Days
<1>4. update \in [active : BOOLEAN, next : 1 .. MaxEntries + 1,
                  month : 0 .. 12, chosen : Seq(Entry)]
  BY <1>2 DEF DashboardTypeOK
<1>5. /\ update'.active /\ update'.next = update.next
      /\ update'.month = Calendar[today].month /\ update'.chosen = update.chosen
      /\ update' \in [active : BOOLEAN, next : 1 .. MaxEntries + 1,
                      month : 0 .. 12, chosen : Seq(Entry)]
  BY <1>1, <1>3, <1>4
<1>6. DashboardTypeOK'
  BY <1>1, <1>2, <1>5 DEF DashboardTypeOK
<1>7. today \in span.from .. today
  BY <1>3
<1>8. EntriesPast' /\ UpdateUnderWay'
  BY <1>1, <1>5, <1>7 DEF DashboardInv, EntriesPast, UpdateUnderWay
<1>9. ChosenInPeriod' /\ ChosenDue'
  BY <1>1, <1>5 DEF DashboardInv, ChosenInPeriod, ChosenDue, Seen, InPeriod
<1>10. FiguresExact'
  BY <1>5, <1>6 DEF FiguresExact, Idle
<1> QED BY <1>8, <1>9, <1>10 DEF DashboardInv

\* A month of one day and the year of a later one are those of no transaction
\* outside both months: it would lie between the two days.
LEMMA ReadYearStep == DashboardInv /\ readCurrentYear => DashboardInv'
<1> SUFFICES ASSUME DashboardInv, readCurrentYear PROVE DashboardInv'
  OBVIOUS
<1>1. /\ segment = "month" /\ Looking /\ update.active /\ update.month # 0
      /\ UNCHANGED <<today, entries, visible, segment, figures, span>>
  BY DEF readCurrentYear, Looking
<1> DEFINE matches == /\ Calendar[Looked.date].month = update.month
                      /\ Calendar[Looked.date].year = Calendar[today].year
<1>2. PICK m \in BOOLEAN : m = matches
  OBVIOUS
<1>3. Keep(m)
  BY <1>2 DEF readCurrentYear, Keep
<1>4. DashboardTypeOK
  BY DEF DashboardInv, FiguresExact
<1>5. /\ entries \in Seq(Entry) /\ update.next \in 1 .. Len(entries)
      /\ \A i \in DOMAIN entries : entries[i].date <= today
      /\ today \in Days /\ span.from \in Days /\ span.from <= today
  BY <1>1, <1>4 DEF DashboardTypeOK, Looking, DashboardInv, EntriesPast, UpdateUnderWay
<1> DEFINE e == Looked.date
<1>6. e \in Days /\ e <= today
  <2>1. Looked \in Entry /\ Looked.date <= today
    BY <1>5 DEF Looked
  <2> QED BY <2>1 DEF Entry
<1>7. PICK d \in span.from .. today : Calendar[d].month = update.month
  BY <1>1 DEF DashboardInv, UpdateUnderWay
<1>8. /\ d \in Days /\ \A x \in Days : x \in Nat
      /\ \A x \in Days : /\ Calendar[x].year \in Nat
                         /\ Calendar[x] = [month |-> Calendar[x].month,
                                           year |-> Calendar[x].year]
  BY <1>5, <1>7, CalendarAssumption DEF Days
<1>9. \A x : InPeriod(Looked, "month", x) <=> Calendar[e] = Calendar[x]
  BY DEF InPeriod
<1>10. /\ e \in Nat /\ d \in Nat /\ today \in Nat /\ span.from \in Nat
       /\ span.from <= d /\ d <= today /\ e <= today
       /\ Calendar[e].year \in Nat /\ Calendar[d].year \in Nat
       /\ Calendar[today].year \in Nat
  <2>1. e \in Nat /\ d \in Nat /\ today \in Nat /\ span.from \in Nat
    BY <1>5, <1>6, <1>8
  <2>2. span.from <= d /\ d <= today
    BY <1>7, <2>1
  <2>3. /\ Calendar[e].year \in Nat /\ Calendar[d].year \in Nat
        /\ Calendar[today].year \in Nat
    BY <1>5, <1>6, <1>8
  <2> QED BY <1>6, <2>1, <2>2, <2>3
<1> HIDE DEF e
<1>11. ASSUME matches
       PROVE  \E x \in span.from .. today : Calendar[e] = Calendar[x]
  <2>1. Calendar[e].month = Calendar[d].month /\ Calendar[e].year = Calendar[today].year
    BY <1>7, <1>11 DEF e
  <2>2. CASE e < d
    <3>1. Calendar[e].year <= Calendar[d].year /\ Calendar[d].year <= Calendar[today].year
      <4>1. \A x, y \in Days : x < y => Calendar[x].year <= Calendar[y].year
        BY <1>8, CalendarAssumption
      <4>2. d = today \/ d < today
        BY <1>10
      <4>3. Calendar[e].year <= Calendar[d].year
        BY <1>6, <1>8, <2>2, <4>1
      <4>4. Calendar[d].year <= Calendar[today].year
        BY <1>5, <1>8, <1>10, <4>1, <4>2
      <4> QED BY <4>3, <4>4
    <3>2. Calendar[e].year = Calendar[d].year
      BY <1>10, <2>1, <3>1
    <3>3. Calendar[e] = Calendar[d]
      BY <1>6, <1>8, <2>1, <3>2
    <3> QED BY <1>7, <3>3
  <2>3. CASE ~(e < d)
    <3>1. e \in span.from .. today
      BY <1>10, <2>3
    <3> QED BY <3>1
  <2> QED BY <2>2, <2>3
<1>12. m => \E x \in span.from .. today : InPeriod(Looked, segment, x)
  BY <1>1, <1>2, <1>9, <1>11
<1>13. ASSUME span.from = today
       PROVE  m <=> InPeriod(Looked, segment, today)
  <2>1. d = today
    BY <1>5, <1>7, <1>8, <1>13
  <2>2. matches <=> /\ Calendar[e].month = Calendar[today].month
                    /\ Calendar[e].year = Calendar[today].year
    BY <1>7, <2>1 DEF e
  <2>3. matches <=> Calendar[e] = Calendar[today]
    <3> HIDE DEF matches
    <3> QED BY <1>5, <1>6, <1>8, <2>2
  <2> QED BY <1>1, <1>2, <1>9, <2>3
<1> HIDE DEF matches
<1> QED BY <1>1, <1>3, <1>12, <1>13, KeepStep

\* A transaction of today is of the period today.
LEMMA DateInTodayStep == DashboardInv /\ isDateInToday => DashboardInv'
<1> SUFFICES ASSUME DashboardInv, isDateInToday PROVE DashboardInv'
  OBVIOUS
<1>1. /\ segment = "today" /\ Looking
      /\ UNCHANGED <<today, entries, visible, segment, figures, span>>
  BY DEF isDateInToday
<1>2. PICK m \in BOOLEAN : m = (Looked.date = today)
  OBVIOUS
<1>3. Keep(m)
  BY <1>2 DEF isDateInToday, Keep
<1>4. today \in span.from .. today
  BY CalendarAssumption
     DEF DashboardInv, FiguresExact, DashboardTypeOK, UpdateUnderWay, Days
<1>5. \A x : InPeriod(Looked, "today", x) <=> Looked.date = x
  BY DEF InPeriod
<1>6. m <=> InPeriod(Looked, segment, today)
  BY <1>1, <1>2, <1>5
<1> QED BY <1>1, <1>3, <1>4, <1>6, KeepStep

\* The figures are what was chosen adds up to.
LEMMA UpdateViewStep == DashboardInv /\ updateView => DashboardInv'
<1> SUFFICES ASSUME DashboardInv, updateView PROVE DashboardInv'
  OBVIOUS
<1>1. /\ update.active /\ ~Looking /\ calculateData
      /\ update' = [update EXCEPT !.active = FALSE]
      /\ span' = [span EXCEPT !.to = today]
      /\ UNCHANGED <<today, entries, visible, segment>>
  BY DEF updateView
<1>2. DashboardTypeOK
  BY DEF DashboardInv, FiguresExact
<1>3. /\ entries \in Seq(Entry) /\ Len(entries) \in Nat /\ today \in Days
      /\ update.chosen \in Seq(Entry) /\ update.next = Len(entries) + 1
      /\ span \in [from : Days, to : Days]
      /\ update \in [active : BOOLEAN, next : 1 .. MaxEntries + 1,
                     month : 0 .. 12, chosen : Seq(Entry)]
  BY <1>1, <1>2 DEF DashboardTypeOK, Looking, DashboardInv, UpdateUnderWay
<1>4. /\ ~update'.active /\ update'.next = update.next /\ update'.month = update.month
      /\ update'.chosen = update.chosen
      /\ update' \in [active : BOOLEAN, next : 1 .. MaxEntries + 1,
                      month : 0 .. 12, chosen : Seq(Entry)]
      /\ span' \in [from : Days, to : Days] /\ span'.from = span.from /\ span'.to = today
  BY <1>1, <1>3
<1> DEFINE income == Total("Income", update.chosen)
           expense == Total("Expense", update.chosen)
<1>5. figures' = [income |-> income, expense |-> expense, balance |-> income - expense]
  BY <1>1 DEF calculateData
<1>6. income \in Nat /\ expense \in Nat
  BY <1>3, TotalSteps DEF Kinds
<1>7. DashboardTypeOK'
  <2>1. figures' \in [income : Nat, expense : Nat, balance : Int]
    <3> HIDE DEF income, expense
    <3> QED BY <1>5, <1>6
  <2> QED BY <1>1, <1>2, <1>4, <2>1 DEF DashboardTypeOK
<1>8. EntriesPast' /\ UpdateUnderWay'
  BY <1>1, <1>4 DEF DashboardInv, EntriesPast, UpdateUnderWay
<1>9. ChosenInPeriod' /\ ChosenDue'
  BY <1>1, <1>4 DEF DashboardInv, ChosenInPeriod, ChosenDue, Seen, InPeriod
<1>10. FiguresExact'
  <2> SUFFICES ASSUME span.from = today
               PROVE  /\ income = Due("Income", entries, segment, today)
                      /\ expense = Due("Expense", entries, segment, today)
    BY <1>1, <1>4, <1>5, <1>7 DEF FiguresExact
  <2>1. update.next - 1 = Len(entries)
    BY <1>3
  <2>2. \A kind \in Kinds : Total(kind, update.chosen) = Due(kind, entries, segment, today)
    BY <1>1, <1>3, <2>1, AllLooked DEF DashboardInv, ChosenDue
  <2> QED BY <2>2 DEF Kinds
<1> QED BY <1>8, <1>9, <1>10 DEF DashboardInv

\* DashboardInv is inductive.
LEMMA DashboardInvStep == DashboardInv /\ [DashboardNext]_dashboardVars => DashboardInv'
<1> SUFFICES ASSUME DashboardInv, [DashboardNext]_dashboardVars PROVE DashboardInv'
  OBVIOUS
<1>1. CASE viewDidAppear
  <2>1. segment \in Segments
    BY DEF DashboardInv, FiguresExact, DashboardTypeOK
  <2> QED BY <1>1, <2>1, BeginStep DEF viewDidAppear
<1>2. CASE segmentControlClicked
  <2>1. visible' = TRUE /\ segment' \in Segments
    BY <1>2 DEF segmentControlClicked, DashboardInv, FiguresExact, DashboardTypeOK
  <2> QED BY <1>2, <2>1, BeginStep DEF segmentControlClicked
<1>3. CASE UNCHANGED dashboardVars
  BY <1>3 DEF dashboardVars, DashboardInv, EntriesPast, UpdateUnderWay, ChosenInPeriod,
       ChosenDue, FiguresExact, DashboardTypeOK, Idle, Seen, InPeriod
<1> QED BY <1>1, <1>2, <1>3, MidnightStep, ChangeStep, LeaveStep, TakeAllStep,
           ReadMonthStep, ReadYearStep, DateInTodayStep, UpdateViewStep DEF DashboardNext

-----------------------------------------------------------------------------
\* The results.

\* DashboardInv always holds.
LEMMA DashboardInvAlways == DashboardSpec => []DashboardInv
BY DashboardInitially, DashboardInvStep, PTL DEF DashboardSpec

\* A report calculated within one day shows the sums of the period's
\* transactions, whatever segments were tapped before, until it is left.
THEOREM FiguresAreExact == DashboardSpec => []FiguresExact
<1>1. DashboardInv => FiguresExact
  BY DEF DashboardInv
<1> QED BY <1>1, DashboardInvAlways, PTL

\* When midnight passes during a calculation, each transaction counted is of the
\* period as it was on a day on which the calculation ran.
THEOREM CountsInPeriod == DashboardSpec => []CountedInPeriod
<1>1. DashboardInv => CountedInPeriod
  BY DEF DashboardInv, ChosenInPeriod, CountedInPeriod, Seen, Idle
<1> QED BY <1>1, DashboardInvAlways, PTL

-----------------------------------------------------------------------------
\* What a lower bound is, as a property of the key instead of a minimum.
IsLowerBound(x, k, S) ==
    /\ x \in S \cup {End}
    /\ k <= x
    /\ \A j \in S : k <= j => x <= j

\* A non-empty finite set of numbers has a smallest element, and that is Min.
LEMMA MinProperties ==
    ASSUME NEW S \in SUBSET Int, IsFiniteSet(S), S # {}
    PROVE  Min(S) \in S /\ \A x \in S : Min(S) <= x
BY LeastExists DEF Min

\* The lower bound of a key among some rows is one of them or the end, none of
\* them comes between, and nothing else is like that.
LEMMA LowerBoundProperties ==
    ASSUME NEW S \in SUBSET Keys, NEW k \in 1 .. End
    PROVE  /\ IsLowerBound(LowerBound(k, S), k, S)
           /\ LowerBound(k, S) \in 1 .. End
           /\ \A x : IsLowerBound(x, k, S) => x = LowerBound(k, S)
<1> DEFINE T == {j \in S : j >= k} \cup {End}
<1>1. MaxKey \in Nat /\ End = MaxKey + 1 /\ Keys = 1 .. MaxKey
  BY TransactionAssumption DEF End, Keys
<1>2. T \in SUBSET (1 .. End) /\ T # {} /\ End \in T
  <2>1. \A j \in Keys : j \in 1 .. End
    BY <1>1
  <2>2. End \in 1 .. End
    BY <1>1
  <2> QED BY <2>1, <2>2
<1>3. IsFiniteSet(T) /\ T \in SUBSET Int
  <2>1. IsFiniteSet(1 .. End)
    BY <1>1, FS_Interval
  <2> QED BY <2>1, <1>2, FS_Subset
<1>4. Min(T) \in T /\ \A x \in T : Min(T) <= x
  BY <1>2, <1>3, MinProperties
<1>5. LowerBound(k, S) = Min(T)
  BY DEF LowerBound
<1> HIDE DEF T
<1>6. LowerBound(k, S) \in T /\ \A x \in T : LowerBound(k, S) <= x
  BY <1>4, <1>5
<1>7. LowerBound(k, S) \in 1 .. End
  BY <1>2, <1>6
<1>8. IsLowerBound(LowerBound(k, S), k, S)
  BY <1>1, <1>6, <1>7 DEF IsLowerBound, T
<1>9. ASSUME NEW x, IsLowerBound(x, k, S)
      PROVE  x = LowerBound(k, S)
  BY <1>1, <1>7, <1>8, <1>9 DEF IsLowerBound
<1> QED BY <1>7, <1>8, <1>9

-----------------------------------------------------------------------------
\* A key is set or deleted, not both.
SetOrDeleted == \A k \in deletions : mutations[k] = None

\* An iterator that says it is valid hands out a row.
ValidHasEntry == isValid => current.key \in Keys /\ current.value # None

\* While the transaction has not changed since the iterator moved, both
\* positions are where a search for the current key would lead.
PositionsFound ==
    isValid /\ lastVersion = version =>
      /\ dbPos = SeekDB(current.key)
      /\ mutPos = SeekMutations(current.key)
      /\ current.key = IF AtMutation(dbPos, mutPos) THEN mutPos ELSE dbPos
      /\ isMutation <=> AtMutation(dbPos, mutPos)
      /\ current.value = Get(current.key)

\* The inductive invariant.
TransactionInv ==
    /\ TransactionTypeOK
    /\ SetOrDeleted
    /\ ValidHasEntry
    /\ PositionsFound

\* The rows on disk that are not deleted, and the pending ones, are sets of
\* keys.
LEMMA RowSets ==
    /\ OnDisk \in SUBSET Keys /\ OnDisk \ deletions \in SUBSET Keys
    /\ Pending \in SUBSET Keys
    /\ Keys \in SUBSET (1 .. End) /\ End \notin Keys
    /\ \A k \in Keys : k + 1 \in 1 .. End
<1>1. MaxKey \in Nat /\ End = MaxKey + 1 /\ Keys = 1 .. MaxKey
  BY TransactionAssumption DEF End, Keys
<1>2. \A k \in Keys : k \in 1 .. End /\ k + 1 \in 1 .. End
  BY <1>1
<1> QED BY <1>1, <1>2 DEF OnDisk, Pending

\* Wherever the two positions were found, the entry between them is the first
\* one of the view at or after the key searched for.
LEMMA FirstOfView ==
    ASSUME TransactionTypeOK, SetOrDeleted,
           NEW k \in 1 .. End,
           NEW d, d = LowerBound(k, OnDisk \ deletions),
           NEW m, m = LowerBound(k, Pending),
           NEW x, x = IF AtMutation(d, m) THEN m ELSE d
    PROVE  /\ \A j \in k .. MaxKey : Get(j) # None => x <= j
           /\ x \in k .. End
           /\ x # End => /\ x \in Keys
                         /\ Get(x) # None
                         /\ Get(x) = IF AtMutation(d, m) THEN mutations[x] ELSE diskRows[x]
           /\ x # End <=> (d # End \/ m # End)
           /\ d = LowerBound(x, OnDisk \ deletions)
           /\ m = LowerBound(x, Pending)
<1>1. MaxKey \in Nat /\ End = MaxKey + 1 /\ Keys = 1 .. MaxKey
  BY TransactionAssumption DEF End, Keys
<1>2. /\ d \in 1 .. End /\ IsLowerBound(d, k, OnDisk \ deletions)
      /\ m \in 1 .. End /\ IsLowerBound(m, k, Pending)
  BY LowerBoundProperties, RowSets
<1>3. x \in 1 .. End /\ x <= d /\ x <= m /\ k <= x /\ x \in {d, m}
  BY <1>1, <1>2 DEF AtMutation, IsLowerBound
<1>4. ASSUME NEW j \in k .. MaxKey, Get(j) # None
      PROVE  x <= j
  <2>1. j \in Keys /\ k <= j
    BY <1>1
  <2>2. j \in Pending \/ j \in OnDisk \ deletions
    BY <1>4, <2>1 DEF Get, Pending, OnDisk
  <2>3. d <= j \/ m <= j
    BY <1>2, <2>1, <2>2 DEF IsLowerBound
  <2> QED BY <1>1, <1>2, <1>3, <2>1, <2>3
<1>5. ASSUME x # End
      PROVE  /\ x \in Keys
             /\ Get(x) # None
             /\ Get(x) = IF AtMutation(d, m) THEN mutations[x] ELSE diskRows[x]
  <2>1. CASE AtMutation(d, m)
    <3>1. x = m /\ m \in Pending
      BY <1>2, <2>1, <1>5 DEF IsLowerBound
    <3> QED BY <3>1, <2>1 DEF Get, Pending, SetOrDeleted
  <2>2. CASE ~AtMutation(d, m)
    <3>1. x = d /\ d \in OnDisk \ deletions
      BY <1>2, <2>2, <1>5 DEF IsLowerBound
    <3>2. d \notin Pending
      <4>1. d # End /\ k <= d
        BY <1>2, <3>1, RowSets DEF IsLowerBound
      <4> QED BY <1>1, <1>2, <2>2, <4>1 DEF AtMutation, IsLowerBound
    <3> QED BY <3>1, <3>2, <2>2 DEF Get, Pending, OnDisk
  <2> QED BY <2>1, <2>2
<1>6. x # End <=> (d # End \/ m # End)
  BY <1>1, <1>2, <1>3 DEF AtMutation
<1>7. /\ IsLowerBound(d, x, OnDisk \ deletions)
      /\ IsLowerBound(m, x, Pending)
  <2>1. ASSUME NEW j \in Keys, x <= j
        PROVE  k <= j
    BY <1>1, <1>3, <2>1
  <2>2. ASSUME NEW j \in OnDisk \ deletions, x <= j
        PROVE  d <= j
    BY <1>2, <2>1, <2>2, RowSets DEF IsLowerBound
  <2>3. ASSUME NEW j \in Pending, x <= j
        PROVE  m <= j
    BY <1>2, <2>1, <2>3, RowSets DEF IsLowerBound
  <2> QED BY <1>2, <1>3, <2>2, <2>3 DEF IsLowerBound
<1>8. /\ d = LowerBound(x, OnDisk \ deletions)
      /\ m = LowerBound(x, Pending)
  BY <1>3, <1>7, LowerBoundProperties, RowSets
<1>9. x \in k .. End
  BY <1>1, <1>3
<1> QED BY <1>4, <1>5, <1>6, <1>8, <1>9

-----------------------------------------------------------------------------
\* The cursor and the map that OrderedView sees.
Cursor == IF isValid THEN current ELSE [key |-> 0, value |-> None]
View == [k \in Keys |-> Get(k)]

\* Where both positions were found by searching for a key, the iterator
\* stands on the first entry at or after it, in step with the transaction.
LEMMA UpdateFindsFirst ==
    ASSUME TransactionInv,
           NEW k \in 1 .. End,
           UpdateCurrent(LowerBound(k, OnDisk \ deletions), LowerBound(k, Pending)),
           lastVersion' = version,
           UNCHANGED <<diskRows, mutations, deletions, version>>
    PROVE  /\ TransactionInv'
           /\ View' = View
           /\ Cursor' \in IteratorEntry
           /\ V!IsFirst(Cursor', k .. MaxKey, View)
<1> DEFINE d == LowerBound(k, OnDisk \ deletions)
           m == LowerBound(k, Pending)
           x == IF AtMutation(d, m) THEN m ELSE d
<1>1. MaxKey \in Nat /\ End = MaxKey + 1 /\ Keys = 1 .. MaxKey
  BY TransactionAssumption DEF End, Keys
<1>2. TransactionTypeOK /\ SetOrDeleted
  BY DEF TransactionInv
<1>3. /\ d \in 1 .. End /\ d \in (OnDisk \ deletions) \cup {End}
      /\ m \in 1 .. End /\ m \in Pending \cup {End}
  BY LowerBoundProperties, RowSets DEF IsLowerBound
<1>4. /\ \A j \in k .. MaxKey : Get(j) # None => x <= j
      /\ x \in k .. End
      /\ x # End => /\ x \in Keys
                    /\ Get(x) # None
                    /\ Get(x) = IF AtMutation(d, m) THEN mutations[x] ELSE diskRows[x]
      /\ x # End <=> (d # End \/ m # End)
      /\ d = LowerBound(x, OnDisk \ deletions)
      /\ m = LowerBound(x, Pending)
  BY <1>2, FirstOfView
<1>5. /\ dbPos' = d /\ mutPos' = m
      /\ isValid' \in BOOLEAN
      /\ isValid' <=> x # End
      /\ x # End => /\ isMutation' \in BOOLEAN
                    /\ isMutation' <=> AtMutation(d, m)
                    /\ current' = [key |-> x, value |-> Get(x)]
      /\ x = End => UNCHANGED <<isMutation, current>>
  BY <1>4 DEF UpdateCurrent, AtMutation
<1>6. /\ OnDisk' = OnDisk /\ Pending' = Pending /\ deletions' = deletions
      /\ \A j : Get(j)' = Get(j)
  BY DEF OnDisk, Pending, Get
<1>7. \A j \in Keys : Get(j) \in Values \cup {None}
  BY <1>2 DEF Get, TransactionTypeOK
<1> HIDE DEF d, m, x
<1>8. TransactionTypeOK'
  <2>1. /\ dbPos' \in OnDisk' \cup {End}
        /\ mutPos' \in Keys \cup {End}
    BY <1>3, <1>5, <1>6, RowSets
  <2>2. isMutation' \in BOOLEAN /\ isValid' \in BOOLEAN
    BY <1>2, <1>5 DEF TransactionTypeOK
  <2>3. CASE x # End
    <3>1. x \in Keys /\ Get(x) \in Values \cup {None}
      BY <1>4, <1>7, <2>3
    <3>2. current' \in IteratorEntry
      BY <1>5, <2>3, <3>1 DEF IteratorEntry
    <3> QED BY <1>2, <2>1, <2>2, <3>2 DEF TransactionTypeOK
  <2>4. CASE x = End
    BY <1>2, <1>5, <2>1, <2>2, <2>4 DEF TransactionTypeOK
  <2> QED BY <2>3, <2>4
<1>9. SetOrDeleted'
  BY <1>2 DEF SetOrDeleted
<1>10. ASSUME x # End
       PROVE  current'.key = x /\ current'.value = Get(x)
  BY <1>5, <1>10
<1>11. ValidHasEntry' /\ PositionsFound'
  <2>1. CASE x # End
    <3>1. ValidHasEntry'
      BY <1>4, <1>10, <2>1 DEF ValidHasEntry
    <3>2. /\ dbPos' = LowerBound(x, OnDisk' \ deletions')
          /\ mutPos' = LowerBound(x, Pending')
      BY <1>4, <1>5, <1>6
    <3>3. x = IF AtMutation(dbPos', mutPos') THEN mutPos' ELSE dbPos'
      BY <1>5 DEF x
    <3>4. isMutation' <=> AtMutation(dbPos', mutPos')
      BY <1>5, <2>1, Zenon DEF AtMutation
    <3>5. current'.value = Get(current.key)'
      BY <1>10, <2>1 DEF Get
    <3>6. /\ dbPos' = LowerBound(current'.key, OnDisk' \ deletions')
          /\ mutPos' = LowerBound(current'.key, Pending')
          /\ current'.key = IF AtMutation(dbPos', mutPos') THEN mutPos' ELSE dbPos'
      BY <3>2, <3>3, <1>10, <2>1
    <3> QED BY <3>1, <3>4, <3>5, <3>6, Zenon
            DEF PositionsFound, SeekDB, SeekMutations, AtMutation
  <2>2. CASE x = End
    BY <1>5, <2>2 DEF ValidHasEntry, PositionsFound
  <2> QED BY <2>1, <2>2
<1>12. View' = View
  BY <1>6 DEF View
<1>13. Cursor' \in IteratorEntry /\ V!IsFirst(Cursor', k .. MaxKey, View)
  <2>1. CASE x # End
    <3>1. Cursor' = [key |-> x, value |-> Get(x)]
      BY <2>1, <1>5 DEF Cursor
    <3>2. x \in k .. MaxKey /\ x \in Keys
      BY <2>1, <1>1, <1>4
    <3>3. \A j \in k .. MaxKey : j \in Keys /\ View[j] = Get(j)
      BY <1>1 DEF View
    <3> QED BY <3>1, <3>2, <3>3, <1>4, <1>7, <2>1 DEF V!IsFirst, IteratorEntry
  <2>2. CASE x = End
    <3>1. Cursor' = [key |-> 0, value |-> None]
      BY <2>2, <1>5 DEF Cursor
    <3>2. \A j \in k .. MaxKey : j \in Keys /\ View[j] = Get(j)
      BY <1>1 DEF View
    <3>3. \A j \in k .. MaxKey : Get(j) = None
      BY <1>1, <1>4, <2>2
    <3> QED BY <3>1, <3>2, <3>3 DEF V!IsFirst, V!NoEntry, IteratorEntry
  <2> QED BY <2>1, <2>2
<1> QED BY <1>8, <1>9, <1>11, <1>12, <1>13 DEF TransactionInv

-----------------------------------------------------------------------------
\* A search that does not stop at its key is a search for the next key.
LEMMA SearchGoesOn ==
    ASSUME NEW S \in SUBSET Keys, NEW k \in Keys, LowerBound(k, S) # k
    PROVE  LowerBound(k, S) = LowerBound(k + 1, S)
<1> DEFINE x == LowerBound(k, S)
<1>1. MaxKey \in Nat /\ End = MaxKey + 1 /\ Keys = 1 .. MaxKey
  BY TransactionAssumption DEF End, Keys
<1>2. k \in 1 .. End /\ k + 1 \in 1 .. End
  BY RowSets
<1>3. x \in 1 .. End /\ IsLowerBound(x, k, S)
  BY <1>2, LowerBoundProperties
<1> HIDE DEF x
<1>4. x # k
  BY DEF x
<1>5. IsLowerBound(x, k + 1, S)
  BY <1>1, <1>3, <1>4 DEF IsLowerBound
<1> QED BY <1>2, <1>5, LowerBoundProperties DEF x

\* Advancing from where the search for a key led to that key is searching for
\* the next key.
LEMMA AdvanceSearchesNextKey ==
    ASSUME NEW k \in Keys,
           NEW d, d = SeekDB(k),
           NEW m, m = SeekMutations(k),
           k = IF AtMutation(d, m) THEN m ELSE d,
           NEW mutation, mutation <=> AtMutation(d, m),
           Advance(d, m, mutation)
    PROVE  UpdateCurrent(LowerBound(k + 1, OnDisk \ deletions),
                         LowerBound(k + 1, Pending))
<1>1. MaxKey \in Nat /\ End = MaxKey + 1 /\ Keys = 1 .. MaxKey
  BY TransactionAssumption DEF End, Keys
<1>2. d \in 1 .. End /\ m \in 1 .. End
  BY LowerBoundProperties, RowSets DEF SeekDB, SeekMutations
<1>3. /\ d # k => d = LowerBound(k + 1, OnDisk \ deletions)
      /\ m # k => m = LowerBound(k + 1, Pending)
  BY SearchGoesOn, RowSets DEF SeekDB, SeekMutations
<1>4. CASE AtMutation(d, m)
  <2>1. m = k /\ UpdateCurrent(IF d = m THEN AdvanceLDB(d) ELSE d,
                               LowerBound(m + 1, Pending))
    BY <1>4 DEF Advance
  <2>2. (IF d = m THEN AdvanceLDB(d) ELSE d) = LowerBound(k + 1, OnDisk \ deletions)
    BY <1>3, <2>1 DEF AdvanceLDB
  <2> QED BY <2>1, <2>2
<1>5. CASE ~AtMutation(d, m)
  <2>1. d = k /\ UpdateCurrent(AdvanceLDB(d), m)
    BY <1>5 DEF Advance
  <2>2. m # k
    BY <1>1, <1>2, <1>5, <2>1 DEF AtMutation
  <2> QED BY <1>3, <2>1, <2>2 DEF AdvanceLDB
<1> QED BY <1>4, <1>5

\* However the iterator goes on, it searches for the key after its own.
LEMMA NextSearchesNextKey ==
    ASSUME TransactionInv, Next
    PROVE  /\ current.key \in Keys
           /\ UpdateCurrent(LowerBound(current.key + 1, OnDisk \ deletions),
                            LowerBound(current.key + 1, Pending))
<1> DEFINE k == current.key
           d == SeekDB(k)
           m == SeekMutations(k)
<1>1. /\ isValid /\ k \in Keys
      /\ lastVersion \in Int /\ version \in Int /\ lastVersion <= version
  BY DEF Next, TransactionInv, ValidHasEntry, TransactionTypeOK
<1>2. CASE lastVersion = version /\ Advance(dbPos, mutPos, isMutation)
  <2>1. /\ dbPos = d /\ mutPos = m
        /\ k = IF AtMutation(dbPos, mutPos) THEN mutPos ELSE dbPos
        /\ isMutation <=> AtMutation(dbPos, mutPos)
    BY <1>1, <1>2 DEF TransactionInv, PositionsFound
  <2> HIDE DEF k, d, m
  <2>2. UpdateCurrent(LowerBound(k + 1, OnDisk \ deletions),
                      LowerBound(k + 1, Pending))
    BY <1>1, <1>2, <2>1, AdvanceSearchesNextKey DEF d, m
  <2> QED BY <1>1, <2>2 DEF k
<1>3. /\ MaxKey \in Nat /\ End = MaxKey + 1 /\ Keys = 1 .. MaxKey
      /\ d \in 1 .. End /\ k <= d
      /\ m \in 1 .. End /\ k <= m
  BY <1>1, LowerBoundProperties, RowSets, TransactionAssumption
     DEF SeekDB, SeekMutations, IsLowerBound, End, Keys
<1>4. CASE k \in {d, m} /\ Advance(d, m, AtMutation(d, m))
  <2> HIDE DEF k, d, m
  <2>1. k = IF AtMutation(d, m) THEN m ELSE d
    BY <1>1, <1>3, <1>4 DEF AtMutation
  <2>2. UpdateCurrent(LowerBound(k + 1, OnDisk \ deletions),
                      LowerBound(k + 1, Pending))
    BY <1>1, <1>4, <2>1, AdvanceSearchesNextKey DEF d, m
  <2> QED BY <1>1, <2>2 DEF k
<1>5. CASE k \notin {d, m} /\ UpdateCurrent(d, m)
  <2>1. /\ d = LowerBound(k + 1, OnDisk \ deletions)
        /\ m = LowerBound(k + 1, Pending)
    BY <1>1, <1>5, SearchGoesOn, RowSets DEF SeekDB, SeekMutations
  <2> QED BY <1>1, <1>5, <2>1
<1> QED BY <1>2, <1>4, <1>5 DEF Next

-----------------------------------------------------------------------------
\* A transaction begins in step, whatever is on disk.
LEMMA BeginEstablishes ==
    ASSUME diskRows' \in [Keys -> Values \cup {None}], Begin
    PROVE  /\ TransactionInv'
           /\ View' = diskRows'
           /\ Cursor' = [key |-> 0, value |-> None]
<1> USE DEF Begin
<1>1. TransactionTypeOK'
  <2>1. End \in Keys \cup {End} /\ 0 \in 0 .. MaxChanges /\ 0 \in 0 .. 0
    BY TransactionAssumption
  <2>2. current' \in IteratorEntry
    BY DEF IteratorEntry
  <2> QED BY <2>1, <2>2 DEF TransactionTypeOK
<1>2. SetOrDeleted' /\ ValidHasEntry' /\ PositionsFound'
  BY DEF SetOrDeleted, ValidHasEntry, PositionsFound
<1>3. View' = diskRows'
  BY DEF View, Get
<1> QED BY <1>1, <1>2, <1>3 DEF TransactionInv, Cursor

\* Setting or deleting a key changes the view of that key and leaves the
\* cursor on the entry it handed out.
LEMMA SetOrDeleteStep ==
    ASSUME TransactionInv, NEW k \in Keys, NEW v \in Values \cup {None},
           \/ v # None /\ Put(k, v)
           \/ v = None /\ Delete(k)
    PROVE  TransactionInv' /\ V!Change(k, v)
<1>1. TransactionTypeOK /\ SetOrDeleted /\ ValidHasEntry
  BY DEF TransactionInv
<1>2. /\ mutations' = [mutations EXCEPT ![k] = v]
      /\ deletions' = IF v = None THEN deletions \cup {k} ELSE deletions \ {k}
      /\ version' = version + 1 /\ version < MaxChanges
      /\ UNCHANGED <<diskRows, dbPos, mutPos, lastVersion, isMutation, isValid, current>>
  BY DEF Put, Delete, iterVars
<1>3. MaxChanges \in Nat /\ version \in Nat /\ lastVersion \in Nat /\ lastVersion <= version
  BY <1>1, TransactionAssumption DEF TransactionTypeOK
<1>4. TransactionTypeOK'
  <2>1. /\ mutations' \in [Keys -> Values \cup {None}]
        /\ deletions' \in SUBSET Keys
        /\ version' \in 0 .. MaxChanges
        /\ lastVersion' \in 0 .. version'
    BY <1>1, <1>2, <1>3 DEF TransactionTypeOK
  <2>2. OnDisk' = OnDisk
    BY <1>2 DEF OnDisk
  <2> QED BY <1>1, <1>2, <2>1, <2>2 DEF TransactionTypeOK
<1>5. SetOrDeleted'
  BY <1>1, <1>2 DEF SetOrDeleted, TransactionTypeOK
<1>6. ValidHasEntry' /\ PositionsFound'
  BY <1>1, <1>2, <1>3 DEF ValidHasEntry, PositionsFound
<1>7. View' = [View EXCEPT ![k] = v]
  <2>1. ASSUME NEW j \in Keys
        PROVE  Get(j)' = IF j = k THEN v ELSE Get(j)
    BY <1>1, <1>2 DEF Get, TransactionTypeOK
  <2> QED BY <2>1 DEF View
<1>8. Cursor' = Cursor
  BY <1>2 DEF Cursor
<1> QED BY <1>2, <1>4, <1>5, <1>6, <1>7, <1>8
        DEF TransactionInv, V!Change, View, Cursor

\* Every step keeps the iterator in step, and is a step of OrderedView or
\* none at all.
LEMMA StepRefines ==
    ASSUME TransactionInv, [Step]_vars
    PROVE  TransactionInv' /\ [V!Step]_(V!viewVars)
<1> USE DEF V!Keys, Keys
<1>1. TransactionTypeOK /\ SetOrDeleted
  BY DEF TransactionInv
<1>2. ASSUME NEW k \in Keys, NEW v \in Values, Put(k, v)
      PROVE  TransactionInv' /\ V!Step
  <2>1. v # None
    BY TransactionAssumption
  <2>2. TransactionInv' /\ V!Change(k, v)
    BY <1>2, <2>1, SetOrDeleteStep
  <2> QED BY <2>2 DEF V!Step
<1>3. ASSUME NEW k \in Keys, Delete(k)
      PROVE  TransactionInv' /\ V!Step
  <2>1. TransactionInv' /\ V!Change(k, None)
    BY <1>3, SetOrDeleteStep
  <2> QED BY <2>1 DEF V!Step
<1>4. ASSUME NEW k \in Keys, Seek(k)
      PROVE  TransactionInv' /\ V!Step
  <2>1. /\ UpdateCurrent(LowerBound(k, OnDisk \ deletions), LowerBound(k, Pending))
        /\ lastVersion' = version
        /\ UNCHANGED <<diskRows, mutations, deletions, version>>
    BY <1>4 DEF Seek, SeekDB, SeekMutations
  <2>2. /\ TransactionInv' /\ View' = View
        /\ Cursor' \in IteratorEntry /\ V!IsFirst(Cursor', k .. MaxKey, View)
    BY <2>1, UpdateFindsFirst, RowSets
  <2>3. V!Seek(k)
    BY <2>1, <2>2 DEF V!Seek, View, Cursor, IteratorEntry
  <2> QED BY <2>2, <2>3 DEF V!Step
<1>5. CASE Next
  <2>1. /\ current.key \in Keys
        /\ UpdateCurrent(LowerBound(current.key + 1, OnDisk \ deletions),
                         LowerBound(current.key + 1, Pending))
        /\ isValid
        /\ lastVersion' = version
        /\ UNCHANGED <<diskRows, mutations, deletions, version>>
    BY <1>5, NextSearchesNextKey DEF Next
  <2>2. /\ TransactionInv' /\ View' = View
        /\ Cursor' \in IteratorEntry
        /\ V!IsFirst(Cursor', current.key + 1 .. MaxKey, View)
    <3> DEFINE k == current.key + 1
    <3>1. k \in 1 .. End
      BY <2>1, RowSets
    <3>2. UpdateCurrent(LowerBound(k, OnDisk \ deletions), LowerBound(k, Pending))
      BY <2>1
    <3> HIDE DEF k
    <3>3. /\ TransactionInv' /\ View' = View
          /\ Cursor' \in IteratorEntry /\ V!IsFirst(Cursor', k .. MaxKey, View)
      BY <2>1, <3>1, <3>2, UpdateFindsFirst
    <3> QED BY <3>3 DEF k
  <2>3. Cursor = current /\ Cursor # [key |-> 0, value |-> None]
    <3>1. 0 \notin Keys
      BY RowSets DEF Keys
    <3> QED BY <2>1, <3>1 DEF Cursor
  <2>4. V!Next
    BY <2>1, <2>2, <2>3 DEF V!Next, V!NoEntry, View, Cursor, IteratorEntry
  <2> QED BY <2>2, <2>4 DEF V!Step
<1>6. CASE NewIterator
  <2>1. /\ isValid' = FALSE /\ current' = [key |-> 0, value |-> None]
        /\ lastVersion' = version /\ isMutation' = FALSE
        /\ dbPos' = End /\ mutPos' = LowerBound(1, Pending)
        /\ UNCHANGED <<diskRows, mutations, deletions, version>>
    BY <1>6 DEF NewIterator
  <2>2. mutPos' \in Keys \cup {End}
    <3>1. 1 \in 1 .. End
      BY TransactionAssumption DEF End
    <3> QED BY <2>1, <3>1, LowerBoundProperties, RowSets DEF IsLowerBound
  <2>3. TransactionInv'
    <3>1. current' \in IteratorEntry
      BY <2>1 DEF IteratorEntry
    <3>2. lastVersion' \in 0 .. version' /\ version' \in 0 .. MaxChanges
      BY <1>1, <2>1 DEF TransactionTypeOK
    <3>3. TransactionTypeOK'
      BY <1>1, <2>1, <2>2, <3>1, <3>2 DEF TransactionTypeOK
    <3> QED BY <1>1, <2>1, <3>3
            DEF TransactionInv, SetOrDeleted, ValidHasEntry, PositionsFound
  <2>4. View' = View /\ Cursor' = [key |-> 0, value |-> None]
    BY <2>1 DEF View, Get, Cursor
  <2>5. V!NewCursor
    BY <2>1, <2>4 DEF V!NewCursor, V!NoEntry, View, Cursor
  <2> QED BY <2>3, <2>5 DEF V!Step
<1>7. CASE Commit
  <2>1. diskRows' = View
    BY <1>1, <1>7 DEF Commit, View, Get, SetOrDeleted
  <2>2. diskRows' \in [Keys -> Values \cup {None}]
    BY <1>1, <1>7 DEF Commit, TransactionTypeOK
  <2>3. /\ TransactionInv' /\ View' = diskRows'
        /\ Cursor' = [key |-> 0, value |-> None]
    BY <1>7, <2>2, BeginEstablishes DEF Commit
  <2>4. V!Commit
    BY <2>1, <2>3 DEF V!Commit, V!NoEntry, View, Cursor
  <2> QED BY <2>3, <2>4 DEF V!Step
<1>8. CASE Crash
  <2>1. diskRows' = diskRows /\ diskRows' \in [Keys -> Values \cup {None}]
    BY <1>1, <1>8 DEF Crash, TransactionTypeOK
  <2>2. /\ TransactionInv' /\ View' = diskRows'
        /\ Cursor' = [key |-> 0, value |-> None]
    BY <1>8, <2>1, BeginEstablishes DEF Crash
  <2>3. V!Abandon
    BY <2>1, <2>2 DEF V!Abandon, V!NoEntry, View, Cursor
  <2> QED BY <2>2, <2>3 DEF V!Step
<1>9. CASE UNCHANGED vars
  <2> USE DEF vars, iterVars
  <2>1. TransactionInv'
    BY <1>9 DEF TransactionInv, TransactionTypeOK, SetOrDeleted, ValidHasEntry,
                PositionsFound, IteratorEntry, OnDisk, Pending, SeekDB, SeekMutations,
                LowerBound, AtMutation, Get
  <2>2. UNCHANGED V!viewVars
    BY <1>9 DEF V!viewVars, Get
  <2> QED BY <2>1, <2>2
<1> QED BY <1>2, <1>3, <1>4, <1>5, <1>6, <1>7, <1>8, <1>9 DEF Step

\* A transaction begins without changes, and its view is that of the database.
LEMMA InitRefines ==
    ASSUME Init
    PROVE  TransactionInv /\ V!Init
<1> USE DEF Init
<1>1. TransactionTypeOK
  <2>1. End \in Keys \cup {End} /\ 0 \in 0 .. MaxChanges /\ 0 \in 0 .. 0
    BY TransactionAssumption
  <2>2. current \in IteratorEntry
    BY DEF IteratorEntry
  <2> QED BY <2>1, <2>2 DEF TransactionTypeOK
<1>2. SetOrDeleted /\ ValidHasEntry /\ PositionsFound
  BY DEF SetOrDeleted, ValidHasEntry, PositionsFound
<1>3. [k \in Keys |-> Get(k)] = diskRows
  BY DEF Get
<1> QED BY <1>1, <1>2, <1>3 DEF TransactionInv, V!Init, V!NoEntry, V!Keys, Keys

-----------------------------------------------------------------------------
\* What the invariant says of an iterator in step.
LEMMA InStep ==
    ASSUME TransactionInv
    PROVE  IteratorInSync
<1>1. TransactionTypeOK /\ SetOrDeleted /\ ValidHasEntry /\ PositionsFound
  BY DEF TransactionInv
<1>2. MaxKey \in Nat /\ End = MaxKey + 1 /\ Keys = 1 .. MaxKey
  BY TransactionAssumption DEF End, Keys
<1>3. ASSUME isValid, lastVersion = version
      PROVE  /\ mutPos \in Pending \cup {End}
             /\ dbPos \in (OnDisk \ deletions) \cup {End}
             /\ current.key = Min({dbPos, mutPos})
             /\ isMutation <=> AtMutation(dbPos, mutPos)
             /\ current.value = Get(current.key)
             /\ current.value # None
  <2>1. /\ dbPos = SeekDB(current.key) /\ mutPos = SeekMutations(current.key)
        /\ current.key = IF AtMutation(dbPos, mutPos) THEN mutPos ELSE dbPos
        /\ isMutation <=> AtMutation(dbPos, mutPos)
        /\ current.value = Get(current.key)
        /\ current.key \in Keys /\ current.value # None
    BY <1>1, <1>3 DEF PositionsFound, ValidHasEntry
  <2>2. /\ dbPos \in (OnDisk \ deletions) \cup {End} /\ dbPos \in 1 .. End
        /\ mutPos \in Pending \cup {End} /\ mutPos \in 1 .. End
    BY <2>1, LowerBoundProperties, RowSets DEF SeekDB, SeekMutations, IsLowerBound
  <2>3. current.key = Min({dbPos, mutPos})
    <3>1. /\ current.key \in {dbPos, mutPos}
          /\ \A x \in {dbPos, mutPos} : current.key <= x
      BY <1>2, <2>1, <2>2 DEF AtMutation
    <3>2. {dbPos, mutPos} \in SUBSET Int /\ {dbPos, mutPos} # {}
      BY <2>2
    <3>3. IsFiniteSet({dbPos, mutPos})
      <4>1. IsFiniteSet(1 .. End)
        BY <1>2, FS_Interval
      <4>2. {dbPos, mutPos} \in SUBSET (1 .. End)
        BY <2>2
      <4> QED BY <4>1, <4>2, FS_Subset
    <3>4. /\ Min({dbPos, mutPos}) \in {dbPos, mutPos}
          /\ \A x \in {dbPos, mutPos} : Min({dbPos, mutPos}) <= x
      BY <3>2, <3>3, MinProperties
    <3> QED BY <2>2, <3>1, <3>4
  <2> QED BY <2>1, <2>2, <2>3
<1> QED BY <1>1, <1>3 DEF IteratorInSync

\* The code's iterator is right about where it stands, whatever is set and
\* deleted around it: an iterator that has seen every change stands on rows
\* that exist and hands out what the transaction would read.
THEOREM IteratorStaysInSync == Spec => []IteratorInSync
<1>1. Init => TransactionInv
  BY InitRefines
<1>2. TransactionInv /\ [Step]_vars => TransactionInv'
  BY StepRefines
<1>3. TransactionInv => IteratorInSync
  BY InStep
<1> QED BY <1>1, <1>2, <1>3, PTL DEF Spec

\* The merge of pending and stored rows is a map with a cursor that visits
\* every key once and in order while the map changes, and a commit is atomic.
THEOREM TransactionImplementsView == Spec => ImplementsView
<1>1. Init => TransactionInv /\ V!Init
  BY InitRefines
<1>2. TransactionInv /\ [Step]_vars => TransactionInv' /\ [V!Step]_(V!viewVars)
  BY StepRefines
<1> QED BY <1>1, <1>2, PTL DEF Spec, ImplementsView, V!Spec
=============================================================================
