-------------------------- MODULE TransactionRecord --------------------------
(***************************************************************************)
(* The data of the program: the enumerations Category and TransactionType, *)
(* the payload of a Transaction object, the fields written to Firestore    *)
(* and the way they are read back.  Swift's nil is Nil; the SDK writes a   *)
(* nil that was cast with "as Any" as an NSNull value.                     *)
(***************************************************************************)
CONSTANTS Amounts,             \* the amounts a user may type
          Dates,               \* the dates a user may pick
          PickableTypes,       \* the rows of the type picker
          PickableCategories,  \* the rows of the category picker
          Nil,                 \* Swift's nil
          NSNull               \* Firestore's null value

Category == {"Clothes", "EatingOut", "Entertainment", "Fuel", "Kids",
             "Shopping", "Sport", "Travel", "Other", "None"}

TransactionType == {"Income", "Expense", "None"}

\* The computed property "description" of the two enumerations.
CategoryDescription(c) == IF c = "EatingOut" THEN "Eating out" ELSE c
TypeDescription(t) == t

CategoryDescriptions == {CategoryDescription(c) : c \in Category}
TypeDescriptions == {TypeDescription(t) : t \in TransactionType}

\* What setCategory and setTransactionType recognise: neither "Other" nor
\* "None" is a case of the first switch, "None" is none of the second.
ReadableCategories == Category \ {"Other", "None"}
ReadableTypes == {"Income", "Expense"}

\* Neither the type picker has a row for "None", nor can a nil be picked.
ASSUME PickerAssumption == /\ PickableTypes \subseteq ReadableTypes
                           /\ PickableCategories \subseteq Category
ASSUME NilAssumption == /\ Nil \notin Category \cup TransactionType
                        /\ NSNull \notin CategoryDescriptions \cup TypeDescriptions

\* A Transaction object without its id.
Content == [transactionType : TransactionType \cup {Nil},
            category        : Category \cup {Nil},
            amount          : Amounts,
            date            : Dates]

\* The four fields of a document that an edit rewrites.
StoredContent == [transactionType : TypeDescriptions \cup {NSNull},
                  category        : CategoryDescriptions \cup {NSNull},
                  amount          : Amounts,
                  date            : Dates]

\* transaction.category?.description as Any, and the same for the type.
Encode(c) ==
    [transactionType |-> IF c.transactionType = Nil THEN NSNull
                         ELSE TypeDescription(c.transactionType),
     category        |-> IF c.category = Nil THEN NSNull
                         ELSE CategoryDescription(c.category),
     amount          |-> c.amount,
     date            |-> c.date]

\* The value the field has after setCategory(categoryName: name) on a new
\* object: a name that no case of the switch matches leaves it nil.
setCategory(name) ==
    IF \E c \in ReadableCategories : CategoryDescription(c) = name
    THEN CHOOSE c \in ReadableCategories : CategoryDescription(c) = name
    ELSE Nil

setTransactionType(name) ==
    IF \E t \in ReadableTypes : TypeDescription(t) = name
    THEN CHOOSE t \in ReadableTypes : TypeDescription(t) = name
    ELSE Nil

\* The object the loading loop builds from a document.
Decode(s) == [transactionType |-> setTransactionType(s.transactionType),
              category        |-> setCategory(s.category),
              amount          |-> s.amount,
              date            |-> s.date]

-----------------------------------------------------------------------------
\* What the add form can make: everything was picked or typed.
NewContents == [transactionType : PickableTypes, category : PickableCategories,
                amount : Amounts, date : Dates]

\* What the detail form may save over the content c: the type and the category
\* are kept or picked, the amount and the date are read from their fields.
EditedContents(c) ==
    [transactionType : PickableTypes \cup {c.transactionType},
     category        : PickableCategories \cup {c.category},
     amount          : Amounts,
     date            : Dates]
=============================================================================
