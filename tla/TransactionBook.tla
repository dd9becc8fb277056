--------------------------- MODULE TransactionBook ---------------------------
(***************************************************************************)
(* What the transactions tab promises, whatever its screens do on the way: *)
(* a list of transactions that changes only by a complete new entry, by an *)
(* edit that keeps or replaces each field with something that could be     *)
(* picked or typed, by the removal of one entry, or by a reload from what  *)
(* was stored.                                                             *)
(***************************************************************************)
EXTENDS TransactionRecord, Ordering

VARIABLE book   \* the contents of the rows, in order

BookInit == book = << >>

AddEntry == \E c \in NewContents : book' = Append(book, c)

EditEntry == \E i \in DOMAIN book : \E c \in EditedContents(book[i]) :
                book' = [book EXCEPT ![i] = c]

RemoveEntry == \E i \in DOMAIN book :
                  book' = Subsequence(book, DOMAIN book \ {i})

\* The orders in which n documents may come back: their keys are random.
Orders(n) == {p \in [1 .. n -> 1 .. n] :
                 \A i, j \in 1 .. n : p[i] = p[j] => i = j}

ReloadBook == \E p \in Orders(Len(book)) :
                 book' = [i \in 1 .. Len(book) |-> Decode(Encode(book[p[i]]))]

BookNext == AddEntry \/ EditEntry \/ RemoveEntry \/ ReloadBook

BookSpec == BookInit /\ [][BookNext]_book
=============================================================================
