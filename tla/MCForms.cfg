\* Numbers of up to two digits, so that leading zeros and the length limit matter; a
\* category whose description differs from its name and one that cannot be read back.
SPECIFICATION FormsSpec
CONSTANTS
  Amounts = {0, 1, 10, 11}
  Dates = {1}
  PickableTypes = {"Income", "Expense"}
  PickableCategories = {"EatingOut", "Other"}
  Nil = Nil
  NSNull = NSNull
  Digits = {0, 1}
  Letter = Letter
  MaxLength = 2
  MaxTyped = 1
  MaxRows = 2
INVARIANTS
  FormsTypeOK
  RowsDisplayable
  CategoryKept
  DetailHasRow
PROPERTIES
  ImplementsBook
