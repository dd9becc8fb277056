--------------------------- MODULE LogFormatProofs ---------------------------
(***************************************************************************)
(* The log format, for any sizes of blocks, headers and records and        *)
(* wherever the writer dies: what is read is a prefix of the records, it   *)
(* holds all that are whole in the file, and nothing is reported.          *)
(*                                                                         *)
(* The reader and the writer agree because each place in the file is one   *)
(* of three: the start of the next fragment, fewer bytes before the end of *)
(* a block than a header takes, or the end of the file.                    *)
(***************************************************************************)
EXTENDS LogFormat, SequenceTheorems, TLAPS

\* Where blocks begin.
Boundaries == {k * BlockSize : k \in Nat}

\* The end of the first m fragments, the record of the last of them, and
\* whether that is complete.
EndOf(m) == IF m = 0 THEN 0 ELSE After(file[m])
RecordOf(m) == IF m = 0 THEN 0 ELSE file[m].record
Starts(f) == f.type \in {"full", "first"}
Ends(f) == f.type \in {"full", "last"}
Closed(m) == m = 0 \/ Ends(file[m])

\* x is where something may begin behind n: there, or at the next block if no
\* header fits before it.
Follows(n, x) == x = n \/ (x \in Boundaries /\ n < x /\ x - n < HeaderSize)

InBlock(f) == \E b \in Boundaries : b <= f.start /\ After(f) <= b + BlockSize

\* The fragments lie one behind the other, each within a block.
Layout ==
    /\ \A i \in DOMAIN file : InBlock(file[i]) /\ Follows(EndOf(i - 1), file[i].start)
    /\ \A i, j \in DOMAIN file : i < j => After(file[i]) <= file[j].start
    /\ \E b \in Boundaries : Bytes = b + blockOffset

\* Records are numbered, and each is one fragment or a first one, middle ones
\* and a last one.
Numbered ==
    /\ \A i \in DOMAIN file :
         /\ file[i].record >= 1
         /\ file[i].record = IF Closed(i - 1) THEN RecordOf(i - 1) + 1 ELSE RecordOf(i - 1)
         /\ Starts(file[i]) <=> Closed(i - 1)
    /\ \A i, j \in DOMAIN file :
         i < j => /\ file[i].record <= file[j].record
                  /\ Ends(file[i]) \/ Starts(file[j]) => file[i].record < file[j].record

\* The record being added follows those in the file.
Adding ==
    /\ begin => left # None
    /\ Closed(Len(file)) <=> left = None \/ begin
    /\ added = IF begin THEN RecordOf(Len(file)) + 1 ELSE RecordOf(Len(file))

\* The first m fragments contain record n, which is r.
IsRecord(n, r, m) ==
    \E last \in 1 .. m : \E first \in 1 .. last :
      /\ FragmentsOf(n) = first .. last
      /\ r = SubSeq(file, first, last)
      /\ Ends(file[last])

\* The records of the first m fragments have been found.
FoundUpTo(m) ==
    /\ \A n \in DOMAIN found : IsRecord(n, found[n], m)
    /\ Len(found) = IF Closed(m) THEN RecordOf(m) ELSE RecordOf(m) - 1

\* The reader is between the first m fragments and the others.
Between(m) ==
    /\ FoundUpTo(m)
    /\ Follows(EndOf(m), position)
    /\ IF Closed(m) THEN scratch = << >>
       ELSE \E s \in 1 .. m : /\ Starts(file[s]) /\ file[s].record = RecordOf(m)
                              /\ scratch = SubSeq(file, s, m)

\* The buffer is a block, or less at the end of the file.
Buffer ==
    /\ IF eof THEN end = size ELSE end \in Boundaries
    /\ \E b \in Boundaries : b <= position /\ end <= b + BlockSize

\* Nothing that is left is all there.
AllRead(m) ==
    /\ FoundUpTo(m)
    /\ EndOf(m) <= size
    /\ m < Len(file) => size < After(file[m + 1])

\* The inductive invariant.
LogInv ==
    /\ LogFormatTypeOK
    /\ Layout
    /\ Numbered
    /\ Adding
    /\ size <= Bytes
    /\ ~corruption
    /\ phase = "writing" => /\ size = 0 /\ position = 0 /\ end = 0 /\ ~eof
                            /\ scratch = << >> /\ found = << >>
    /\ phase = "reading" => /\ \E m \in 0 .. Len(file) : Between(m)
                            /\ Buffer
    /\ phase = "done" => \E m \in 0 .. Len(file) : AllRead(m)

-----------------------------------------------------------------------------
\* Blocks.

\* The boundaries of blocks are a block apart.
LEMMA BoundaryFacts ==
    /\ 0 \in Boundaries /\ Boundaries \subseteq Nat
    /\ \A x \in Boundaries : x + BlockSize \in Boundaries
    /\ \A x, y \in Boundaries : x < y => x + BlockSize <= y
<1>1. BlockSize \in Nat /\ BlockSize > 0
  BY LogFormatAssumption
<1>2. 0 \in Boundaries
  <2>1. 0 * BlockSize = 0
    BY <1>1
  <2> QED BY <2>1 DEF Boundaries
<1>3. ASSUME NEW k \in Nat
      PROVE  /\ k * BlockSize \in Nat
             /\ (k + 1) * BlockSize = k * BlockSize + BlockSize
  BY <1>1
<1>4. Boundaries \subseteq Nat /\ \A x \in Boundaries : x + BlockSize \in Boundaries
  BY <1>3 DEF Boundaries
<1>5. ASSUME NEW x \in Boundaries, NEW y \in Boundaries, x < y
      PROVE  x + BlockSize <= y
  <2>1. PICK k \in Nat, j \in Nat : x = k * BlockSize /\ y = j * BlockSize
    BY DEF Boundaries
  <2>2. k < j
    <3> SUFFICES ASSUME j <= k PROVE FALSE
      BY <2>1
    <3>1. PICK d \in Nat : k = j + d
      <4>1. k - j \in Nat /\ k = j + (k - j)
        OBVIOUS
      <4> QED BY <4>1
    <3>2. k * BlockSize = j * BlockSize + d * BlockSize /\ d * BlockSize >= 0
      BY <1>1, <3>1
    <3> QED BY <1>1, <1>3, <1>5, <2>1, <3>2
  <2>3. PICK d \in Nat : j = k + 1 + d
    <3>1. j - k - 1 \in Nat /\ j = k + 1 + (j - k - 1)
      BY <2>2
    <3> QED BY <3>1
  <2>4. j * BlockSize = (k + 1) * BlockSize + d * BlockSize /\ d * BlockSize >= 0
    BY <1>1, <2>3
  <2> QED BY <1>1, <1>3, <2>1, <2>4
<1> QED BY <1>2, <1>4, <1>5

\* A fragment's fields, and where it ends.
LEMMA FragmentFields ==
    ASSUME NEW f \in Fragment
    PROVE  /\ f.type \in Type /\ f.record \in Nat /\ f.start \in Nat /\ f.length \in Nat
           /\ After(f) \in Nat /\ f.start + HeaderSize <= After(f)
           /\ After(f) = f.start + HeaderSize + f.length
BY LogFormatAssumption DEF Fragment, After

\* The fragments of the file, and the places at its ends.
LEMMA FileFacts ==
    ASSUME LogFormatTypeOK
    PROVE  /\ Len(file) \in Nat /\ DOMAIN file = 1 .. Len(file)
           /\ \A i \in 1 .. Len(file) : file[i] \in Fragment
           /\ \A m \in 0 .. Len(file) : EndOf(m) \in Nat /\ RecordOf(m) \in Nat
           /\ EndOf(0) = 0 /\ RecordOf(0) = 0 /\ Closed(0)
           /\ \A i \in 1 .. Len(file) : /\ EndOf(i) = After(file[i])
                                        /\ RecordOf(i) = file[i].record
                                        /\ Closed(i) <=> Ends(file[i])
           /\ Bytes = EndOf(Len(file)) /\ Bytes \in Nat
<1>1. /\ Len(file) \in Nat /\ DOMAIN file = 1 .. Len(file)
      /\ \A i \in 1 .. Len(file) : file[i] \in Fragment
      /\ file = << >> <=> Len(file) = 0
  BY DEF LogFormatTypeOK
<1>2. \A i \in 1 .. Len(file) : i # 0 /\ i \in Nat
  BY <1>1
<1>3. /\ EndOf(0) = 0 /\ RecordOf(0) = 0 /\ Closed(0)
      /\ \A i \in 1 .. Len(file) : /\ EndOf(i) = After(file[i])
                                   /\ RecordOf(i) = file[i].record
                                   /\ Closed(i) <=> Ends(file[i])
  BY <1>2 DEF EndOf, RecordOf, Closed
<1>4. \A i \in 1 .. Len(file) : EndOf(i) \in Nat /\ RecordOf(i) \in Nat
  BY <1>1, <1>3, FragmentFields
<1>5. \A m \in 0 .. Len(file) : m = 0 \/ m \in 1 .. Len(file)
  BY <1>1
<1>6. \A m \in 0 .. Len(file) : EndOf(m) \in Nat /\ RecordOf(m) \in Nat
  BY <1>3, <1>4, <1>5
<1>7. Bytes = EndOf(Len(file))
  BY <1>1 DEF Bytes, EndOf
<1>8. Len(file) \in 0 .. Len(file)
  BY <1>1
<1> QED BY <1>1, <1>3, <1>6, <1>7, <1>8

-----------------------------------------------------------------------------
\* The writer.

\* At first.
LEMMA LogInit == Init => LogInv
<1> SUFFICES ASSUME Init PROVE LogInv
  OBVIOUS
<1>1. LogFormatTypeOK
  <2>1. 0 \in 0 .. MaxRecords /\ 0 \in 0 .. BlockSize /\ 0 \in 0 .. 0 /\ 0 \in Nat
    BY LogFormatAssumption
  <2>2. << >> \in Seq(Fragment) /\ << >> \in Seq(Seq(Fragment))
    OBVIOUS
  <2> QED BY <2>1, <2>2 DEF Init, LogFormatTypeOK
<1>2. file = << >> /\ Len(file) = 0 /\ DOMAIN file = {} /\ Bytes = 0
  BY DEF Init, Bytes
<1>3. Layout
  BY <1>2, BoundaryFacts DEF Init, Layout
<1>4. Numbered
  BY <1>2 DEF Numbered
<1>5. Adding
  BY <1>2 DEF Init, Adding, Closed, RecordOf
<1> QED BY <1>1, <1>2, <1>3, <1>4, <1>5 DEF Init, LogInv

\* A record is begun.
LEMMA AddStep == LogInv /\ AddRecord => LogInv'
<1> SUFFICES ASSUME LogInv, AddRecord PROVE LogInv'
  OBVIOUS
<1>1. /\ phase = "writing" /\ left = None /\ added < MaxRecords
      /\ left' \in 0 .. MaxLength /\ begin' = TRUE /\ added' = added + 1
      /\ UNCHANGED <<phase, blockOffset, file, size, position, end, eof, scratch, found,
                     corruption>>
  BY DEF AddRecord, reader
<1>2. LogFormatTypeOK'
  BY <1>1, LogFormatAssumption DEF LogInv, LogFormatTypeOK
<1>3. Layout' /\ Numbered' /\ Bytes' = Bytes
  BY <1>1 DEF LogInv, Layout, Numbered, Bytes, EndOf, RecordOf, Closed
<1>4. Adding'
  <2>1. ~begin /\ Closed(Len(file)) /\ added = RecordOf(Len(file))
    BY <1>1 DEF LogInv, Adding
  <2>2. left' # None
    BY <1>1, LogFormatAssumption DEF None
  <2> QED BY <1>1, <2>1, <2>2 DEF Adding, Closed, RecordOf
<1> QED BY <1>1, <1>2, <1>3, <1>4 DEF LogInv

\* A fragment is written.
LEMMA EmitStep == LogInv /\ EmitPhysicalRecord => LogInv'
<1> SUFFICES ASSUME LogInv, EmitPhysicalRecord PROVE LogInv'
  OBVIOUS
<1> DEFINE leftover == BlockSize - blockOffset
           trailer == IF leftover < HeaderSize THEN leftover ELSE 0
           offset == IF leftover < HeaderSize THEN 0 ELSE blockOffset
           avail == BlockSize - offset - HeaderSize
           length == IF left < avail THEN left ELSE avail
           f == [type |-> FragmentType(begin, left = length), record |-> added,
                 start |-> Bytes + trailer, length |-> length]
<1>1. /\ phase = "writing" /\ left # None
      /\ file' = Append(file, f)
      /\ blockOffset' = offset + HeaderSize + length
      /\ left' = IF left = length THEN None ELSE left - length
      /\ begin' = FALSE
      /\ UNCHANGED <<phase, added, size, position, end, eof, scratch, found, corruption>>
  BY DEF EmitPhysicalRecord, reader
<1>2. /\ LogFormatTypeOK
      /\ added \in Nat /\ left \in 0 .. MaxLength /\ blockOffset \in 0 .. BlockSize
      /\ begin \in BOOLEAN /\ file \in Seq(Fragment)
      /\ BlockSize \in Nat /\ HeaderSize \in Nat /\ HeaderSize > 0 /\ BlockSize > HeaderSize
      /\ MaxLength \in Nat
  BY <1>1, LogFormatAssumption DEF LogInv, LogFormatTypeOK
<1> PICK m \in Nat : m = Len(file)
  BY <1>2, FileFacts
<1>3. /\ m = Len(file) /\ DOMAIN file = 1 .. m
      /\ \A i \in 1 .. m : file[i] \in Fragment
      /\ \A i \in 0 .. m : EndOf(i) \in Nat /\ RecordOf(i) \in Nat
      /\ Bytes = EndOf(m) /\ Bytes \in Nat
      /\ \A i \in 1 .. m : EndOf(i) = After(file[i]) /\ RecordOf(i) = file[i].record
                           /\ (Closed(i) <=> Ends(file[i]))
  BY <1>2, FileFacts
<1>4. /\ leftover \in Nat /\ trailer \in Nat /\ trailer < HeaderSize
      /\ offset \in Nat /\ avail \in Nat /\ length \in Nat
      /\ length <= left /\ length <= avail
      /\ blockOffset' \in 0 .. BlockSize
      /\ offset = IF leftover < HeaderSize THEN 0 ELSE blockOffset
      /\ trailer = IF leftover < HeaderSize THEN leftover ELSE 0
      /\ leftover = BlockSize - blockOffset
      /\ avail = BlockSize - offset - HeaderSize
  BY <1>1, <1>2
<1> HIDE DEF leftover, trailer, offset, avail, length
<1>5. /\ f \in Fragment /\ f.type = FragmentType(begin, left = length) /\ f.record = added
      /\ f.start = Bytes + trailer /\ f.length = length
      /\ After(f) = f.start + HeaderSize + length /\ After(f) \in Nat
  <2>1. FragmentType(begin, left = length) \in Type
    BY DEF FragmentType, Type
  <2> QED BY <1>2, <1>3, <1>4, <2>1 DEF Fragment, After
<1> HIDE DEF f
<1>6. /\ file' \in Seq(Fragment) /\ Len(file') = m + 1 /\ DOMAIN file' = 1 .. m + 1
      /\ \A i \in 1 .. m : file'[i] = file[i]
      /\ file'[m + 1] = f
  BY <1>1, <1>2, <1>5, AppendProperties
<1>7. /\ \A i \in 0 .. m : /\ EndOf(i)' = EndOf(i) /\ RecordOf(i)' = RecordOf(i)
                           /\ Closed(i)' <=> Closed(i)
      /\ EndOf(m + 1)' = After(f) /\ RecordOf(m + 1)' = added /\ (Closed(m + 1)' <=> Ends(f))
      /\ Bytes' = After(f)
  <2>1. /\ \A i \in 0 .. m : i = 0 \/ i \in 1 .. m
        /\ \A i \in 1 .. m : i # 0
        /\ m + 1 # 0
    BY <1>3
  <2>2. Bytes' = After(f)
    BY <1>6 DEF Bytes
  <2> QED BY <1>5, <1>6, <2>1, <2>2 DEF EndOf, RecordOf, Closed
<1>8. LogFormatTypeOK'
  <2>1. left' \in {None} \cup 0 .. MaxLength
    BY <1>1, <1>2, <1>4
  <2> QED BY <1>1, <1>2, <1>4, <1>6, <2>1 DEF LogFormatTypeOK
<1>9. PICK b \in Boundaries : b \in Nat /\ Bytes = b + blockOffset /\ b + BlockSize \in Boundaries
  BY BoundaryFacts DEF LogInv, Layout
<1>10. /\ InBlock(f) /\ Follows(Bytes, f.start)
       /\ \E c \in Boundaries : After(f) = c + blockOffset'
  <2>1. CASE leftover < HeaderSize
    <3>1. f.start = b + BlockSize /\ offset = 0
      BY <1>2, <1>3, <1>4, <1>5, <1>9, <2>1
    <3>2. InBlock(f) /\ After(f) = (b + BlockSize) + blockOffset'
      BY <1>1, <1>2, <1>4, <1>5, <1>9, <3>1 DEF InBlock
    <3>3. Follows(Bytes, f.start)
      BY <1>2, <1>3, <1>4, <1>5, <1>9, <2>1, <3>1, SMTT(30) DEF Follows
    <3> QED BY <1>9, <3>2, <3>3
  <2>2. CASE ~(leftover < HeaderSize)
    <3>1. f.start = Bytes /\ f.start = b + blockOffset /\ offset = blockOffset
      BY <1>2, <1>3, <1>4, <1>5, <1>9, <2>2
    <3>2. b <= f.start /\ After(f) <= b + BlockSize /\ After(f) = b + blockOffset'
      BY <1>1, <1>2, <1>4, <1>5, <1>9, <3>1
    <3> QED BY <1>9, <3>1, <3>2 DEF InBlock, Follows
  <2> QED BY <2>1, <2>2
<1>11. Layout'
  <2>1. ASSUME NEW i \in 1 .. m + 1
        PROVE  InBlock(file'[i]) /\ Follows(EndOf(i - 1)', file'[i].start)
    <3>1. CASE i = m + 1
      <4>1. i - 1 = m /\ m \in 0 .. m
        BY <1>3, <3>1
      <4> QED BY <1>3, <1>6, <1>7, <1>10, <3>1, <4>1
    <3>2. CASE i # m + 1
      <4>1. i \in 1 .. m /\ i - 1 \in 0 .. m
        BY <1>3, <3>2
      <4> QED BY <1>3, <1>6, <1>7, <4>1 DEF LogInv, Layout
    <3> QED BY <3>1, <3>2
  <2>2. ASSUME NEW i \in 1 .. m + 1, NEW j \in 1 .. m + 1, i < j
        PROVE  After(file'[i]) <= file'[j].start
    <3>1. i \in 1 .. m
      BY <1>3, <2>2
    <3>2. CASE j = m + 1
      <4>1. After(file[i]) <= Bytes
        <5>1. CASE i = m
          BY <1>3, <3>1, <5>1
        <5>2. CASE i # m
          <6>1. m \in 1 .. m /\ i < m
            BY <1>3, <3>1, <5>2
          <6>2. After(file[i]) <= file[m].start
            BY <1>3, <3>1, <6>1 DEF LogInv, Layout
          <6>3. /\ file[m].start \in Nat /\ file[m].start <= After(file[m])
                /\ After(file[i]) \in Nat /\ After(file[m]) \in Nat
            BY <1>2, <1>3, <3>1, <6>1, FragmentFields, SMTT(30)
          <6> QED BY <1>3, <6>1, <6>2, <6>3
        <5> QED BY <5>1, <5>2
      <4>2. After(file[i]) \in Nat
        BY <1>3, <3>1, FragmentFields
      <4>3. After(file[i]) <= f.start
        BY <1>3, <1>4, <1>5, <4>1, <4>2
      <4> QED BY <1>6, <3>1, <3>2, <4>3
    <3>3. CASE j # m + 1
      <4>1. j \in 1 .. m
        BY <1>3, <3>3
      <4> QED BY <1>3, <1>6, <2>2, <3>1, <4>1 DEF LogInv, Layout
    <3> QED BY <3>2, <3>3
  <2> QED BY <1>6, <1>7, <1>10, <2>1, <2>2 DEF Layout
<1>12. /\ added >= 1
       /\ added = IF Closed(m) THEN RecordOf(m) + 1 ELSE RecordOf(m)
       /\ Starts(f) <=> Closed(m)
       /\ Ends(f) <=> left = length
       /\ Closed(m) <=> begin
  <2>1. /\ Closed(m) <=> begin
        /\ added = IF begin THEN RecordOf(m) + 1 ELSE RecordOf(m)
    BY <1>1 DEF LogInv, Adding
  <2>2. (Starts(f) <=> begin) /\ (Ends(f) <=> left = length)
    BY <1>2, <1>5 DEF FragmentType, Starts, Ends
  <2>3. added >= 1
    <3>1. CASE begin
      BY <1>3, <2>1, <3>1
    <3>2. CASE ~begin
      <4>1. m # 0
        BY <2>1, <3>2 DEF Closed
      <4>2. m \in 1 .. m
        BY <1>3, <4>1
      <4>3. file[m].record >= 1
        BY <1>3, <4>2 DEF LogInv, Numbered
      <4> QED BY <1>3, <2>1, <3>2, <4>2, <4>3
    <3> QED BY <3>1, <3>2
  <2> QED BY <2>1, <2>2, <2>3
<1>13. Numbered'
  <2>1. ASSUME NEW i \in 1 .. m + 1
        PROVE  /\ file'[i].record >= 1
               /\ file'[i].record = IF Closed(i - 1)' THEN RecordOf(i - 1)' + 1
                                    ELSE RecordOf(i - 1)'
               /\ Starts(file'[i]) <=> Closed(i - 1)'
    <3>1. CASE i = m + 1
      <4>1. i - 1 = m /\ m \in 0 .. m
        BY <1>3, <3>1
      <4> QED BY <1>5, <1>6, <1>7, <1>12, <3>1, <4>1
    <3>2. CASE i # m + 1
      <4>1. i \in 1 .. m /\ i - 1 \in 0 .. m
        BY <1>3, <3>2
      <4> QED BY <1>3, <1>6, <1>7, <4>1 DEF LogInv, Numbered
    <3> QED BY <3>1, <3>2
  <2>2. ASSUME NEW i \in 1 .. m + 1, NEW j \in 1 .. m + 1, i < j
        PROVE  /\ file'[i].record <= file'[j].record
               /\ Ends(file'[i]) \/ Starts(file'[j]) => file'[i].record < file'[j].record
    <3>1. i \in 1 .. m
      BY <1>3, <2>2
    <3>2. CASE j = m + 1
      <4>1. /\ file[i].record \in Nat /\ file[i].record <= RecordOf(m)
            /\ Ends(file[i]) => Closed(m) \/ file[i].record < RecordOf(m)
        <5>1. CASE i = m
          BY <1>3, <3>1, <5>1
        <5>2. CASE i # m
          <6>1. m \in 1 .. m /\ i < m
            BY <1>3, <3>1, <5>2
          <6>2. file[i].record \in Nat
            BY <1>3, <3>1, FragmentFields
          <6> QED BY <1>3, <3>1, <6>1, <6>2 DEF LogInv, Numbered
        <5> QED BY <5>1, <5>2
      <4>2. RecordOf(m) \in Nat
        BY <1>3
      <4> QED BY <1>5, <1>6, <1>12, <3>1, <3>2, <4>1, <4>2
    <3>3. CASE j # m + 1
      <4>1. j \in 1 .. m
        BY <1>3, <3>3
      <4> QED BY <1>3, <1>6, <2>2, <3>1, <4>1 DEF LogInv, Numbered
    <3> QED BY <3>2, <3>3
  <2> QED BY <1>6, <2>1, <2>2 DEF Numbered
<1>14. Adding'
  <2>1. left' = None <=> left = length
    BY <1>1, <1>2, <1>4 DEF None
  <2> QED BY <1>1, <1>6, <1>7, <1>12, <2>1 DEF Adding
<1>15. size <= Bytes'
  BY <1>1, <1>5, <1>7 DEF LogInv
<1> QED BY <1>1, <1>8, <1>11, <1>13, <1>14, <1>15 DEF LogInv

\* The writer dies.
LEMMA DeathStep == LogInv /\ Crash => LogInv'
<1> SUFFICES ASSUME LogInv, Crash PROVE LogInv'
  OBVIOUS
<1>1. /\ phase = "writing" /\ phase' = "reading" /\ size' \in 0 .. Bytes
      /\ UNCHANGED <<added, left, begin, blockOffset, file, position, end, eof, scratch, found,
                     corruption>>
  BY DEF Crash, writer, reader
<1>2. /\ LogFormatTypeOK /\ position = 0 /\ end = 0 /\ eof = FALSE
      /\ scratch = << >> /\ found = << >> /\ BlockSize \in Nat
  BY <1>1, LogFormatAssumption DEF LogInv, LogFormatTypeOK
<1>3. LogFormatTypeOK'
  <2>1. Bytes \in Nat
    BY <1>2, FileFacts
  <2>2. size' \in Nat /\ 0 \in 0 .. size' /\ 0 \in 0 .. 0
    BY <1>1, <2>1
  <2> QED BY <1>1, <1>2, <2>2 DEF LogFormatTypeOK
<1>4. Layout' /\ Numbered' /\ Adding' /\ Bytes' = Bytes
  BY <1>1 DEF LogInv, Layout, Numbered, Adding, Bytes, EndOf, RecordOf, Closed
<1>5. Between(0)'
  BY <1>1, <1>2 DEF Between, FoundUpTo, Closed, RecordOf, Follows, EndOf
<1>6. Buffer'
  <2>1. 0 \in Boundaries /\ 0 <= 0 /\ 0 <= 0 + BlockSize
    BY <1>2, BoundaryFacts
  <2> QED BY <1>1, <1>2, <2>1 DEF Buffer
<1>7. 0 \in 0 .. Len(file')
  BY <1>1, <1>2, FileFacts
<1>8. size' <= Bytes'
  <2>1. Bytes \in Nat
    BY <1>2, FileFacts
  <2> QED BY <1>1, <1>4, <2>1
<1> QED BY <1>1, <1>3, <1>4, <1>5, <1>6, <1>7, <1>8 DEF LogInv

-----------------------------------------------------------------------------
\* The reader.

\* While it reads, the file stays and with it what is known of it.
LEMMA FileStays ==
    ASSUME LogInv, UNCHANGED writer
    PROVE  /\ Layout' /\ Numbered' /\ Adding' /\ Bytes' = Bytes /\ file' = file
           /\ Len(file') = Len(file)
           /\ \A m : /\ EndOf(m)' = EndOf(m) /\ RecordOf(m)' = RecordOf(m)
                     /\ Closed(m)' <=> Closed(m)
           /\ \A n, r, m : IsRecord(n, r, m)' <=> IsRecord(n, r, m)
BY DEF LogInv, writer, Layout, Numbered, Adding, Bytes, EndOf, RecordOf, Closed, IsRecord,
   FragmentsOf

\* A header in the buffer is that of the next fragment, all of which is there
\* unless the file ends before.
LEMMA NextFragment ==
    ASSUME LogInv, phase = "reading", NEW m \in 0 .. Len(file), Between(m),
           Buffered >= HeaderSize
    PROVE  /\ m + 1 \in 1 .. Len(file) /\ m \in Nat
           /\ Here = {m + 1}
           /\ file[m + 1].start = position
           /\ ~eof => After(file[m + 1]) <= end
<1>1. /\ LogFormatTypeOK /\ m \in Nat /\ Len(file) \in Nat
      /\ BlockSize \in Nat /\ HeaderSize \in Nat /\ HeaderSize > 0 /\ BlockSize > HeaderSize
      /\ position \in Nat /\ end \in Nat /\ size \in Nat /\ end <= size
      /\ EndOf(m) \in Nat /\ Bytes \in Nat /\ Bytes = EndOf(Len(file))
      /\ size <= Bytes /\ end - position >= HeaderSize
      /\ Follows(EndOf(m), position)
  <2>1. /\ LogFormatTypeOK /\ size <= Bytes /\ end - position >= HeaderSize
        /\ Follows(EndOf(m), position)
    BY DEF LogInv, Between, Buffered
  <2>2. position \in Nat /\ end \in Nat /\ size \in Nat /\ end <= size
    BY <2>1 DEF LogFormatTypeOK
  <2> QED BY <2>1, <2>2, FileFacts, LogFormatAssumption
<1>2. EndOf(m) <= position
  BY <1>1 DEF Follows
<1>3. m + 1 \in 1 .. Len(file)
  <2>1. m # Len(file)
    BY <1>1, <1>2
  <2> QED BY <1>1, <2>1
<1> DEFINE g == file[m + 1]
<1>4. /\ g \in Fragment /\ g.start \in Nat /\ After(g) \in Nat /\ g.start + HeaderSize <= After(g)
      /\ InBlock(g) /\ Follows(EndOf(m), g.start)
  <2>1. g \in Fragment
    BY <1>1, <1>3, FileFacts
  <2>2. (m + 1) - 1 = m /\ m + 1 \in DOMAIN file
    BY <1>1, <1>3, FileFacts
  <2> QED BY <2>1, <2>2, FragmentFields DEF LogInv, Layout
<1> HIDE DEF g
<1>5. PICK b \in Boundaries : b \in Nat /\ b <= g.start /\ After(g) <= b + BlockSize
  BY <1>4, BoundaryFacts DEF InBlock
<1>6. PICK c \in Boundaries : c \in Nat /\ c <= position /\ end <= c + BlockSize
  BY BoundaryFacts DEF LogInv, Buffer
<1>7. g.start = position
  <2>1. CASE position = EndOf(m) /\ g.start # EndOf(m)
    <3>1. g.start \in Boundaries /\ position < g.start /\ g.start - position < HeaderSize
      BY <1>4, <2>1 DEF Follows
    <3>2. c + BlockSize <= g.start
      <4>1. c < g.start
        BY <1>1, <1>4, <1>6, <3>1
      <4> QED BY <3>1, <4>1, BoundaryFacts
    <3> QED BY <1>1, <1>4, <1>6, <3>1, <3>2
  <2>2. CASE position # EndOf(m) /\ g.start = EndOf(m)
    <3>1. position \in Boundaries /\ g.start < position /\ position - g.start < HeaderSize
      BY <1>1, <2>2 DEF Follows
    <3>2. b + BlockSize <= position
      <4>1. b < position
        BY <1>1, <1>4, <1>5, <3>1
      <4> QED BY <3>1, <4>1, BoundaryFacts
    <3> QED BY <1>1, <1>4, <1>5, <3>1, <3>2
  <2>3. CASE position # EndOf(m) /\ g.start # EndOf(m)
    <3>1. /\ position \in Boundaries /\ EndOf(m) < position /\ position - EndOf(m) < HeaderSize
          /\ g.start \in Boundaries /\ EndOf(m) < g.start /\ g.start - EndOf(m) < HeaderSize
      BY <1>1, <1>4, <2>3 DEF Follows
    <3>2. /\ position < g.start => position + BlockSize <= g.start
          /\ g.start < position => g.start + BlockSize <= position
      BY <3>1, BoundaryFacts
    <3> QED BY <1>1, <1>4, <3>1, <3>2, SMTT(30)
  <2> QED BY <2>1, <2>2, <2>3
<1>8. Here = {m + 1}
  <2>1. ASSUME NEW i \in 1 .. Len(file), i # m + 1
        PROVE  file[i].start # position
    <3>1. /\ file[i].start \in Nat /\ After(file[i]) \in Nat
          /\ file[i].start + HeaderSize <= After(file[i])
      BY <1>1, FileFacts, FragmentFields
    <3>2. CASE i < m + 1
      <4>1. After(file[i]) <= g.start
        BY <1>1, <1>3, <3>2, FileFacts DEF LogInv, Layout, g
      <4> QED BY <1>1, <1>4, <1>7, <3>1, <4>1
    <3>3. CASE i > m + 1
      <4>1. After(g) <= file[i].start
        BY <1>1, <1>3, <3>3, FileFacts DEF LogInv, Layout, g
      <4> QED BY <1>1, <1>4, <1>7, <3>1, <4>1
    <3> QED BY <1>1, <2>1, <3>2, <3>3
  <2> QED BY <1>1, <1>3, <1>7, <2>1, FileFacts DEF Here, g
<1>9. ASSUME ~eof
      PROVE  After(g) <= end
  <2>1. end \in Boundaries /\ b < end
    BY <1>1, <1>4, <1>5, <1>7, <1>9 DEF LogInv, Buffer
  <2>2. b + BlockSize <= end
    BY <2>1, BoundaryFacts
  <2> QED BY <1>1, <1>4, <1>5, <2>2
<1> QED BY <1>1, <1>3, <1>7, <1>8, <1>9 DEF g

\* The next block.
LEMMA BlockStep == LogInv /\ ReadBlock => LogInv'
<1> SUFFICES ASSUME LogInv, ReadBlock PROVE LogInv'
  OBVIOUS
<1>1. /\ phase = "reading" /\ end - position < HeaderSize /\ eof = FALSE
      /\ position' = end
      /\ end' = IF end + BlockSize < size THEN end + BlockSize ELSE size
      /\ eof' = (end' - end < BlockSize)
      /\ UNCHANGED <<phase, added, left, begin, blockOffset, file, size, scratch, found,
                     corruption>>
      /\ UNCHANGED writer
  BY DEF ReadBlock, Buffered, writer, LogInv, LogFormatTypeOK
<1>2. /\ LogFormatTypeOK
      /\ BlockSize \in Nat /\ HeaderSize \in Nat /\ HeaderSize > 0 /\ BlockSize > HeaderSize
      /\ position \in Nat /\ end \in Nat /\ size \in Nat /\ end <= size /\ position <= end
  BY LogFormatAssumption DEF LogInv, LogFormatTypeOK
<1>3. LogFormatTypeOK'
  <2>1. position' \in 0 .. end' /\ end' \in 0 .. size /\ eof' \in BOOLEAN
    BY <1>1, <1>2
  <2> QED BY <1>1, <1>2, <2>1 DEF LogFormatTypeOK
<1>4. /\ Layout' /\ Numbered' /\ Adding' /\ Bytes' = Bytes
      /\ \A m : /\ EndOf(m)' = EndOf(m) /\ RecordOf(m)' = RecordOf(m)
                /\ Closed(m)' <=> Closed(m)
      /\ \A n, r, m : IsRecord(n, r, m)' <=> IsRecord(n, r, m)
  BY <1>1, FileStays
<1>5. end \in Boundaries
  BY <1>1 DEF LogInv, Buffer
<1>6. PICK m \in 0 .. Len(file) : Between(m)
  BY <1>1 DEF LogInv
<1>7. Between(m)'
  <2>1. EndOf(m) \in Nat
    BY <1>2, FileFacts
  <2>2. Follows(EndOf(m), end)
    <3>1. CASE position = EndOf(m)
      BY <1>1, <1>2, <1>5, <2>1, <3>1 DEF Follows
    <3>2. CASE position # EndOf(m)
      <4>1. /\ position \in Boundaries /\ EndOf(m) < position
            /\ position - EndOf(m) < HeaderSize
        BY <1>6, <3>2 DEF Between, Follows
      <4>2. position < end => position + BlockSize <= end
        BY <1>5, <4>1, BoundaryFacts
      <4>3. position = end
        BY <1>1, <1>2, <4>2
      <4> QED BY <4>1, <4>3 DEF Follows
    <3> QED BY <3>1, <3>2
  <2> QED BY <1>1, <1>4, <1>6, <2>2 DEF Between, FoundUpTo, Follows
<1>8. Buffer'
  <2>1. end <= position' /\ end' <= end + BlockSize
    BY <1>1, <1>2
  <2>2. IF eof' THEN end' = size ELSE end' \in Boundaries
    <3>1. CASE end + BlockSize < size
      <4>1. end' = end + BlockSize /\ ~(end' - end < BlockSize)
        BY <1>1, <1>2, <3>1
      <4> QED BY <1>1, <1>5, <4>1, BoundaryFacts
    <3>2. CASE ~(end + BlockSize < size)
      <4>1. end' = size /\ (~(end' - end < BlockSize) => size = end + BlockSize)
        BY <1>1, <1>2, <3>2
      <4> QED BY <1>1, <1>5, <4>1, BoundaryFacts
    <3> QED BY <3>1, <3>2
  <2> QED BY <1>1, <1>5, <2>1, <2>2 DEF Buffer
<1>9. m \in 0 .. Len(file') /\ size' <= Bytes'
  BY <1>1, <1>4 DEF LogInv
<1> QED BY <1>1, <1>3, <1>4, <1>7, <1>8, <1>9 DEF LogInv

\* The end of the file.
LEMMA EndStep == LogInv /\ EndOfFile => LogInv'
<1> SUFFICES ASSUME LogInv, EndOfFile PROVE LogInv'
  OBVIOUS
<1>1. /\ phase = "reading" /\ eof /\ (end - position < HeaderSize \/ CutOff)
      /\ phase' = "done" /\ position' = end /\ scratch' = << >>
      /\ UNCHANGED <<added, left, begin, blockOffset, file, size, end, eof, found, corruption>>
      /\ UNCHANGED writer
  BY DEF EndOfFile, Buffered, writer
<1>2. /\ LogFormatTypeOK
      /\ BlockSize \in Nat /\ HeaderSize \in Nat /\ HeaderSize > 0 /\ BlockSize > HeaderSize
      /\ position \in Nat /\ end \in Nat /\ size \in Nat /\ end <= size /\ position <= end
      /\ end = size
  BY <1>1, LogFormatAssumption DEF LogInv, LogFormatTypeOK, Buffer
<1>3. LogFormatTypeOK'
  <2>1. position' \in 0 .. end /\ << >> \in Seq(Fragment)
    BY <1>1, <1>2
  <2> QED BY <1>1, <1>2, <2>1 DEF LogFormatTypeOK
<1>4. /\ Layout' /\ Numbered' /\ Adding' /\ Bytes' = Bytes
      /\ \A m : /\ EndOf(m)' = EndOf(m) /\ RecordOf(m)' = RecordOf(m)
                /\ Closed(m)' <=> Closed(m)
      /\ \A n, r, m : IsRecord(n, r, m)' <=> IsRecord(n, r, m)
  BY <1>1, FileStays
<1>5. PICK m \in 0 .. Len(file) : Between(m)
  BY <1>1 DEF LogInv
<1>6. /\ EndOf(m) \in Nat /\ EndOf(m) <= position
      /\ Len(file) \in Nat /\ m \in Nat
  <2>1. EndOf(m) \in Nat /\ Len(file) \in Nat
    BY <1>2, FileFacts
  <2> QED BY <1>2, <1>5, <2>1 DEF Between, Follows
<1>7. ASSUME m < Len(file)
      PROVE  size < After(file[m + 1])
  <2>1. m + 1 \in 1 .. Len(file) /\ (m + 1) - 1 = m
    BY <1>6, <1>7
  <2>2. /\ file[m + 1].start \in Nat /\ After(file[m + 1]) \in Nat
        /\ file[m + 1].start + HeaderSize <= After(file[m + 1])
    BY <1>2, <2>1, FileFacts, FragmentFields
  <2>3. CASE end - position >= HeaderSize
    <3>1. Here = {m + 1}
      BY <1>1, <1>5, <2>3, NextFragment DEF Buffered
    <3> QED BY <1>1, <1>2, <2>3, <3>1 DEF CutOff
  <2>4. CASE end - position < HeaderSize
    <3>1. file[m + 1].start >= EndOf(m)
      <4>1. Follows(EndOf(m), file[m + 1].start)
        BY <1>2, <2>1, FileFacts DEF LogInv, Layout
      <4> QED BY <1>6, <2>2, <4>1 DEF Follows
    <3>2. file[m + 1].start >= position
      <4>1. CASE position = EndOf(m)
        BY <3>1, <4>1
      <4>2. CASE position # EndOf(m)
        <5>1. /\ position \in Boundaries /\ EndOf(m) < position
              /\ position - EndOf(m) < HeaderSize
          BY <1>5, <4>2 DEF Between, Follows
        <5>2. InBlock(file[m + 1]) /\ Follows(EndOf(m), file[m + 1].start)
          BY <1>2, <2>1, FileFacts DEF LogInv, Layout
        <5>3. CASE file[m + 1].start = EndOf(m)
          <6>1. PICK b \in Boundaries : /\ b \in Nat /\ b <= file[m + 1].start
                                        /\ After(file[m + 1]) <= b + BlockSize
            BY <5>2, BoundaryFacts DEF InBlock
          <6>2. b + BlockSize <= position
            BY <1>2, <1>6, <5>1, <5>3, <6>1, BoundaryFacts
          <6> QED BY <1>2, <1>6, <2>2, <5>1, <5>3, <6>1, <6>2
        <5>4. CASE file[m + 1].start # EndOf(m)
          <6>1. /\ file[m + 1].start \in Boundaries /\ EndOf(m) < file[m + 1].start
                /\ file[m + 1].start - EndOf(m) < HeaderSize
            BY <5>2, <5>4 DEF Follows
          <6>2. file[m + 1].start < position => file[m + 1].start + BlockSize <= position
            BY <5>1, <6>1, BoundaryFacts
          <6> QED BY <1>2, <1>6, <2>2, <5>1, <6>1, <6>2, SMTT(30)
        <5> QED BY <5>3, <5>4
      <4> QED BY <4>1, <4>2
    <3> QED BY <1>2, <2>2, <2>4, <3>2
  <2> QED BY <1>2, <2>3, <2>4
<1>8. AllRead(m)'
  BY <1>1, <1>2, <1>4, <1>5, <1>6, <1>7 DEF AllRead, Between, FoundUpTo
<1>9. m \in 0 .. Len(file') /\ size' <= Bytes'
  BY <1>1, <1>4 DEF LogInv
<1> QED BY <1>1, <1>3, <1>4, <1>8, <1>9 DEF LogInv

\* A record that has ended is the run of its fragments.
LEMMA RunOfFragments ==
    ASSUME LogFormatTypeOK, Numbered, NEW k \in 1 .. Len(file), NEW s \in 1 .. k,
           Starts(file[s]), file[s].record = file[k].record, Ends(file[k])
    PROVE  /\ FragmentsOf(file[k].record) = s .. k
           /\ IsRecord(file[k].record, SubSeq(file, s, k), k)
<1>1. Len(file) \in Nat /\ DOMAIN file = 1 .. Len(file) /\ k \in Nat /\ s \in Nat
  BY FileFacts
<1>2. \A i \in 1 .. Len(file) : file[i].record \in Nat
  BY FileFacts, FragmentFields
<1>3. ASSUME NEW i \in 1 .. Len(file)
      PROVE  file[i].record = file[k].record <=> i \in s .. k
  <2>1. CASE i < s
    <3>1. file[i].record < file[s].record
      BY <1>1, <2>1 DEF Numbered
    <3> QED BY <1>1, <1>2, <2>1, <3>1
  <2>2. CASE i > k
    <3>1. file[k].record < file[i].record
      BY <1>1, <2>2 DEF Numbered
    <3> QED BY <1>1, <1>2, <2>2, <3>1
  <2>3. CASE s <= i /\ i <= k
    <3>1. i = s \/ file[s].record <= file[i].record
      BY <1>1, <2>3 DEF Numbered
    <3>2. i = k \/ file[i].record <= file[k].record
      BY <1>1, <2>3 DEF Numbered
    <3> QED BY <1>1, <1>2, <2>3, <3>1, <3>2
  <2> QED BY <1>1, <2>1, <2>2, <2>3
<1>4. FragmentsOf(file[k].record) = s .. k
  <2>1. s .. k \subseteq 1 .. Len(file)
    BY <1>1
  <2> QED BY <1>1, <1>3, <2>1 DEF FragmentsOf
<1>5. s \in 1 .. k /\ k \in 1 .. k
  BY <1>1
<1> QED BY <1>4, <1>5 DEF IsRecord

\* The fragments from s on, with one more.
LEMMA OneMore ==
    ASSUME LogFormatTypeOK, NEW m \in Nat, m + 1 \in 1 .. Len(file)
    PROVE  /\ \A s \in 1 .. m : /\ SubSeq(file, s, m + 1) = Append(SubSeq(file, s, m), file[m + 1])
                                /\ SubSeq(file, s, m) # << >>
           /\ SubSeq(file, m + 1, m + 1) = <<file[m + 1]>>
<1>1. file \in Seq(Fragment) /\ Len(file) \in Nat /\ \A i \in 1 .. Len(file) : file[i] \in Fragment
  BY FileFacts DEF LogFormatTypeOK
<1>2. ASSUME NEW s \in 1 .. m
      PROVE  /\ SubSeq(file, s, m + 1) = Append(SubSeq(file, s, m), file[m + 1])
             /\ SubSeq(file, s, m) # << >>
  <2>1. s \in Int /\ m \in Int /\ s <= m /\ \A i \in s .. m : file[i] \in Fragment
    BY <1>1
  <2>2. SubSeq(file, s, m) \in Seq(Fragment) /\ Len(SubSeq(file, s, m)) = m - s + 1
    BY <2>1, SubSeqProperties
  <2>3. s \in 1 .. Len(file) /\ m + 1 \in s .. Len(file) /\ (m + 1) - 1 = m
    BY <1>1
  <2>4. SubSeq(file, s, m + 1) = SubSeq(file, s, m) \o <<file[m + 1]>>
    BY <1>1, <2>3, SubSeqRecursiveSecond
  <2>5. Append(SubSeq(file, s, m), file[m + 1]) = SubSeq(file, s, m) \o <<file[m + 1]>>
    BY <1>1, <2>2, AppendIsConcat
  <2>6. Len(SubSeq(file, s, m)) # 0
    BY <2>1, <2>2
  <2> QED BY <2>2, <2>4, <2>5, <2>6
<1>3. SubSeq(file, m + 1, m + 1) = <<file[m + 1]>>
  <2>1. m + 1 \in m + 1 .. Len(file) /\ (m + 1) - 1 = m /\ file[m + 1] \in Fragment
    BY <1>1
  <2>2. SubSeq(file, m + 1, m + 1) = SubSeq(file, m + 1, m) \o <<file[m + 1]>>
    BY <1>1, <2>1, SubSeqRecursiveSecond
  <2>3. SubSeq(file, m + 1, m) = << >>
    BY SubSeqEmpty
  <2>4. << >> \o <<file[m + 1]>> = Append(<< >>, file[m + 1]) /\ << >> \in Seq(Fragment)
    BY <2>1, AppendIsConcat
  <2>5. Append(<< >>, file[m + 1]) = <<file[m + 1]>>
    OBVIOUS
  <2> QED BY <2>2, <2>3, <2>4, <2>5
<1> QED BY <1>2, <1>3

\* A fragment is read.
LEMMA FragmentStep == LogInv /\ ReadFragment => LogInv'
<1> SUFFICES ASSUME LogInv, ReadFragment PROVE LogInv'
  OBVIOUS
<1>1. /\ phase = "reading" /\ Buffered >= HeaderSize
      /\ UNCHANGED <<phase, added, left, begin, blockOffset, file, size, end, eof>>
      /\ UNCHANGED writer
  BY DEF ReadFragment, writer
<1>2. /\ LogFormatTypeOK /\ file \in Seq(Fragment) /\ found \in Seq(Seq(Fragment))
      /\ scratch \in Seq(Fragment) /\ corruption = FALSE
      /\ position \in Nat /\ end \in Nat /\ size \in Nat /\ HeaderSize \in Nat
  BY LogFormatAssumption DEF LogInv, LogFormatTypeOK
<1>3. PICK m \in 0 .. Len(file) : Between(m)
  BY <1>1 DEF LogInv
<1> DEFINE g == file[m + 1]
<1>4. /\ m + 1 \in 1 .. Len(file) /\ m \in Nat
      /\ Here = {m + 1}
      /\ g.start = position
      /\ ~eof => After(g) <= end
  BY <1>1, <1>3, NextFragment
<1>5. /\ g \in Fragment /\ g.start \in Nat /\ After(g) \in Nat /\ g.start + HeaderSize <= After(g)
      /\ g.type \in Type /\ g.record \in Nat /\ Len(file) \in Nat
      /\ EndOf(m + 1) = After(g) /\ RecordOf(m + 1) = g.record
      /\ Closed(m + 1) <=> Ends(g)
      /\ RecordOf(m) \in Nat
  BY <1>2, <1>4, FileFacts, FragmentFields
<1>6. /\ g.record = IF Closed(m) THEN RecordOf(m) + 1 ELSE RecordOf(m)
      /\ Starts(g) <=> Closed(m)
      /\ g.record >= 1
  <2>1. (m + 1) - 1 = m /\ m + 1 \in DOMAIN file
    BY <1>2, <1>4, FileFacts
  <2> QED BY <2>1 DEF LogInv, Numbered
<1>7. /\ ~CutOff /\ After(g) <= end
      /\ position' = After(g)
      /\ IF g.type \in {"full", "first"} THEN Begins(g) ELSE Continues(g)
  <2>1. eof \in BOOLEAN
    BY <1>2 DEF LogFormatTypeOK
  <2>2. ~CutOff
    BY <1>2, <1>4, <1>5, <2>1 DEF ReadFragment, CutOff
  <2>3. After(g) <= end
    BY <1>2, <1>4, <1>5, <2>2 DEF CutOff
  <2> QED BY <1>4, <2>2, <2>3 DEF ReadFragment
<1>8. /\ Layout' /\ Numbered' /\ Adding' /\ Bytes' = Bytes /\ Len(file') = Len(file)
      /\ \A i : /\ EndOf(i)' = EndOf(i) /\ RecordOf(i)' = RecordOf(i)
                /\ Closed(i)' <=> Closed(i)
      /\ \A n, r, i : IsRecord(n, r, i)' <=> IsRecord(n, r, i)
  BY <1>1, FileStays
<1>9. /\ \A n \in DOMAIN found : IsRecord(n, found[n], m + 1)
      /\ Len(found) \in Nat /\ DOMAIN found = 1 .. Len(found)
      /\ Len(found) = IF Closed(m) THEN RecordOf(m) ELSE RecordOf(m) - 1
  <2>1. ASSUME NEW n, NEW r, IsRecord(n, r, m)
        PROVE  IsRecord(n, r, m + 1)
    <3>1. 1 .. m \subseteq 1 .. m + 1
      BY <1>4
    <3> QED BY <2>1, <3>1 DEF IsRecord
  <2> QED BY <1>2, <1>3, <2>1 DEF Between, FoundUpTo
<1>10. /\ g.record = Len(found) + 1
       /\ Starts(g) => scratch = << >>
       /\ ~Starts(g) => /\ scratch # << >>
                        /\ \E s \in 1 .. m : /\ Starts(file[s]) /\ file[s].record = g.record
                                             /\ Append(scratch, g) = SubSeq(file, s, m + 1)
  <2>1. g.record = Len(found) + 1
    BY <1>5, <1>6, <1>9
  <2>2. ASSUME Starts(g)
        PROVE  scratch = << >>
    BY <1>3, <1>6, <2>2 DEF Between
  <2>3. ASSUME ~Starts(g)
        PROVE  /\ scratch # << >>
               /\ \E s \in 1 .. m : /\ Starts(file[s]) /\ file[s].record = g.record
                                    /\ Append(scratch, g) = SubSeq(file, s, m + 1)
    <3>1. ~Closed(m) /\ g.record = RecordOf(m)
      BY <1>6, <2>3
    <3>2. PICK s \in 1 .. m : /\ Starts(file[s]) /\ file[s].record = RecordOf(m)
                             /\ scratch = SubSeq(file, s, m)
      BY <1>3, <3>1 DEF Between
    <3>3. scratch # << >> /\ SubSeq(file, s, m + 1) = Append(scratch, g)
      BY <1>2, <1>4, <3>2, OneMore
    <3> QED BY <3>1, <3>2, <3>3
  <2> QED BY <2>1, <2>2, <2>3
<1> HIDE DEF g
<1>11. /\ corruption' = FALSE
       /\ CASE Ends(g) -> scratch' = << >>
            [] ~Ends(g) -> \E s \in 1 .. m + 1 : /\ Starts(file[s]) /\ file[s].record = g.record
                                                 /\ scratch' = SubSeq(file, s, m + 1)
       /\ scratch' \in Seq(Fragment)
       /\ CASE Ends(g) -> \E r \in Seq(Fragment) : /\ found' = Append(found, r)
                                                   /\ IsRecord(Len(found) + 1, r, m + 1)
            [] ~Ends(g) -> found' = found
  <2>1. /\ SubSeq(file, m + 1, m + 1) = <<g>>
        /\ m + 1 \in 1 .. m + 1 /\ 1 .. m \subseteq 1 .. m + 1
    BY <1>2, <1>4, OneMore DEF g
  <2>2. CASE g.type = "full"
    <3>1. /\ scratch = << >> /\ Starts(g) /\ Ends(g)
      BY <1>10, <2>2 DEF Starts, Ends
    <3>2. /\ corruption' = (corruption \/ HasPayload(scratch))
          /\ found' = Append(found, <<g>>) /\ scratch' = << >>
      BY <1>7, <2>2 DEF Begins
    <3>3. ~HasPayload(scratch)
      BY <3>1 DEF HasPayload
    <3>4. IsRecord(g.record, <<g>>, m + 1)
      BY <1>2, <1>4, <2>1, <3>1, RunOfFragments DEF LogInv, g
    <3>5. << >> \in Seq(Fragment) /\ <<g>> \in Seq(Fragment)
      BY <1>5
    <3> QED BY <1>2, <1>10, <3>1, <3>2, <3>3, <3>4, <3>5
  <2>3. CASE g.type = "first"
    <3>1. /\ scratch = << >> /\ Starts(g) /\ ~Ends(g)
      BY <1>10, <2>3 DEF Starts, Ends
    <3>2. /\ corruption' = (corruption \/ HasPayload(scratch))
          /\ found' = found /\ scratch' = <<g>>
      BY <1>7, <2>3 DEF Begins
    <3>3. ~HasPayload(scratch)
      BY <3>1 DEF HasPayload
    <3>4. <<g>> \in Seq(Fragment)
      BY <1>5
    <3> QED BY <1>2, <2>1, <3>1, <3>2, <3>3, <3>4 DEF g
  <2>4. CASE g.type = "middle"
    <3>1. ~Starts(g) /\ ~Ends(g)
      BY <2>4 DEF Starts, Ends
    <3>2. /\ corruption' = corruption
          /\ found' = found /\ scratch' = Append(scratch, g)
      BY <1>7, <1>10, <2>4, <3>1 DEF Continues
    <3>3. Append(scratch, g) \in Seq(Fragment)
      BY <1>2, <1>5
    <3> QED BY <1>2, <1>10, <2>1, <3>1, <3>2, <3>3
  <2>5. CASE g.type = "last"
    <3>1. ~Starts(g) /\ Ends(g)
      BY <2>5 DEF Starts, Ends
    <3>2. /\ corruption' = corruption
          /\ found' = Append(found, Append(scratch, g)) /\ scratch' = << >>
      BY <1>7, <1>10, <2>5, <3>1 DEF Continues
    <3>3. Append(scratch, g) \in Seq(Fragment) /\ << >> \in Seq(Fragment)
      BY <1>2, <1>5
    <3>4. IsRecord(g.record, Append(scratch, g), m + 1)
      <4>1. PICK s \in 1 .. m : /\ Starts(file[s]) /\ file[s].record = g.record
                                /\ Append(scratch, g) = SubSeq(file, s, m + 1)
        BY <1>10, <3>1
      <4>2. s \in 1 .. m + 1
        BY <2>1
      <4> QED BY <1>2, <1>4, <3>1, <4>1, <4>2, RunOfFragments DEF LogInv, g
    <3> QED BY <1>2, <1>10, <3>1, <3>2, <3>3, <3>4
  <2> QED BY <1>5, <2>2, <2>3, <2>4, <2>5 DEF Type
<1>12. FoundUpTo(m + 1)' /\ found' \in Seq(Seq(Fragment))
  <2>1. CASE Ends(g)
    <3>1. PICK r \in Seq(Fragment) : /\ found' = Append(found, r)
                                     /\ IsRecord(Len(found) + 1, r, m + 1)
      BY <1>11, <2>1
    <3>2. /\ found' \in Seq(Seq(Fragment)) /\ Len(found') = Len(found) + 1
          /\ DOMAIN found' = 1 .. Len(found) + 1
          /\ \A n \in 1 .. Len(found) : found'[n] = found[n]
          /\ found'[Len(found) + 1] = r
      BY <1>2, <3>1, AppendProperties
    <3>3. \A n \in DOMAIN found' : n = Len(found) + 1 \/ n \in 1 .. Len(found)
      BY <1>9, <3>2
    <3>4. \A n \in DOMAIN found' : IsRecord(n, found'[n], m + 1)
      BY <1>9, <3>1, <3>2, <3>3
    <3>5. Len(found') = RecordOf(m + 1) /\ Closed(m + 1)
      BY <1>5, <1>10, <2>1, <3>2
    <3> QED BY <1>8, <3>2, <3>4, <3>5 DEF FoundUpTo
  <2>2. CASE ~Ends(g)
    <3>1. found' = found /\ Len(found) = RecordOf(m + 1) - 1 /\ ~Closed(m + 1)
      BY <1>5, <1>9, <1>10, <1>11, <2>2
    <3> QED BY <1>2, <1>8, <1>9, <3>1 DEF FoundUpTo
  <2> QED BY <2>1, <2>2
<1>13. Between(m + 1)'
  <2>1. Follows(EndOf(m + 1), position')
    BY <1>5, <1>7 DEF Follows
  <2>2. IF Closed(m + 1) THEN scratch' = << >>
        ELSE \E s \in 1 .. m + 1 : /\ Starts(file[s]) /\ file[s].record = RecordOf(m + 1)
                                   /\ scratch' = SubSeq(file, s, m + 1)
    BY <1>5, <1>11
  <2> QED BY <1>1, <1>8, <1>12, <2>1, <2>2 DEF Between, Follows
<1>14. LogFormatTypeOK'
  <2>1. position' \in 0 .. end
    BY <1>2, <1>5, <1>7
  <2> QED BY <1>1, <1>2, <1>11, <1>12, <2>1 DEF LogFormatTypeOK
<1>15. Buffer'
  <2>1. PICK b \in Boundaries : b \in Nat /\ b <= position /\ end <= b + BlockSize
    BY <1>1, BoundaryFacts DEF LogInv, Buffer
  <2>2. b <= position'
    BY <1>2, <1>4, <1>5, <1>7, <2>1
  <2> QED BY <1>1, <2>1, <2>2 DEF LogInv, Buffer
<1>16. m + 1 \in 0 .. Len(file') /\ size' <= Bytes'
  BY <1>1, <1>4, <1>5, <1>8 DEF LogInv
<1> QED BY <1>1, <1>8, <1>11, <1>13, <1>14, <1>15, <1>16 DEF LogInv

-----------------------------------------------------------------------------
\* Every step keeps the invariant.
LEMMA LogStep == LogInv /\ [Next]_vars => LogInv'
<1> SUFFICES ASSUME LogInv, [Next]_vars PROVE LogInv'
  OBVIOUS
<1>1. CASE UNCHANGED vars
  <2>1. /\ UNCHANGED writer
        /\ UNCHANGED <<phase, added, left, begin, blockOffset, file, size, position, end, eof,
                       scratch, found, corruption>>
    BY <1>1 DEF vars, writer, reader
  <2>2. LogFormatTypeOK' /\ (Buffer => Buffer')
    BY <2>1 DEF LogInv, LogFormatTypeOK, Buffer
  <2>3. \A m : (Between(m) => Between(m)') /\ (AllRead(m) => AllRead(m)')
    BY <2>1, FileStays DEF Between, AllRead, FoundUpTo, Follows
  <2> QED BY <2>1, <2>2, <2>3, FileStays DEF LogInv
<1> QED BY <1>1, AddStep, EmitStep, DeathStep, BlockStep, FragmentStep, EndStep DEF Next

\* What is read is a prefix of what was added, record by record, however the
\* records lie in the blocks and wherever the file ends.
THEOREM LogReadsPrefix == Spec => []ReadsPrefix
<1>1. LogInv => ReadsPrefix
  <2> SUFFICES ASSUME LogInv, NEW n \in DOMAIN found
               PROVE  \E last \in DOMAIN file : \E first \in 1 .. last :
                        /\ FragmentsOf(n) = first .. last
                        /\ found[n] = SubSeq(file, first, last)
                        /\ file[last].type \in {"full", "last"}
    BY DEF ReadsPrefix, LogInv
  <2>1. phase \in {"reading", "done"}
    <3>1. phase # "writing"
      BY DEF LogInv
    <3> QED BY <3>1 DEF LogInv, LogFormatTypeOK
  <2>2. PICK m \in 0 .. Len(file) : IsRecord(n, found[n], m)
    BY <2>1 DEF LogInv, Between, AllRead, FoundUpTo
  <2>3. 1 .. m \subseteq DOMAIN file
    BY FileFacts DEF LogInv
  <2> QED BY <2>2, <2>3 DEF IsRecord, Ends
<1> QED BY <1>1, LogInit, LogStep, PTL DEF Spec

\* And every record that is all there is read.
THEOREM LogFindsWholeRecords == Spec => []WholeRecordsFound
<1>1. LogInv => WholeRecordsFound
  <2> SUFFICES ASSUME LogInv, phase = "done"
               PROVE  Whole = DOMAIN found
    BY DEF WholeRecordsFound
  <2>1. PICK m \in 0 .. Len(file) : AllRead(m)
    BY DEF LogInv
  <2>2. /\ LogFormatTypeOK /\ Len(file) \in Nat /\ m \in Nat /\ DOMAIN file = 1 .. Len(file)
        /\ RecordOf(m) \in Nat /\ size \in Nat /\ EndOf(m) \in Nat
        /\ found \in Seq(Seq(Fragment)) /\ Len(found) \in Nat
        /\ DOMAIN found = 1 .. Len(found)
        /\ HeaderSize \in Nat
    <3>1. LogFormatTypeOK /\ size \in Nat /\ found \in Seq(Seq(Fragment))
      BY DEF LogInv, LogFormatTypeOK
    <3> QED BY <3>1, FileFacts, LogFormatAssumption
  <2>3. ASSUME NEW i \in 1 .. Len(file)
        PROVE  /\ file[i].record \in Nat /\ file[i].record >= 1
               /\ After(file[i]) \in Nat /\ file[i].start \in Nat
               /\ file[i].start <= After(file[i])
    <3>1. file[i] \in Fragment /\ i \in DOMAIN file
      BY <2>2, FileFacts
    <3>2. file[i].record >= 1
      BY <3>1 DEF LogInv, Numbered
    <3>3. /\ file[i].record \in Nat /\ After(file[i]) \in Nat /\ file[i].start \in Nat
          /\ file[i].start + HeaderSize <= After(file[i])
      BY <3>1, FragmentFields
    <3> QED BY <2>2, <3>2, <3>3
  <2>6. ASSUME NEW i \in 1 .. Len(file), NEW j \in 1 .. Len(file), i < j
        PROVE  /\ After(file[i]) <= file[j].start
               /\ Ends(file[i]) => file[i].record < file[j].record
    <3>1. i \in DOMAIN file /\ j \in DOMAIN file
      BY <2>2
    <3> QED BY <2>6, <3>1 DEF LogInv, Layout, Numbered
  <2>4. ASSUME NEW i \in 1 .. Len(file), Ends(file[i]), After(file[i]) <= size
        PROVE  file[i].record \in 1 .. Len(found)
    <3>1. i <= m
      <4> SUFFICES ASSUME m < i PROVE FALSE
        BY <2>2
      <4>1. m + 1 \in 1 .. Len(file) /\ size < After(file[m + 1])
        BY <2>1, <2>2 DEF AllRead
      <4>2. CASE i = m + 1
        BY <2>2, <2>3, <2>4, <4>1, <4>2
      <4>3. CASE i # m + 1
        <5>1. m + 1 < i
          BY <2>2, <4>3
        <5>2. After(file[m + 1]) <= file[i].start
          BY <2>6, <4>1, <5>1
        <5> QED BY <2>2, <2>3, <2>4, <4>1, <5>2
      <4> QED BY <4>2, <4>3
    <3>2. m \in 1 .. Len(file) /\ RecordOf(m) = file[m].record /\ (Closed(m) <=> Ends(file[m]))
      <4>1. m \in 1 .. Len(file)
        BY <2>2, <3>1
      <4> QED BY <2>2, <4>1, FileFacts
    <3>3. i = m \/ (i < m /\ file[i].record < file[m].record)
      <4>1. i = m \/ i < m
        BY <2>2, <3>1
      <4> QED BY <2>4, <2>6, <3>2, <4>1
    <3>4. Len(found) = IF Closed(m) THEN RecordOf(m) ELSE RecordOf(m) - 1
      BY <2>1 DEF AllRead, FoundUpTo
    <3> QED BY <2>2, <2>3, <2>4, <3>2, <3>3, <3>4
  <2>5. ASSUME NEW n \in 1 .. Len(found)
        PROVE  n \in Whole
    <3>5. IsRecord(n, found[n], m)
      BY <2>1, <2>2 DEF AllRead, FoundUpTo
    <3>1. PICK last \in 1 .. m : \E first \in 1 .. last :
             FragmentsOf(n) = first .. last /\ Ends(file[last])
      BY <3>5 DEF IsRecord
    <3>6. PICK first \in 1 .. last : FragmentsOf(n) = first .. last /\ Ends(file[last])
      BY <3>1
    <3>2. last \in 1 .. Len(file) /\ m \in 1 .. Len(file) /\ EndOf(m) = After(file[m])
      <4>1. last \in 1 .. Len(file) /\ m \in 1 .. Len(file)
        BY <2>2
      <4> QED BY <2>2, <4>1, FileFacts
    <3>3. file[last].record = n
      <4>1. last \in first .. last
        BY <2>2
      <4> QED BY <3>6, <4>1 DEF FragmentsOf
    <3>4. After(file[last]) <= size
      <4>1. EndOf(m) <= size
        BY <2>1 DEF AllRead
      <4>2. last = m \/ After(file[last]) <= file[m].start
        <5>1. last = m \/ last < m
          BY <2>2
        <5> QED BY <2>6, <3>2, <5>1
      <4> QED BY <2>2, <2>3, <3>2, <4>1, <4>2
    <3>7. n \in 1 .. added
      <4>1. /\ RecordOf(Len(file)) \in Nat /\ RecordOf(Len(file)) = file[Len(file)].record
            /\ Len(file) \in 1 .. Len(file)
        <5>1. Len(file) \in 1 .. Len(file)
          BY <2>2, <3>2
        <5> QED BY <2>2, <2>3, <5>1, FileFacts
      <4>2. RecordOf(Len(file)) <= added
        BY <4>1 DEF LogInv, Adding
      <4>3. n <= file[Len(file)].record
        <5>1. CASE last = Len(file)
          BY <2>2, <3>3, <4>1, <5>1
        <5>2. CASE last # Len(file)
          <6>1. last < Len(file)
            <7>1. Len(file) \in Nat /\ last \in 1 .. Len(file)
              BY <2>2, <3>2
            <7> QED BY ONLY <5>2, <7>1
          <6>2. file[last].record < file[Len(file)].record
            BY <2>6, <3>2, <3>6, <4>1, <6>1
          <6> QED BY <2>2, <2>3, <3>2, <3>3, <4>1, <6>2
        <5> QED BY <5>1, <5>2
      <4>4. added \in Nat
        BY LogFormatAssumption DEF LogInv, LogFormatTypeOK
      <4> QED BY <2>2, <4>1, <4>2, <4>3, <4>4
    <3> QED BY <2>2, <3>2, <3>3, <3>4, <3>6, <3>7 DEF Whole, Ends
  <2> QED BY <2>2, <2>4, <2>5 DEF Whole, Ends
<1> QED BY <1>1, LogInit, LogStep, PTL DEF Spec

\* A writer that dies leaves nothing behind that the reader would report.
THEOREM LogDeathIsNotCorruption == Spec => []DeathIsNotCorruption
<1>1. LogInv => DeathIsNotCorruption
  BY DEF LogInv, DeathIsNotCorruption
<1> QED BY <1>1, LogInit, LogStep, PTL DEF Spec

=============================================================================
