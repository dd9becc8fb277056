----------------------------- MODULE LogFormat -----------------------------
(***************************************************************************)
(* The files LevelDB appends to, logs and descriptors: a record is cut     *)
(* into fragments that fit into blocks of a fixed size, the process or the *)
(* machine ends with any number of bytes in the file, and the reader puts  *)
(* the records together again.  LevelDB.tla takes from here that a log     *)
(* reads as its records up to the first that is torn.                      *)
(*                                                                         *)
(* A fragment stands for its bytes, from its start in the file: a header,  *)
(* with its type and the length of its payload, and the payload.  What     *)
(* lies between two fragments is zeros, the end of a block that is too     *)
(* full for a header.                                                      *)
(***************************************************************************)
EXTENDS Integers, Sequences

CONSTANTS BlockSize,   \* kBlockSize
          HeaderSize,  \* kHeaderSize
          MaxRecords,  \* the bound on the records
          MaxLength    \* the bound on the length of one

ASSUME LogFormatAssumption ==
    /\ HeaderSize \in Nat \ {0}
    /\ BlockSize \in Nat /\ BlockSize > HeaderSize
    /\ MaxRecords \in Nat
    /\ MaxLength \in Nat

VARIABLES
    phase,        \* "writing", then "reading", then "done"
    added,        \* how many records were given to the writer
    left,         \* what is left of the one being added, or None
    begin,        \* whether its first fragment is still to be written
    blockOffset,  \* block_offset_
    file,         \* the fragments written
    size,         \* how many bytes of the file are found
    position,     \* the reader's place, where its buffer begins
    end,          \* and the end of its buffer, end_of_buffer_offset_
    eof,          \* eof_
    scratch,      \* the fragments of the record being read, if any
    found,        \* the records read, each a sequence of fragments
    corruption    \* whether something was reported

writer == <<added, left, begin, blockOffset, file>>
reader == <<position, end, eof, scratch, found, corruption>>
vars == <<phase, writer, size, reader>>

None == -1
Type == {"full", "first", "middle", "last"}
Fragment == [type : Type, record : Nat, start : Nat, length : Nat]

\* Where a fragment ends, and the file.
After(f) == f.start + HeaderSize + f.length
Bytes == IF file = << >> THEN 0 ELSE After(file[Len(file)])

Init ==
    /\ phase = "writing"
    /\ added = 0
    /\ left = None
    /\ begin = FALSE
    /\ blockOffset = 0
    /\ file = << >>
    /\ size = 0
    /\ position = 0
    /\ end = 0
    /\ eof = FALSE
    /\ scratch = << >>
    /\ found = << >>
    /\ corruption = FALSE

-----------------------------------------------------------------------------
AddRecord ==
    /\ phase = "writing"
    /\ left = None
    /\ added < MaxRecords
    /\ left' \in 0 .. MaxLength
    /\ begin' = TRUE
    /\ added' = added + 1
    /\ UNCHANGED <<phase, blockOffset, file, size, reader>>

\* The type of a fragment.  (Mutant: the first of several counts as whole.)
FragmentTypeFullFirst(first, last) ==
    IF first THEN "full" ELSE IF last THEN "last" ELSE "middle"

FragmentType(first, last) ==
    IF first /\ last THEN "full"
    ELSE IF first THEN "first"
    ELSE IF last THEN "last"
    ELSE "middle"

\* One fragment is written and flushed, as much as fits into the block, behind
\* the trailer of the block before if no header fits into that.
EmitPhysicalRecord ==
    /\ phase = "writing"
    /\ left # None
    /\ LET leftover == BlockSize - blockOffset
           trailer == IF leftover < HeaderSize THEN leftover ELSE 0
           offset == IF leftover < HeaderSize THEN 0 ELSE blockOffset
           avail == BlockSize - offset - HeaderSize
           length == IF left < avail THEN left ELSE avail
       IN /\ file' = Append(file, [type |-> FragmentType(begin, left = length),
                                   record |-> added, start |-> Bytes + trailer,
                                   length |-> length])
          /\ blockOffset' = offset + HeaderSize + length
          /\ left' = IF left = length THEN None ELSE left - length
    /\ begin' = FALSE
    /\ UNCHANGED <<phase, added, size, reader>>

\* The writer ends, in the middle of a record or not.
Crash ==
    /\ phase = "writing"
    /\ phase' = "reading"
    /\ size' \in 0 .. Bytes
    /\ UNCHANGED <<writer, reader>>

-----------------------------------------------------------------------------
Buffered == end - position

\* Mutant: a header that ends a block is taken for a trailer.
ReadBlockEarly ==
    /\ phase = "reading"
    /\ Buffered <= HeaderSize
    /\ ~eof
    /\ position' = end
    /\ end' = IF end + BlockSize < size THEN end + BlockSize ELSE size
    /\ eof' = (end' - end < BlockSize)
    /\ UNCHANGED <<phase, writer, size, scratch, found, corruption>>

\* The next block is read when no header is left in the buffer.
ReadBlock ==
    /\ phase = "reading"
    /\ Buffered < HeaderSize
    /\ ~eof
    /\ position' = end
    /\ end' = IF end + BlockSize < size THEN end + BlockSize ELSE size
    /\ eof' = (end' - end < BlockSize)
    /\ UNCHANGED <<phase, writer, size, scratch, found, corruption>>

\* The fragment whose header comes next, if the bytes there are one.
Here == {i \in DOMAIN file : file[i].start = position}

\* A header without its payload.
CutOff == \E i \in Here : After(file[i]) > end

\* Mutant: at the end of the file, too, that is reported.
EndOfFileReporting ==
    /\ phase = "reading"
    /\ eof
    /\ Buffered < HeaderSize \/ CutOff
    /\ phase' = "done"
    /\ position' = end
    /\ corruption' = (corruption \/ Buffered > 0)
    /\ UNCHANGED <<writer, size, end, eof, scratch, found>>

\* The end of the file, even within a header, a payload or a record: the writer
\* died there, and nothing is reported.
EndOfFile ==
    /\ phase = "reading"
    /\ eof
    /\ Buffered < HeaderSize \/ CutOff
    /\ phase' = "done"
    /\ position' = end
    /\ scratch' = << >>
    /\ UNCHANGED <<writer, size, end, eof, found, corruption>>

HasPayload(fragments) == \E i \in DOMAIN fragments : fragments[i].length > 0

\* What a fragment does to the record being read, by its type.
Begins(f) ==
    /\ corruption' = (corruption \/ HasPayload(scratch))
    /\ IF f.type = "full"
       THEN found' = Append(found, <<f>>) /\ scratch' = << >>
       ELSE scratch' = <<f>> /\ UNCHANGED found

Continues(f) ==
    IF scratch = << >>
    THEN corruption' = TRUE /\ UNCHANGED <<scratch, found>>
    ELSE /\ IF f.type = "last"
            THEN found' = Append(found, Append(scratch, f)) /\ scratch' = << >>
            ELSE scratch' = Append(scratch, f) /\ UNCHANGED found
         /\ UNCHANGED corruption

\* A fragment is read; what is not one, or not all there, is reported and the
\* rest of the buffer dropped.
ReadFragment ==
    /\ phase = "reading"
    /\ Buffered >= HeaderSize
    /\ ~(eof /\ CutOff)
    /\ IF Here = {} \/ CutOff
       THEN /\ position' = end
            /\ scratch' = << >>
            /\ corruption' = TRUE
            /\ UNCHANGED found
       ELSE \E i \in Here :
              /\ position' = After(file[i])
              /\ IF file[i].type \in {"full", "first"}
                 THEN Begins(file[i]) ELSE Continues(file[i])
    /\ UNCHANGED <<phase, writer, size, end, eof>>

Next == \/ AddRecord \/ EmitPhysicalRecord \/ Crash
        \/ ReadBlock \/ ReadFragment \/ EndOfFile

Spec == Init /\ [][Next]_vars

-----------------------------------------------------------------------------
\* The types; a block is never overfull and no length is negative.
LogFormatTypeOK ==
    /\ phase \in {"writing", "reading", "done"}
    /\ added \in 0 .. MaxRecords
    /\ left \in {None} \cup 0 .. MaxLength
    /\ begin \in BOOLEAN
    /\ blockOffset \in 0 .. BlockSize
    /\ file \in Seq(Fragment)
    /\ size \in Nat /\ position \in 0 .. end /\ end \in 0 .. size
    /\ eof \in BOOLEAN /\ corruption \in BOOLEAN
    /\ scratch \in Seq(Fragment)
    /\ found \in Seq(Seq(Fragment))

FragmentsOf(n) == {i \in DOMAIN file : file[i].record = n}

\* What is read is the records that were added, each as a whole, in order and
\* from the first on: a log never loses a record before one it returns.
\* (With the type invariant.)
ReadsPrefix ==
    /\ LogFormatTypeOK
    /\ \A n \in DOMAIN found :
         \E last \in DOMAIN file : \E first \in 1 .. last :
           /\ FragmentsOf(n) = first .. last
           /\ found[n] = SubSeq(file, first, last)
           /\ file[last].type \in {"full", "last"}

\* The records whose last byte is in the file.
Whole == {n \in 1 .. added :
            \E i \in DOMAIN file :
              /\ file[i].record = n /\ file[i].type \in {"full", "last"}
              /\ After(file[i]) <= size}

\* Every record that is all there is found.
WholeRecordsFound == phase = "done" => Whole = DOMAIN found

\* A writer that died is no corruption, wherever it did (a descriptor with a
\* corruption could not be used).
DeathIsNotCorruption == ~corruption
=============================================================================
