-------------------------------- MODULE Hpack -------------------------------
(***************************************************************************)
(* What golang.org/x/net/http2/hpack promises package hpack: the dynamic   *)
(* tables of RFC 7541.  Every field has size 1, and a block is a sequence  *)
(* of instructions.                                                        *)
(***************************************************************************)
EXTENDS Naturals, Sequences, SequencesExt, FiniteSetsExt

CONSTANT Field    \* header fields

SizeUpdate(n) == [op |-> "size", size |-> n]
Indexed(i) == [op |-> "indexed", index |-> i]
Inserted(f) == [op |-> "inserted", field |-> f]   \* literal, added to the table
Literal(f) == [op |-> "literal", field |-> f]     \* literal, not added

Literals == {Inserted(f) : f \in Field} \cup {Literal(f) : f \in Field}

(***************************************************************************)
(* A table holds its fields newest first, up to max of them.  A decoder    *)
(* also knows the limit of the size updates it takes; an encoder, whether  *)
(* it has changes of max to announce and the lowest of them.               *)
(***************************************************************************)
Resize(table, n) ==
    [table EXCEPT !.max = n, !.entries = SubSeq(@, 1, Min({n, Len(@)}))]

Insert(table, f) == Resize([table EXCEPT !.entries = <<f>> \o @], table.max)

Decoder == [entries : Seq(Field), max : Nat, allowed : Nat]
NewDecoder(max, allowed) == [entries |-> <<>>, max |-> max, allowed |-> allowed]

Encoder == [entries : Seq(Field), max : Nat, announce : BOOLEAN, lowest : Nat]
NewEncoder(max) == [entries |-> <<>>, max |-> max, announce |-> FALSE, lowest |-> max]

\* SetMaxDynamicTableSize of an encoder.
SetSize(encoder, n) ==
    [Resize(encoder, n) EXCEPT !.announce = TRUE,
                               !.lowest = IF encoder.announce THEN Min({@, n}) ELSE n]

\* The size updates that start the next block.
Announcements(encoder) ==
    IF ~encoder.announce THEN <<>>
    ELSE IF encoder.lowest < encoder.max
         THEN <<SizeUpdate(encoder.lowest), SizeUpdate(encoder.max)>>
         ELSE <<SizeUpdate(encoder.max)>>

Positions(table, f) == {i \in DOMAIN table.entries : table.entries[i] = f}

\* What an encoder may write for a field.
Representations(table, f) ==
    {Indexed(i) : i \in Positions(table, f)} \cup {Inserted(f), Literal(f)}

\* What this library writes: an index if it can, else an insertion if it fits.
Representation(table, f) ==
    IF Positions(table, f) # {} THEN Indexed(Min(Positions(table, f)))
    ELSE IF table.max > 0 THEN Inserted(f) ELSE Literal(f)

AfterWriting(table, instruction) ==
    IF instruction.op = "inserted" THEN Insert(table, instruction.field) ELSE table

WriteField(written, f) ==
    LET instruction == Representation(written.encoder, f)
    IN  [encoder |-> [AfterWriting(written.encoder, instruction) EXCEPT !.announce = FALSE],
         code    |-> written.code \o Announcements(written.encoder) \o <<instruction>>]

Encode(encoder, fields) == FoldLeft(WriteField, [encoder |-> encoder, code |-> <<>>], fields)

(***************************************************************************)
(* Decoding stops at the first error and leaves the table as it is then.   *)
(***************************************************************************)
Malformed(reading, instruction) ==
    CASE instruction.op = "size"    -> ~reading.atStart \/ instruction.size > reading.table.allowed
      [] instruction.op = "indexed" -> instruction.index > Len(reading.table.entries)
      [] OTHER                      -> FALSE

ReadInstruction(reading, instruction) ==
    IF ~reading.ok \/ Malformed(reading, instruction) THEN [reading EXCEPT !.ok = FALSE]
    ELSE IF instruction.op = "size" THEN [reading EXCEPT !.table = Resize(@, instruction.size)]
    ELSE [reading EXCEPT
            !.atStart = FALSE,
            !.table = AfterWriting(@, instruction),
            !.fields = Append(@, IF instruction.op = "indexed"
                                 THEN reading.table.entries[instruction.index]
                                 ELSE instruction.field)]

Decode(decoder, code) ==
    FoldLeft(ReadInstruction,
             [table |-> decoder, fields |-> <<>>, ok |-> TRUE, atStart |-> TRUE], code)

\* A decoder whose limit is below its table insists on an update before the
\* first field; the library's does not.
InsistentDecode(decoder, code) ==
    IF decoder.max > decoder.allowed /\ code # <<>> /\ code[1].op # "size"
    THEN [Decode(decoder, <<>>) EXCEPT !.ok = FALSE]
    ELSE Decode(decoder, code)
=============================================================================
