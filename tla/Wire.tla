--------------------------------- MODULE Wire ----------------------------------
(***************************************************************************)
(* The messages on the wire: what the generated serialisers write, what    *)
(* the generated parsers make of it, and how many bytes it takes.          *)
(*                                                                         *)
(* On the wire a message is a sequence of entries: field number, wire type *)
(* and a text or a varint.  There are Low numbers in an int32, and High in *)
(* an int64 or a varint.                                                   *)
(***************************************************************************)
EXTENDS Messages

CONSTANTS Garbled,   \* the texts that are not UTF-8
          Low, High  \* how many numbers an int32 has (2^32), and an int64 (2^64)

ASSUME WireAssumption ==
  /\ Low \in Nat \ {0} /\ High \in Nat /\ Low <= High
  /\ High % Low = 0

ASSUME GarbledAssumption == "" \notin Garbled

WireType(type) == IF type = "string" THEN "length" ELSE "varint"

\* What the C++ type of a field can hold.
Numbers(type) == IF type = "int32" THEN Low ELSE High
Holds(type, v) == IF type = "string" THEN v \in STRING
                  ELSE v \in Int /\ -Numbers(type) <= 2 * v /\ 2 * v < Numbers(type)

IsEntry(e) == /\ e = [num |-> e.num, wt |-> e.wt, val |-> e.val]
              /\ e.num \in Nat /\ e.wt \in {"length", "varint"}
              /\ IF e.wt = "length" THEN e.val \in STRING ELSE e.val \in 0 .. High - 1

\* The parser has a case for an entry's tag; an entry with the number of a field
\* but another wire type falls to the default.
Takes(T, e) == e.num \in DOMAIN Tags[T] /\ e.wt = WireType(Tags[T][e.num].type)

\* An object of the class: every field holds a value of its type, and what is
\* kept as unknown are entries that no field takes.
IsMessage(T, m) ==
  /\ m = [f \in {f.name : f \in Members[T]} \union {"unknown"} |-> m[f]]
  /\ \A f \in Members[T] : Holds(f.type, m[f.name])
  /\ m.unknown \in Seq({m.unknown[i] : i \in DOMAIN m.unknown})
  /\ \A i \in DOMAIN m.unknown : IsEntry(m.unknown[i]) /\ ~Takes(T, m.unknown[i])

\* All texts of a message are UTF-8.
Clean(T, m) == \A f \in Members[T] : f.type = "string" => m[f.name] \notin Garbled
------------------------------------------------------------------------------
\* The number that n bits of x are, as a signed one; numbers = 2^n.
Signed(x, numbers) == LET low == x % numbers
                      IN IF 2 * low >= numbers THEN low - numbers ELSE low

\* An int32 is written with its sign extended to a whole varint, and read
\* from the low bits of whatever varint there is.
ToWire(type, v) == IF type = "string" THEN v ELSE v % High
FromWire(type, x) == IF type = "string" THEN x ELSE Signed(x, Numbers(type))

\* Only fields that differ from their default are written; VerifyUtf8String
\* is called for each text, and what it says is not looked at.  Written(T, m)[i]
\* is what has been written after i fields.
Written(T, m) ==
  LET fields == Fields[T]
      out[i \in 0 .. Len(fields)] ==
        IF i = 0 THEN <<>>
        ELSE IF m[fields[i].name] = Default(fields[i].type) THEN out[i - 1]
        ELSE Append(out[i - 1], [num |-> i, wt |-> WireType(fields[i].type),
                                 val |-> ToWire(fields[i].type, m[fields[i].name])])
  IN out

Serialize(T, m) == Written(T, m)[Len(Fields[T])] \o m.unknown

\* Mutant: a text is not looked at.
ParseEntryUnchecked(T, acc, e) ==
  LET field == Tags[T][e.num]
  IN IF ~Takes(T, e) THEN [acc EXCEPT !.msg.unknown = Append(@, e)]
     ELSE [acc EXCEPT !.msg[field.name] = FromWire(field.type, e.val)]

\* One round of the parser's loop.  A text that is not UTF-8 is stored, and then
\* the parser gives up.
ParseEntry(T, acc, e) ==
  LET field == Tags[T][e.num]
  IN IF ~acc.ok THEN acc
     ELSE IF ~Takes(T, e) THEN [acc EXCEPT !.msg.unknown = Append(@, e)]
     ELSE [ok |-> field.type # "string" \/ e.val \notin Garbled,
           msg |-> [acc.msg EXCEPT ![field.name] = FromWire(field.type, e.val)]]

\* MergePartialFromCodedStream: whether all went well, and the message.  The
\* function says where the parser is after n entries.
Parsing(T, m, wire) ==
  LET acc[n \in 0 .. Len(wire)] ==
        IF n = 0 THEN [ok |-> TRUE, msg |-> m] ELSE ParseEntry(T, acc[n - 1], wire[n])
  IN acc
ParseInto(T, m, wire) == Parsing(T, m, wire)[Len(wire)]

\* What ByteSizeLong adds for a field, and what an entry takes on the wire: a
\* tag, and a length and a text, or one byte for each seven bits of a number.
\* A negative number has all its bits, ten bytes.  (Mutant: it has one.)
FieldSizeOfPositive(type, v) == IF type = "string" THEN IF v = "" THEN 0 ELSE 3
                                ELSE IF v = 0 THEN 0 ELSE 2
FieldSize(type, v) == IF type = "string" THEN IF v = "" THEN 0 ELSE 3
                      ELSE IF v = 0 THEN 0 ELSE IF v < 0 THEN 11 ELSE 2
EntrySize(e) == IF e.wt = "length" THEN 3 ELSE IF 2 * e.val >= High THEN 11 ELSE 2

\* The sums of a sequence of sizes, by how many are added.
Sums(sizes) == LET sum[n \in 0 .. Len(sizes)] == IF n = 0 THEN 0 ELSE sum[n - 1] + sizes[n]
               IN sum
WireSize(wire) == Sums([i \in 1 .. Len(wire) |-> EntrySize(wire[i])])[Len(wire)]
ByteSizeLong(T, m) ==
  LET fields == Fields[T]
  IN Sums([i \in 1 .. Len(fields) |-> FieldSize(fields[i].type, m[fields[i].name])])[Len(fields)]
       + WireSize(m.unknown)
==============================================================================
