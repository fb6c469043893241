------------------------------ MODULE BigInts ------------------------------
(***************************************************************************)
(* The ways of a number through pkg/model: a BigInt in memory, which may   *)
(* be nil, a column, a JSON text, and the integer columns that             *)
(* handleCreatedEvent fills with Uint64. One number is followed through    *)
(* any sequence of conversions; the digits of a text are its number here,  *)
(* as big.Int prints and parses them.                                      *)
(***************************************************************************)
EXTENDS Integers

CONSTANTS
  MaxNumber,   \* 2^256 - 1, what a uint256 of an event may be
  Word,        \* 2^64
  IntegerMax   \* 2^31 - 1, the most that a column of type integer takes

ASSUME BigIntsAssumption ==
  MaxNumber \in Nat /\ Word \in Nat \ {0} /\ IntegerMax \in 0..(Word - 1)

Numbers == 0..MaxNumber

\* A form, and the number that it says: nothing, NULL and "" stand for 0, and a text
\* that is no number for none.
As(form, n) == [form |-> form, n |-> n]
Nil == As("nil", 0)
Null == As("null", 0)
Empty == As("empty", 0)
NaN == As("NaN", -1)

InMemory == {As("Int", n) : n \in Numbers} \cup {Nil}
InColumn == {As("row", n) : n \in Numbers} \cup {Null, Empty, NaN}
InJson == {As(form, n) : form \in {"string", "token"}, n \in Numbers} \cup {Null, Empty, NaN}

VARIABLES
  place,    \* "memory", "column", "json", "integer", or "failed"
  found,    \* what is found there, or what the failed conversion was given
  meant     \* history: the number that it came from

vars == <<place, found, meant>>

TypeOK ==
  \/ place = "memory" /\ found \in InMemory
  \/ place = "column" /\ found \in InColumn
  \/ place = "json" /\ found \in InJson
  \/ place = "integer" /\ found \in {As("row", n) : n \in 0..IntegerMax}
  \/ place = "failed"

Init == place = "memory" /\ found = Nil /\ meant = 0

\* A handler, another service or another program makes a value.
Made ==
  /\ \/ place' = "memory" /\ found' \in InMemory
     \/ place' = "column" /\ found' \in InColumn
     \/ place' = "json" /\ found' \in InJson
  /\ meant' = found'.n

Becomes(to, v) == place' = to /\ found' = v /\ UNCHANGED meant
Fails(v) == Becomes("failed", v)

-----------------------------------------------------------------------------
\* How a driver may hand a column to Scan: NULL as nil, anything else as bytes or as a
\* string, a small number also as int64, or as a type of the driver's own.
Driver(v) ==
  IF v = Null THEN {"nil"}
  ELSE {"bytes", "string", "other"} \cup
       {type \in {"int64"} : v.form = "row" /\ v.n < Word \div 2}

UnmarshalText(v) == IF v \in {Empty, NaN} THEN Fails(v) ELSE Becomes("memory", As("Int", v.n))

\* Faulty variant: NULL is not looked for.
Scan_NoNull(type, v) ==
  \/ type = "int64" /\ Becomes("memory", As("Int", v.n))
  \/ type \in {"bytes", "string"} /\ UnmarshalText(v)
  \/ type \in {"nil", "other"} /\ Fails(v)

\* Only the string "" is read as 0, not the bytes.
Scan(type, v) ==
  \/ type = "nil" /\ Becomes("memory", As("Int", 0))
  \/ type = "int64" /\ Becomes("memory", As("Int", v.n))
  \/ type = "bytes" /\ UnmarshalText(v)
  \/ type = "string" /\ UnmarshalText(IF v = Empty THEN As("row", 0) ELSE v)
  \/ type = "other" /\ Fails(As("other", v.n))

Read == place = "column" /\ \E type \in Driver(found) : Scan(type, found)

\* Faulty variant: nil is written as NULL and a number as itself.
Value_Raw == Becomes("column", found)

\* For nil a *big.Int is returned, which is no driver.Value: a driver takes it or not.
Value ==
  \/ found = Nil /\ (Becomes("column", As("row", 0)) \/ Fails(Nil))
  \/ found # Nil /\ Becomes("column", As("row", found.n))

Write == place = "memory" /\ Value

MarshalJSON == place = "memory" /\ Becomes("json", As("string", found.n))

\* Only a JSON string is taken, and null, which leaves the string empty.
UnmarshalJSON ==
  /\ place = "json"
  /\ \/ (found.form = "token" \/ found = NaN) /\ Fails(found)
     \/ found.form # "token" /\ found # NaN /\ Becomes("memory", As("Int", found.n))

\* Faulty variant: the number goes through uint32.
RecordCreated_Narrows ==
  /\ place = "memory" /\ found # Nil
  /\ LET kept == As("row", found.n % (2 * (IntegerMax + 1)))
     IN  IF kept.n <= IntegerMax THEN Becomes("integer", kept) ELSE Fails(As("overflow", found.n))

\* MinDestinationConfirmations and TimeLock of an event go through Uint64, which keeps
\* 64 bits, into a column of type integer, which the database does not let overflow.
RecordCreated ==
  /\ place = "memory" /\ found # Nil
  /\ LET kept == As("row", found.n % Word)
     IN  IF kept.n <= IntegerMax THEN Becomes("integer", kept) ELSE Fails(As("overflow", found.n))

Next == Made \/ Read \/ Write \/ MarshalJSON \/ UnmarshalJSON \/ RecordCreated

Spec == Init /\ [][Next]_vars

-----------------------------------------------------------------------------
\* Through any sequence of conversions that report no error a number in memory, in a
\* column or in JSON is the one that it came from; text that is no number gets nowhere.
\* An integer column holds its low 64 bits: a larger number of an event is recorded as
\* another one, without an error, if those are small, and as itself only below 2^64.
NumberPreserved ==
  /\ place \in {"memory", "column", "json"} => found.n = meant
  /\ place = "integer" => found.n = meant % Word

\* No conversion fails but on text that is no number, a JSON number that is not quoted,
\* "" as bytes, a nil that the driver does not take, a type that Scan does not know,
\* and a number whose low 64 bits are too large for its column: what this code wrote it
\* can read.
OnlyForeignFormsFail ==
  place = "failed" =>
    \/ found \in {NaN, Empty, Nil}
    \/ found.form \in {"token", "other"}
    \/ found.form = "overflow" /\ meant % Word > IntegerMax

=============================================================================
