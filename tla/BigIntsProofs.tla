--------------------------- MODULE BigIntsProofs ---------------------------
(***************************************************************************)
(* For numbers, words and columns of any width: what any sequence of       *)
(* conversions makes of a number, which is the number itself everywhere    *)
(* but in an integer column, and which conversions fail.                   *)
(***************************************************************************)
EXTENDS BigInts, TLAPS

IInv == TypeOK /\ NumberPreserved /\ OnlyForeignFormsFail

\* The low bits of a number are a number.
LEMMA LowBits == ASSUME NEW n \in Nat PROVE n % Word \in Nat
  BY BigIntsAssumption DEF BigIntsAssumption

\* What is in memory, in a column or in a text says a number, but for NaN.
LEMMA FormsOfPlaces ==
  /\ \A v \in InMemory : v.form \in {"Int", "nil"} /\ v.n \in Numbers
  /\ \A v \in InColumn : v = NaN \/ (v.form \in {"row", "null", "empty"} /\ v.n \in Numbers)
  /\ \A v \in InJson :
       v = NaN \/ (v.form \in {"string", "token", "null", "empty"} /\ v.n \in Numbers)
  BY BigIntsAssumption
  DEF InMemory, InColumn, InJson, As, Nil, Null, Empty, NaN, Numbers, BigIntsAssumption

\* A conversion into a place that holds what it makes, of the same number, is sound.
LEMMA ConversionSound ==
  ASSUME NEW n \in Numbers, n = meant, meant' = meant,
         \/ place' = "memory" /\ found' = As("Int", n)
         \/ place' = "column" /\ found' = As("row", n)
         \/ place' = "json" /\ found' = As("string", n)
  PROVE  IInv'
<1>1. /\ As("Int", n) \in InMemory
      /\ As("row", n) \in InColumn
      /\ As("string", n) \in InJson
  BY DEF InMemory, InColumn, InJson
<1>2. found'.n = meant' /\ place' \in {"memory", "column", "json"}
  BY DEF As
<1> QED
  BY <1>1, <1>2 DEF IInv, TypeOK, NumberPreserved, OnlyForeignFormsFail

\* A failure is one that OnlyForeignFormsFail lists.
LEMMA FailureSound ==
  ASSUME place' = "failed",
         \/ found' \in {NaN, Empty, Nil}
         \/ found'.form \in {"token", "other"}
         \/ found'.form = "overflow" /\ meant' % Word > IntegerMax
  PROVE  IInv'
  BY DEF IInv, TypeOK, NumberPreserved, OnlyForeignFormsFail

LEMMA InitEstablishes == Init => IInv
  BY BigIntsAssumption
  DEF Init, IInv, TypeOK, NumberPreserved, OnlyForeignFormsFail, InMemory, Nil, As,
    BigIntsAssumption

LEMMA MadePreserves == ASSUME Made PROVE IInv'
<1>1. found'.n = meant' /\ place' \in {"memory", "column", "json"}
  BY DEF Made
<1>2. TypeOK'
  BY DEF Made, TypeOK
<1> QED
  BY <1>1, <1>2 DEF IInv, NumberPreserved, OnlyForeignFormsFail

\* UnmarshalText of what a column or a JSON text holds.
LEMMA TextSound ==
  ASSUME NEW v, v = NaN \/ v.n \in Numbers, v # NaN => v.n = meant, UnmarshalText(v) PROVE IInv'
<1>1. CASE v \in {Empty, NaN}
  BY <1>1, FailureSound DEF UnmarshalText, Fails, Becomes
<1>2. CASE v \notin {Empty, NaN}
  BY <1>2, ConversionSound DEF UnmarshalText, Becomes
<1> QED
  BY <1>1, <1>2

LEMMA ReadPreserves == ASSUME IInv, Read PROVE IInv'
<1>1. place = "column" /\ found \in InColumn /\ found.n = meant
  BY DEF IInv, TypeOK, NumberPreserved, Read
<1>2. found = NaN \/ (found.form \in {"row", "null", "empty"} /\ found.n \in Numbers)
  BY <1>1, FormsOfPlaces
<1>3. PICK type \in Driver(found) : Scan(type, found)
  BY DEF Read
<1>4. CASE type = "nil" /\ Becomes("memory", As("Int", 0))
  <2>1. found = Null
    BY <1>3, <1>4 DEF Driver
  <2> QED
    BY <1>1, <1>2, <1>4, <2>1, ConversionSound DEF Null, NaN, As, Becomes
<1>5. CASE type = "int64" /\ Becomes("memory", As("Int", found.n))
  <2>1. found.form = "row"
    BY <1>3, <1>5 DEF Driver
  <2> QED
    BY <1>1, <1>2, <1>5, <2>1, ConversionSound DEF NaN, As, Becomes
<1>6. CASE type = "bytes" /\ UnmarshalText(found)
  BY <1>1, <1>2, <1>6, TextSound
<1>7. CASE type = "string" /\ UnmarshalText(IF found = Empty THEN As("row", 0) ELSE found)
  <2>1. CASE found = Empty
    <3>1. As("row", 0).n \in Numbers /\ As("row", 0).n = meant /\ UnmarshalText(As("row", 0))
      BY <1>1, <1>2, <1>7, <2>1 DEF Empty, As, NaN
    <3> QED
      BY <3>1, TextSound
  <2>2. CASE found # Empty
    BY <1>1, <1>2, <1>7, <2>2, TextSound
  <2> QED
    BY <2>1, <2>2
<1>8. CASE type = "other" /\ Fails(As("other", found.n))
  BY <1>8, FailureSound DEF Fails, Becomes, As
<1> QED
  BY <1>3, <1>4, <1>5, <1>6, <1>7, <1>8 DEF Scan

LEMMA MemoryPreserves ==
  ASSUME IInv, Write \/ MarshalJSON \/ RecordCreated PROVE IInv'
<1>1. place = "memory" /\ found \in InMemory /\ found.n = meant
  BY DEF IInv, TypeOK, NumberPreserved, Write, MarshalJSON, RecordCreated
<1>2. found.n \in Numbers
  BY <1>1, FormsOfPlaces
<1>3. CASE Write
  <2>1. CASE found = Nil
    BY <1>1, <1>2, <1>3, <2>1, ConversionSound, FailureSound DEF Write, Value, Becomes, Fails, Nil, As
  <2>2. CASE found # Nil
    BY <1>1, <1>2, <1>3, <2>2, ConversionSound DEF Write, Value, Becomes
  <2> QED
    BY <2>1, <2>2
<1>4. CASE MarshalJSON
  BY <1>1, <1>2, <1>4, ConversionSound DEF MarshalJSON, Becomes
<1>5. CASE RecordCreated
  <2> DEFINE kept == found.n % Word
  <2>1. kept \in Nat /\ IntegerMax \in Nat /\ kept = meant % Word
    BY <1>1, <1>2, LowBits, BigIntsAssumption DEF Numbers, BigIntsAssumption
  <2>2. /\ meant' = meant
        /\ kept <= IntegerMax => place' = "integer" /\ found' = As("row", kept)
        /\ ~(kept <= IntegerMax) => place' = "failed" /\ found' = As("overflow", found.n)
    BY <1>5 DEF RecordCreated, Becomes, Fails, As
  <2> HIDE DEF kept
  <2>3. CASE kept <= IntegerMax
    <3>1. /\ found' \in {As("row", n) : n \in 0..IntegerMax} /\ place' = "integer"
          /\ found'.n = meant' % Word
      BY <2>1, <2>2, <2>3 DEF As
    <3> QED
      BY <3>1 DEF IInv, TypeOK, NumberPreserved, OnlyForeignFormsFail
  <2>4. CASE ~(kept <= IntegerMax)
    <3>1. meant' % Word > IntegerMax /\ found'.form = "overflow" /\ place' = "failed"
      BY <2>1, <2>2, <2>4 DEF As
    <3> QED
      BY <3>1, FailureSound
  <2> QED
    BY <2>3, <2>4
<1> QED
  BY <1>3, <1>4, <1>5

LEMMA UnmarshalPreserves == ASSUME IInv, UnmarshalJSON PROVE IInv'
<1>1. place = "json" /\ found \in InJson /\ found.n = meant
  BY DEF IInv, TypeOK, NumberPreserved, UnmarshalJSON
<1>2. found = NaN \/ found.n \in Numbers
  BY <1>1, FormsOfPlaces
<1>3. CASE found.form = "token" \/ found = NaN
  BY <1>3, FailureSound DEF UnmarshalJSON, Fails, Becomes
<1>4. CASE found.form # "token" /\ found # NaN
  BY <1>1, <1>2, <1>4, ConversionSound DEF UnmarshalJSON, Becomes
<1> QED
  BY <1>3, <1>4

-----------------------------------------------------------------------------
\* The inductive invariant holds in every reachable state.
THEOREM Invariance == Spec => []IInv
<1>1. IInv /\ [Next]_vars => IInv'
  <2> SUFFICES ASSUME IInv, [Next]_vars PROVE IInv'
    OBVIOUS
  <2>1. CASE UNCHANGED vars
    BY <2>1 DEF vars, IInv, TypeOK, NumberPreserved, OnlyForeignFormsFail
  <2> QED
    BY <2>1, MadePreserves, ReadPreserves, MemoryPreserves, UnmarshalPreserves DEF Next
<1> QED
  BY InitEstablishes, <1>1, PTL DEF Spec

\* Every place holds what may be found there.
THEOREM TypeCorrect == Spec => []TypeOK
<1>1. IInv => TypeOK
  BY DEF IInv
<1> QED
  BY Invariance, <1>1, PTL

\* Through any sequence of Scan, Value, MarshalJSON and UnmarshalJSON that reports no error
\* a number stays what it was, and what Uint64 leaves in an integer column is exactly its
\* low bits, whether or not these still are the number.
THEOREM NumbersPreserved == Spec => []NumberPreserved
<1>1. IInv => NumberPreserved
  BY DEF IInv
<1> QED
  BY Invariance, <1>1, PTL

\* What this code wrote it can read: only foreign forms, nil and low bits too large fail.
THEOREM FailuresAreForeign == Spec => []OnlyForeignFormsFail
<1>1. IInv => OnlyForeignFormsFail
  BY DEF IInv
<1> QED
  BY Invariance, <1>1, PTL

=============================================================================
