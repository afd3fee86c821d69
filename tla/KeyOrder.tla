------------------------------- MODULE KeyOrder -------------------------------
(***************************************************************************)
(* The order of the keys of a non-unique secondary index on a string       *)
(* field.  SerializeCompositeKey writes                                    *)
(*     length of the encoded value (2 bytes), the value, length of the     *)
(*     encoded primary key (2 bytes), the primary key                      *)
(* and compareByteKeys decides by the first byte whether it looks at such  *)
(* a key or at a single encoded value, whose first byte is a type tag.     *)
(* A composite key is the record                                           *)
(*   len   length of the encoded value: a tag, 4 bytes of length, the text *)
(*   head  rank of the first two characters of the text                    *)
(*   tail  rank of the text after its sixth character (texts that agree in *)
(*         the first two agree in the first six)                           *)
(*   prim  rank of the primary key, 0 for none                             *)
(***************************************************************************)
EXTENDS Integers

CompositeKeys ==
    {k \in [len : Nat, head : Nat, tail : Nat, prim : Nat] : 6 <= k.len /\ k.len < 65536}

\* The first two bytes of the key.
HighByte(k) == k.len \div 256
LowByte(k) == k.len % 256

Sign(a, b) == IF a < b THEN -1 ELSE IF a > b THEN 1 ELSE 0

\* The first difference decides.
Lexicographic(a, b, c, d) ==
    IF a # 0 THEN a ELSE IF b # 0 THEN b ELSE IF c # 0 THEN c ELSE d

\* bytes.Compare of the keys, or of the parts of them that begin at the length
\* of the text.
bytesCompare(k, l) ==
    Lexicographic(Sign(k.len, l.len), Sign(k.head, l.head), Sign(k.tail, l.tail),
                  Sign(k.prim, l.prim))

\* Mutant: the primary key does not count.
compareSecondaryOnly(k, l) ==
    Lexicographic(Sign(k.head, l.head), Sign(k.tail, l.tail), Sign(k.len, l.len), 0)

\* The values as strings, then the primary keys.
compareCompositeKeys(k, l) ==
    Lexicographic(Sign(k.head, l.head), Sign(k.tail, l.tail), Sign(k.len, l.len),
                  Sign(k.prim, l.prim))

isComposite(k) == HighByte(k) = 0 \/ HighByte(k) > 7

\* The two bytes behind a tag, as the top of a signed number.
Signed(b) == IF b < 128 THEN b ELSE b - 256

\* deserializeKey of a composite key: its first byte taken for a tag.  Tag 0 is
\* nil; the tags of a time, an int64 and a float are followed by 8 bytes, which
\* reach the second character; an int32 and a bool do not reach the text.
\* Lengths that strings and byte slices cannot have, and unknown tags, are errors.
DeserializesTo(k) ==
    CASE HighByte(k) = 0 -> <<>>
      [] HighByte(k) \in {3, 5} -> <<Signed(LowByte(k)), k.len, k.head>>
      [] HighByte(k) = 4 -> <<Signed(LowByte(k)), 0, 0>>
      [] HighByte(k) = 6 -> IF LowByte(k) < 128 THEN <<0, k.len, k.head>>
                                                ELSE <<-1, -k.len, -k.head>>
      [] HighByte(k) = 7 -> <<IF LowByte(k) = 0 THEN 0 ELSE 1, 0, 0>>
IsError(k) == HighByte(k) \in {1, 2} \/ HighByte(k) > 7

\* A negative length of a byte slice: make panics.
Panics(k) == HighByte(k) = 2 /\ LowByte(k) >= 128

\* compareValues of two values of one type, or of nil.
compareValues(v, w) ==
    IF v = <<>> \/ w = <<>> THEN (IF v = w THEN 0 ELSE IF v = <<>> THEN -1 ELSE 1)
    ELSE Lexicographic(Sign(v[1], w[1]), Sign(v[2], w[2]), Sign(v[3], w[3]), 0)

\* The branches for two keys that begin like a string, an int32 or an int64 with
\* the length of one are tried before the keys are decoded.
compareByteKeys(k, l) ==
    IF isComposite(k) /\ isComposite(l) THEN compareCompositeKeys(k, l)
    ELSE IF IsError(k) \/ IsError(l) THEN bytesCompare(k, l)
    ELSE compareValues(DeserializesTo(k), DeserializesTo(l))

\* Different keys that compareByteKeys cannot tell apart, or dies comparing.
Confusable(k, l) ==
    /\ k # l
    /\ Panics(k) \/ Panics(l) \/ compareByteKeys(k, l) = 0

\* Three keys that compareByteKeys orders: it tells them apart and is transitive.
Ordered(k, l, m) ==
    /\ ~Confusable(k, l)
    /\ compareByteKeys(k, l) < 0 /\ compareByteKeys(l, m) < 0 => compareByteKeys(k, m) < 0
=============================================================================
