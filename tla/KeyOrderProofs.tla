---------------------------- MODULE KeyOrderProofs ----------------------------
(* The order of index keys, for values of every length below 512 bytes. *)
EXTENDS KeyOrder, TLAPS

\* The branch compareByteKeys takes is decided by the first byte.
LEMMA ShortHighByte ==
    ASSUME NEW k \in CompositeKeys, k.len < 512
    PROVE  /\ k.len < 256 => isComposite(k)
           /\ k.len >= 256 => ~isComposite(k) /\ IsError(k)
           /\ ~Panics(k)
    BY DEF CompositeKeys, isComposite, IsError, Panics, HighByte

\* compareByteKeys of two such keys: as values when both are shorter than 256
\* bytes, else as bytes.
LEMMA ShortCompare ==
    ASSUME NEW k \in CompositeKeys, NEW l \in CompositeKeys, k.len < 512, l.len < 512
    PROVE  compareByteKeys(k, l) = IF k.len < 256 /\ l.len < 256 THEN compareCompositeKeys(k, l)
                                                                ELSE bytesCompare(k, l)
<1>1. k.len \in Int /\ l.len \in Int
    BY DEF CompositeKeys
<1>2. CASE k.len < 256 /\ l.len < 256
    BY <1>2, ShortHighByte DEF compareByteKeys
<1>3. CASE ~(k.len < 256 /\ l.len < 256)
    <2>1. k.len >= 256 \/ l.len >= 256
        BY <1>1, <1>3
    <2>2. ~(isComposite(k) /\ isComposite(l)) /\ (IsError(k) \/ IsError(l))
        BY <2>1, ShortHighByte
    <2> QED BY <1>3, <2>2 DEF compareByteKeys
<1> QED BY <1>2, <1>3

\* compareByteKeys tells apart and orders the keys of values shorter than 512 bytes:
\* the lookups and scans of an index of such values never mix up two entries.
THEOREM ShortKeysOrdered ==
    ASSUME NEW k \in CompositeKeys, NEW l \in CompositeKeys, NEW m \in CompositeKeys,
           k.len < 512, l.len < 512, m.len < 512
    PROVE  Ordered(k, l, m)
<1>1. /\ k \in [len : Int, head : Int, tail : Int, prim : Int]
      /\ l \in [len : Int, head : Int, tail : Int, prim : Int]
      /\ m \in [len : Int, head : Int, tail : Int, prim : Int]
    BY DEF CompositeKeys
<1>2. k # l => k.len # l.len \/ k.head # l.head \/ k.tail # l.tail \/ k.prim # l.prim
    BY <1>1
<1>3. ~Confusable(k, l)
    BY <1>1, <1>2, ShortHighByte, ShortCompare
       DEF Confusable, compareCompositeKeys, bytesCompare, Lexicographic, Sign
<1>4. compareByteKeys(k, l) < 0 /\ compareByteKeys(l, m) < 0 => compareByteKeys(k, m) < 0
    BY <1>1, ShortCompare DEF compareCompositeKeys, bytesCompare, Lexicographic, Sign
<1> QED BY <1>3, <1>4 DEF Ordered
=============================================================================
