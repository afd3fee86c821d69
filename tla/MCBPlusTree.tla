----------------------------- MODULE MCBPlusTree ------------------------------
(* BPlusTree on small pages: keys of short, of longer and of very long values. *)
EXTENDS BPlusTree

Key(len, head, tail, prim) == [len |-> len, head |-> head, tail |-> tail, prim |-> prim]

\* Ascending: two values shorter than 256 bytes, one of 511 bytes.
Sorted ==
    [p \in 1..4 |-> Key(20, 1, 1, p)] \o [p \in 1..6 |-> Key(15, 2, 1, p)]
    \o [p \in 1..2 |-> Key(511, 1, 1, p)]

\* Not in order, so that a leaf in the middle is full as well.
MCLoad ==
    LET order == <<1, 2, 5, 6, 7, 8, 9, 10, 3, 11>> IN [i \in DOMAIN order |-> Sorted[order[i]]]

\* Two values of 1024 to 1279 bytes that differ behind the sixth character.
Wide == {Key(1100, 1, t, 1) : t \in {1, 2}}

\* A value that no page holds.
Huge == Key(5000, 1, 1, 1)

MCKeys == {Sorted[i] : i \in DOMAIN Sorted} \cup Wide \cup {Huge}

\* As many short keys as nodes are merged to fit on a page, but not as many longer ones.
MCSize(k) == IF k.len < 256 THEN 1 ELSE IF k.len < 512 THEN 2 ELSE IF k.len < 4048 THEN 3 ELSE 4
=============================================================================
