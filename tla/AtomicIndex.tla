----------------------------- MODULE AtomicIndex ------------------------------
(***************************************************************************)
(* What the index file promises to the rest of MasterKeeper: a transaction *)
(* changes what the file holds in one step or not at all, a crash changes  *)
(* nothing, and when recovery ends the file holds what all transactions of *)
(* the WAL left.  While the WAL is replayed, a named index holds what some *)
(* transaction gave it.  A crash may also destroy the file for good.       *)
(* IndexFile is shown to implement this.                                   *)
(***************************************************************************)
EXTENDS Integers, Sequences

CONSTANTS Names     \* the named indexes of one file

VARIABLES log,      \* transactions in the WAL, each the set of names it changes
          content,  \* name -> the transaction that wrote it last, 0 before; or Lost
          serving   \* the database is open, not down or recovering

vars == <<log, content, serving>>

\* The last of the first n transactions that changes a name.
LastWrite(n, name) ==
    LET writes == {i \in 1..n : name \in log[i]}
    IN  IF writes = {} THEN 0 ELSE CHOOSE i \in writes : \A j \in writes : j <= i

\* The content of a file that cannot be opened.
Lost == [name \in Names |-> -1]

After(n) == [name \in Names |-> LastWrite(n, name)]

Init ==
    /\ log = <<>>
    /\ content = After(0)
    /\ serving = TRUE

Log(S) ==
    /\ serving
    /\ content = After(Len(log))
    /\ log' = Append(log, S)
    /\ UNCHANGED <<content, serving>>

Commit ==
    /\ serving
    /\ content' = After(Len(log))
    /\ UNCHANGED <<log, serving>>

Crash ==
    /\ serving' = FALSE
    /\ UNCHANGED <<log, content>>

Destroy ==
    /\ serving' = FALSE
    /\ content' = Lost
    /\ UNCHANGED log

Replay ==
    /\ ~serving
    /\ content # Lost
    /\ content' \in [Names -> 0..Len(log)]
    /\ \A n \in Names : content'[n] # 0 => n \in log[content'[n]]
    /\ UNCHANGED <<log, serving>>

Serve ==
    /\ content = After(Len(log))
    /\ serving' = TRUE
    /\ UNCHANGED <<log, content>>

Next == (\E S \in SUBSET Names : Log(S)) \/ Commit \/ Crash \/ Destroy \/ Replay \/ Serve

Spec == Init /\ [][Next]_vars
=============================================================================
