---------------------------- MODULE MCWriterLock ----------------------------
(* WriterLock on three calls and two or three goroutines. *)
EXTENDS WriterLock, TLC

AnyTopLevel == {i \in Invocations : i[2] # "transaction"}

\* Everything a callback can call, the operations of README's "never" included.
AnyNested == Invocations

\* What README's guidelines leave: bounded waits, and the context handed to the
\* callback passed on.
GuidedNested == {<<"Transaction", "timed">>, <<"TransactionContext", "transaction">>}
GuidedTopLevel == {<<"Transaction", "timed">>, <<"TransactionContext", "live">>,
                   <<"Maintenance", "background">>, <<"Close", "background">>}

CallSymmetry == Permutations(Calls) \cup Permutations(Goroutines)
=============================================================================
