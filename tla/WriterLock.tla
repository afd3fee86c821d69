----------------------------- MODULE WriterLock -----------------------------
(***************************************************************************)
(* The writer lock of a Database and the life of a transaction: lock,      *)
(* unlock, releaseWriterLock, Transaction, TransactionContext,             *)
(* runTransaction, Commit, Rollback, Close and the schema and maintenance  *)
(* operations that take the lock (db.go, tx.go).                           *)
(*                                                                         *)
(* The actors are API calls.  A call is made by a goroutine, either at top *)
(* level or from the callback of another call; in the second case it runs  *)
(* on the callback's goroutine or on a goroutine the callback spawned and  *)
(* waits for.  What Commit and Rollback write is the subject of other      *)
(* modules: here it is the step "finishing", which may fail.               *)
(***************************************************************************)
EXTENDS Integers

CONSTANTS
    Calls,          \* API calls that can be in progress at the same time
    NoCall,         \* the parent of a call made at top level
    Goroutines,     \* goroutine ids (getGoroutineID)
    NoGoroutine,    \* the value 0 of activeGoroutineID
    TopLevel,       \* <<kind, context>> pairs of the calls made at top level
    Nested          \* <<kind, context>> pairs of the calls callbacks make

TxKinds == {"Transaction", "TransactionContext"}
\* "Maintenance" is registerTableMetadata on a table that is not registered
\* yet, DropTable, Compact and Backup: lock(context.Background()), closed?,
\* work, unlock.
Kinds == TxKinds \cup {"Maintenance", "Close"}

\* "background" never ends; "timed" (TransactionWaitTimeout > 0) always ends;
\* "live" is a caller's context, which may end; "transaction" is a context
\* derived from the one handed to a transaction's callback.
Ended == {"cancelled", "deadline"}
Contexts == {"nil", "background", "timed", "live", "transaction"} \cup Ended

ContextsOf(k) ==
    CASE k = "Transaction"        -> {"background", "timed"}
      [] k = "TransactionContext" -> Contexts \ {"timed"}
      [] OTHER                    -> {"background"}

Invocations == {i \in Kinds \X Contexts : i[2] \in ContextsOf(i[1])}

ASSUME ActorsAssumption ==
    /\ NoCall \notin Calls
    /\ NoGoroutine \notin Goroutines
ASSUME InvocationsAssumption ==
    /\ TopLevel \subseteq {i \in Invocations : i[2] # "transaction"}
    /\ Nested \subseteq Invocations

VARIABLES
    writeLock,          \* number of tokens in the channel writeLock
    activeGoroutineID,
    closed,
    pc,                 \* where each call is
    call,               \* each call's kind, context, goroutine and parent call
    active,             \* transaction.active
    explicit            \* Commit or Rollback was called by the callback itself

vars == <<writeLock, activeGoroutineID, closed, pc, call, active, explicit>>
lockVars == <<writeLock, activeGoroutineID, closed>>
txVars == <<active, explicit>>

PCs == {"idle", "waiting", "acquired", "locked", "callback", "finishing",
        "unlocking", "working"}

CallRecords == [kind : Kinds, ctx : Contexts, gid : Goroutines \cup {NoGoroutine},
                parent : Calls \cup {NoCall}]

NoInvocation == [kind |-> "Transaction", ctx |-> "background",
                 gid |-> NoGoroutine, parent |-> NoCall]

\* Every variable stays in its set.
TypeOK ==
    /\ writeLock \in {0, 1}
    /\ activeGoroutineID \in Goroutines \cup {NoGoroutine}
    /\ closed \in BOOLEAN
    /\ pc \in [Calls -> PCs]
    /\ call \in [Calls -> CallRecords]
    /\ active \in [Calls -> BOOLEAN]
    /\ explicit \in [Calls -> BOOLEAN]

Init ==
    /\ writeLock = 1
    /\ activeGoroutineID = NoGoroutine
    /\ closed = FALSE
    /\ pc = [c \in Calls |-> "idle"]
    /\ call = [c \in Calls |-> NoInvocation]
    /\ active = [c \in Calls |-> FALSE]
    /\ explicit = [c \in Calls |-> FALSE]

-----------------------------------------------------------------------------
Goto(c, to) ==
    /\ pc' = [pc EXCEPT ![c] = to]
    /\ UNCHANGED call

\* The call returns to its caller.
Return(c) ==
    /\ pc' = [pc EXCEPT ![c] = "idle"]
    /\ call' = [call EXCEPT ![c] = NoInvocation]

\* The channel holds one token; putting one into a full channel is a no-op.
unlock == writeLock' = 1

\* A callback goes on only when the calls it made have returned.
Children(p) == {c \in Calls : pc[c] # "idle" /\ call[c].parent = p}

GoroutineIsFree(g) == \A c \in Calls : pc[c] # "idle" => call[c].gid # g

\* Who may make a call: a goroutine that is doing nothing else, at top level,
\* or the callback of p, on its own goroutine or on a spawned one.
MayInvoke(g, p, i) ==
    \/ p = NoCall /\ i \in TopLevel /\ GoroutineIsFree(g)
    \/ /\ p \in Calls
       /\ pc[p] = "callback"
       /\ Children(p) = {}
       /\ i \in Nested
       /\ g = call[p].gid \/ GoroutineIsFree(g)

\* Mutant: a call on the transaction's own goroutine is not recognised.
RejectedWithoutOwner(k, x, g) == x \in {"nil", "transaction"} \cup Ended

\* The checks TransactionContext, runTransaction and lock make before they
\* wait: nil context, context of a transaction, same goroutine, ended context.
RejectedAtEntry(k, x, g) ==
    \/ x \in {"nil", "transaction"} \cup Ended
    \/ k \in TxKinds /\ activeGoroutineID = g

Invoke(c, g, p, i) ==
    /\ pc[c] = "idle"
    /\ MayInvoke(g, p, i)
    /\ ~RejectedAtEntry(i[1], i[2], g)
    /\ call' = [call EXCEPT ![c] =
                   [kind |-> i[1], ctx |-> i[2], gid |-> g, parent |-> p]]
    /\ pc' = [pc EXCEPT ![c] = "waiting"]
    /\ UNCHANGED <<lockVars, txVars>>

\* A call that is rejected at entry returns its error and changes nothing.
InvokeRejected(c, g, p, i) ==
    /\ pc[c] = "idle"
    /\ MayInvoke(g, p, i)
    /\ RejectedAtEntry(i[1], i[2], g)
    /\ UNCHANGED vars

\* The deadline of TransactionWaitTimeout passes.
Expire(c) ==
    /\ pc[c] \in {"waiting", "acquired"}
    /\ call[c].ctx = "timed"
    /\ call' = [call EXCEPT ![c].ctx = "deadline"]
    /\ UNCHANGED <<lockVars, pc, txVars>>

\* The caller's context is cancelled or reaches its deadline.
ContextEnds(c) ==
    /\ pc[c] \in {"waiting", "acquired"}
    /\ call[c].ctx = "live"
    /\ \E e \in Ended : call' = [call EXCEPT ![c].ctx = e]
    /\ UNCHANGED <<lockVars, pc, txVars>>

\* Mutant: the call goes on without having received the token.
AcquireAnyway(c) ==
    /\ pc[c] = "waiting"
    /\ writeLock' = writeLock - 1
    /\ Goto(c, "acquired")
    /\ UNCHANGED <<activeGoroutineID, closed, txVars>>

\* lock: the two cases of the select ...
Acquire(c) ==
    /\ pc[c] = "waiting"
    /\ writeLock = 1
    /\ writeLock' = 0
    /\ Goto(c, "acquired")
    /\ UNCHANGED <<activeGoroutineID, closed, txVars>>

GiveUp(c) ==
    /\ pc[c] = "waiting"
    /\ call[c].ctx \in Ended
    /\ Return(c)
    /\ UNCHANGED <<lockVars, txVars>>

\* Mutant: the token is not put back when the context ended meanwhile.
RecheckKeepsToken(c) ==
    /\ pc[c] = "acquired"
    /\ IF call[c].ctx \in Ended THEN Return(c) ELSE Goto(c, "locked")
    /\ UNCHANGED <<lockVars, txVars>>

\* ... and the second look at the context after the token was received.
Recheck(c) ==
    /\ pc[c] = "acquired"
    /\ IF call[c].ctx \in Ended
       THEN Return(c) /\ unlock
       ELSE Goto(c, "locked") /\ UNCHANGED writeLock
    /\ UNCHANGED <<activeGoroutineID, closed, txVars>>

\* Every holder of the lock looks at closed first and gives up if it is set.
EnterClosed(c) ==
    /\ pc[c] = "locked"
    /\ closed
    /\ unlock
    /\ Return(c)
    /\ UNCHANGED <<activeGoroutineID, closed, txVars>>

\* Mutant: closed is not looked at again after waiting.
EnterTransactionUnchecked(c) ==
    /\ pc[c] = "locked"
    /\ call[c].kind \in TxKinds
    /\ activeGoroutineID' = call[c].gid
    /\ active' = [active EXCEPT ![c] = TRUE]
    /\ Goto(c, "callback")
    /\ UNCHANGED <<writeLock, closed, explicit>>

EnterTransaction(c) ==
    /\ pc[c] = "locked"
    /\ call[c].kind \in TxKinds
    /\ ~closed
    /\ activeGoroutineID' = call[c].gid
    /\ active' = [active EXCEPT ![c] = TRUE]
    /\ Goto(c, "callback")
    /\ UNCHANGED <<writeLock, closed, explicit>>

\* Mutant: the same for the operations without a transaction.
EnterMaintenanceUnchecked(c) ==
    /\ pc[c] = "locked"
    /\ call[c].kind = "Maintenance"
    /\ Goto(c, "working")
    /\ UNCHANGED <<lockVars, txVars>>

EnterMaintenance(c) ==
    /\ pc[c] = "locked"
    /\ call[c].kind = "Maintenance"
    /\ ~closed
    /\ Goto(c, "working")
    /\ UNCHANGED <<lockVars, txVars>>

EnterClose(c) ==
    /\ pc[c] = "locked"
    /\ call[c].kind = "Close"
    /\ ~closed
    /\ closed' = TRUE
    /\ Goto(c, "working")
    /\ UNCHANGED <<writeLock, activeGoroutineID, txVars>>

\* The deferred unlock of the operations without a transaction.
Finish(c) ==
    /\ pc[c] = "working"
    /\ unlock
    /\ Return(c)
    /\ UNCHANGED <<activeGoroutineID, closed, txVars>>

-----------------------------------------------------------------------------
\* The callback of a transaction.
InCallback(c) == pc[c] = "callback" /\ Children(c) = {}

\* Commit or Rollback of an active transaction; ex: called by the callback.
\* Both make the transaction inactive first and release the lock last, on
\* every path: success, rollback-only, unique violation, WAL error, panic.
EndTransaction(c, ex) ==
    /\ InCallback(c)
    /\ active[c]
    /\ active' = [active EXCEPT ![c] = FALSE]
    /\ explicit' = [explicit EXCEPT ![c] = ex]
    /\ Goto(c, "finishing")
    /\ UNCHANGED <<lockVars>>

\* The callback returns (or panics) with its transaction already ended: the
\* call returns.  With an active one runTransaction commits or rolls back.
CallbackReturns(c) ==
    \/ EndTransaction(c, FALSE)
    \/ /\ InCallback(c)
       /\ ~active[c]
       /\ Return(c)
       /\ explicit' = [explicit EXCEPT ![c] = FALSE]
       /\ UNCHANGED <<lockVars, active>>

ExplicitEnd(c) == EndTransaction(c, TRUE)

\* Mutant: releaseWriterLock leaves activeGoroutineID set.
ClearOwnerForgets(c) ==
    /\ pc[c] = "finishing"
    /\ Goto(c, "unlocking")
    /\ UNCHANGED <<lockVars, txVars>>

\* releaseWriterLock: first the owner's goroutine id, then the token.
ClearOwner(c) ==
    /\ pc[c] = "finishing"
    /\ activeGoroutineID' = NoGoroutine
    /\ Goto(c, "unlocking")
    /\ UNCHANGED <<writeLock, closed, txVars>>

ReturnToken(c) ==
    /\ pc[c] = "unlocking"
    /\ unlock
    /\ IF explicit[c] THEN Goto(c, "callback") ELSE Return(c)
    /\ UNCHANGED <<activeGoroutineID, closed, txVars>>

-----------------------------------------------------------------------------
LockStep(c) ==
    \/ Acquire(c) \/ GiveUp(c) \/ Recheck(c)
    \/ EnterClosed(c) \/ EnterTransaction(c) \/ EnterMaintenance(c)
    \/ EnterClose(c) \/ Finish(c) \/ ClearOwner(c) \/ ReturnToken(c)

CallbackStep(c) == ExplicitEnd(c) \/ CallbackReturns(c)

Environment(c) ==
    \/ \E g \in Goroutines, p \in Calls \cup {NoCall}, i \in TopLevel \cup Nested :
          Invoke(c, g, p, i) \/ InvokeRejected(c, g, p, i)
    \/ Expire(c)
    \/ ContextEnds(c)

Next == \E c \in Calls : LockStep(c) \/ CallbackStep(c) \/ Environment(c)

Spec == Init /\ [][Next]_vars

\* Go schedules every goroutine (WF).  Goroutines blocked in a receive are
\* served in FIFO order, so a call that waits while the token keeps coming
\* back gets it (SF).  A timer fires.  A callback is assumed to return.
Fairness ==
    \A c \in Calls :
        /\ WF_vars(GiveUp(c) \/ Recheck(c) \/ EnterClosed(c)
                   \/ EnterTransaction(c) \/ EnterMaintenance(c)
                   \/ EnterClose(c) \/ Finish(c) \/ ClearOwner(c)
                   \/ ReturnToken(c))
        /\ WF_vars(Expire(c))
        /\ SF_vars(Acquire(c))
        /\ SF_vars(CallbackReturns(c))

FairSpec == Spec /\ Fairness

-----------------------------------------------------------------------------
\* A call holds the token from the receive in lock to unlock.
Holds(c) ==
    \/ pc[c] \in {"acquired", "locked", "finishing", "unlocking", "working"}
    \/ pc[c] = "callback" /\ active[c]

\* Commit and Rollback work for the transaction until the owner is cleared.
Runs(c) == active[c] \/ pc[c] = "finishing"

\* The token of writeLock is never lost and never doubled: it is in the
\* channel exactly when no call holds it, and two calls never hold it, through
\* timeouts and cancellations racing the receive, errors, panics, explicit
\* Commit and Rollback inside callbacks, and Close (db.go lock, unlock).
TokenConserved ==
    /\ writeLock = 1 <=> \A c \in Calls : ~Holds(c)
    /\ \A c, d \in Calls : Holds(c) /\ Holds(d) => c = d

\* activeGoroutineID names the goroutine of the open transaction, and nobody
\* when none is open: a nested call on that goroutine is always recognised,
\* and a goroutine that is in no transaction is never rejected as nested
\* (db.go runTransaction and releaseWriterLock).
OwnerRecorded ==
    /\ \A c \in Calls : Runs(c) => activeGoroutineID = call[c].gid
    /\ activeGoroutineID # NoGoroutine => \E c \in Calls : Runs(c)

\* Once Close has set closed, no transaction is open, no maintenance operation
\* works, and none can start: whoever waited for the lock finds it closed.
ClosedIsQuiet ==
    closed => \A c \in Calls :
                 /\ ~Runs(c)
                 /\ pc[c] = "working" => call[c].kind = "Close"

\* The goroutine that waits for the lock is never the one that is inside an
\* open transaction, unless it asked for maintenance: a transaction cannot
\* wait for itself (the nesting check of runTransaction).
NoSelfWait ==
    \A c, d \in Calls :
        pc[c] = "waiting" /\ call[c].kind \in TxKinds /\ Runs(d) => call[c].gid # call[d].gid

\* Calls are in progress, none can go on and no context will end.
Stuck ==
    /\ \E c \in Calls : pc[c] # "idle"
    /\ \A c \in Calls : ~ENABLED (LockStep(c) \/ CallbackStep(c) \/ Expire(c) \/ ContextEnds(c))

\* What keeps a call: the empty channel, when nothing limits the wait, or a call that
\* its callback made.
Blocked(c) ==
    \/ pc[c] = "waiting" /\ writeLock = 0 /\ call[c].ctx \notin {"timed", "live"} \cup Ended
    \/ pc[c] = "callback" /\ Children(c) # {}

\* Calls are in progress and each of them is kept.
AllBlocked ==
    /\ \E c \in Calls : pc[c] # "idle"
    /\ \A c \in Calls : pc[c] # "idle" => Blocked(c)

\* The callback of the transaction that holds the lock waits for a call that waits for
\* the lock without a limit, and that the nesting check lets through because it is no
\* transaction (GetTable of a new table, DropTable, Compact, Backup, Close) or runs on a
\* goroutine the callback spawned.
NestedWait ==
    \E c, d \in Calls :
        /\ Holds(d) /\ pc[d] = "callback"
        /\ pc[c] = "waiting" /\ call[c].parent = d /\ call[c].ctx = "background"
        /\ call[c].kind \notin TxKinds \/ call[c].gid # call[d].gid

\* The only deadlock there is: calls stop for ever exactly when each of them is blocked,
\* and then the callback of the transaction that holds the lock waits for a call that
\* waits for the lock (db.go lock, runTransaction).
DeadlockOnlyNested ==
    /\ Stuck <=> AllBlocked
    /\ AllBlocked => NestedWait

\* Every call returns: a waiter gets the lock or an error, and the holder gives
\* it back (README "prevent transaction writer lock starvation or deadlocks").
CallsReturn == \A c \in Calls : pc[c] # "idle" ~> pc[c] = "idle"

\* The lock implements the abstract serial writer.
Owner == IF \E c \in Calls : Holds(c) THEN CHOOSE c \in Calls : Holds(c) ELSE NoCall
Running == IF \E c \in Calls : Runs(c) THEN CHOOSE c \in Calls : Runs(c) ELSE NoCall

Serial == INSTANCE SerialWriter WITH owner <- Owner, running <- Running

\* Every step of the lock is a step of SerialWriter or changes nothing it sees.
ImplementsSerialWriter == Serial!Spec
=============================================================================
