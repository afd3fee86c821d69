-------------------------- MODULE WriterLockProofs --------------------------
(***************************************************************************)
(* Proofs about WriterLock, for any number of calls and goroutines and any *)
(* set of invocations: the token is conserved, the owner's goroutine is    *)
(* recorded, a closed database is quiet, no transaction waits for its own  *)
(* goroutine, calls block one another only where a callback waits for a    *)
(* call that waits for the lock, and the lock implements SerialWriter.     *)
(***************************************************************************)
EXTENDS WriterLock, TLAPS

\* A transaction is active only inside its callback.  This is what makes
\* TokenConserved inductive: Holds then follows pc except in a callback.
ActiveInCallback == \A c \in Calls : active[c] => pc[c] = "callback"

\* A transaction runs on a real goroutine.
CallsOnGoroutines == \A c \in Calls : pc[c] # "idle" => call[c].gid \in Goroutines

LockInv ==
    /\ TypeOK
    /\ ActiveInCallback
    /\ CallsOnGoroutines
    /\ TokenConserved
    /\ OwnerRecorded
    /\ ClosedIsQuiet

-----------------------------------------------------------------------------
\* The initial state is well typed and satisfies the inductive invariant.
LEMMA InitLockInv == Init => LockInv
  <1> SUFFICES ASSUME Init PROVE LockInv
    OBVIOUS
  <1> USE ActorsAssumption DEF Init
  <1>1. TypeOK
    BY DEF TypeOK, PCs, CallRecords, NoInvocation, Kinds, TxKinds, Contexts, Ended
  <1>2. \A c \in Calls : ~Holds(c) /\ ~Runs(c)
    BY DEF Holds, Runs
  <1>3. ActiveInCallback /\ CallsOnGoroutines
    BY DEF ActiveInCallback, CallsOnGoroutines
  <1>4. QED
    BY <1>1, <1>2, <1>3 DEF LockInv, TokenConserved, OwnerRecorded, ClosedIsQuiet

\* Types are preserved by every step of every call.
LEMMA TypeStep == TypeOK /\ [Next]_vars => TypeOK'
  <1> SUFFICES ASSUME TypeOK, [Next]_vars PROVE TypeOK'
    OBVIOUS
  <1> USE DEF TypeOK, PCs, CallRecords, NoInvocation, Goto, Return, unlock,
              lockVars, txVars
  <1>1. CASE UNCHANGED vars
    BY <1>1 DEF vars
  <1>2. ASSUME NEW c \in Calls, LockStep(c) PROVE TypeOK'
    <2> NoInvocation \in CallRecords
      BY DEF Kinds, TxKinds, Contexts
    <2>1. CASE Acquire(c)
      BY <2>1 DEF Acquire
    <2>2. CASE GiveUp(c)
      BY <2>2 DEF GiveUp
    <2>3. CASE Recheck(c)
      BY <2>3 DEF Recheck
    <2>4. CASE EnterClosed(c)
      BY <2>4 DEF EnterClosed
    <2>5. CASE EnterTransaction(c)
      BY <2>5 DEF EnterTransaction
    <2>6. CASE EnterMaintenance(c)
      BY <2>6 DEF EnterMaintenance
    <2>7. CASE EnterClose(c)
      BY <2>7 DEF EnterClose
    <2>8. CASE Finish(c)
      BY <2>8 DEF Finish
    <2>9. CASE ClearOwner(c)
      BY <2>9 DEF ClearOwner
    <2>10. CASE ReturnToken(c)
      BY <2>10 DEF ReturnToken
    <2>11. QED
      BY <1>2, <2>1, <2>2, <2>3, <2>4, <2>5, <2>6, <2>7, <2>8, <2>9, <2>10 DEF LockStep
  <1>3. ASSUME NEW c \in Calls, CallbackStep(c) PROVE TypeOK'
    <2> NoInvocation \in CallRecords
      BY DEF Kinds, TxKinds, Contexts
    <2>1. ASSUME NEW ex \in BOOLEAN, EndTransaction(c, ex) PROVE TypeOK'
      BY <2>1 DEF EndTransaction
    <2>2. ASSUME ~active[c], Return(c), explicit' = [explicit EXCEPT ![c] = FALSE],
                 UNCHANGED <<lockVars, active>>
          PROVE  TypeOK'
      BY <2>2
    <2>3. QED
      BY <1>3, <2>1, <2>2 DEF CallbackStep, ExplicitEnd, CallbackReturns
  <1>4. ASSUME NEW c \in Calls, Environment(c) PROVE TypeOK'
    <2>1. CASE Expire(c) \/ ContextEnds(c)
      BY <2>1 DEF Expire, ContextEnds, Contexts, Ended
    <2>2. ASSUME NEW g \in Goroutines, NEW p \in Calls \cup {NoCall},
                 NEW i \in TopLevel \cup Nested, Invoke(c, g, p, i)
          PROVE TypeOK'
      <3>1. i[1] \in Kinds /\ i[2] \in Contexts
        BY InvocationsAssumption DEF Invocations
      <3>2. QED
        BY <2>2, <3>1 DEF Invoke
    <2>3. ASSUME NEW g \in Goroutines, NEW p \in Calls \cup {NoCall},
                 NEW i \in TopLevel \cup Nested, InvokeRejected(c, g, p, i)
          PROVE TypeOK'
      BY <2>3 DEF InvokeRejected, vars
    <2>4. QED
      BY <1>4, <2>1, <2>2, <2>3 DEF Environment
  <1>5. QED
    BY <1>1, <1>2, <1>3, <1>4 DEF Next

\* WriterLock is type correct.
THEOREM TypeCorrect == Spec => []TypeOK
  <1>1. Init => TypeOK
    BY InitLockInv DEF LockInv
  <1>2. QED
    BY <1>1, TypeStep, PTL DEF Spec

-----------------------------------------------------------------------------
\* The strengthened invariant is inductive.  Every action moves one call; the
\* others keep their pc and active, hence Holds and Runs.
LEMMA LockInvStep == LockInv /\ [Next]_vars => LockInv'
  <1> SUFFICES ASSUME LockInv, [Next]_vars PROVE LockInv'
    OBVIOUS
  <1> TypeOK /\ TypeOK'
    BY TypeStep DEF LockInv
  <1> USE ActorsAssumption DEF TypeOK, PCs, LockInv, ActiveInCallback, CallsOnGoroutines, TokenConserved,
              OwnerRecorded, ClosedIsQuiet, Holds, Runs, Goto, Return, unlock,
              lockVars, txVars
  <1>1. CASE UNCHANGED vars
    BY <1>1 DEF vars
  <1>2. ASSUME NEW c \in Calls, Acquire(c) PROVE LockInv'
    BY <1>2 DEF Acquire
  <1>3. ASSUME NEW c \in Calls, GiveUp(c) PROVE LockInv'
    BY <1>3 DEF GiveUp
  <1>4. ASSUME NEW c \in Calls, Recheck(c) PROVE LockInv'
    BY <1>4 DEF Recheck
  <1>5. ASSUME NEW c \in Calls, EnterClosed(c) PROVE LockInv'
    BY <1>5 DEF EnterClosed
  <1>6. ASSUME NEW c \in Calls, EnterTransaction(c) PROVE LockInv'
    BY <1>6 DEF EnterTransaction
  <1>7. ASSUME NEW c \in Calls, EnterMaintenance(c) PROVE LockInv'
    BY <1>7 DEF EnterMaintenance
  <1>8. ASSUME NEW c \in Calls, EnterClose(c) PROVE LockInv'
    BY <1>8 DEF EnterClose
  <1>9. ASSUME NEW c \in Calls, Finish(c) PROVE LockInv'
    BY <1>9 DEF Finish
  <1>10. ASSUME NEW c \in Calls, ClearOwner(c) PROVE LockInv'
    BY <1>10 DEF ClearOwner
  <1>11. ASSUME NEW c \in Calls, ReturnToken(c) PROVE LockInv'
    BY <1>11 DEF ReturnToken
  <1>12. ASSUME NEW c \in Calls, NEW ex \in BOOLEAN, EndTransaction(c, ex) PROVE LockInv'
    BY <1>12 DEF EndTransaction, InCallback
  <1>13. ASSUME NEW c \in Calls, InCallback(c), ~active[c], Return(c),
               UNCHANGED <<lockVars, active>>
        PROVE  LockInv'
    BY <1>13 DEF InCallback
  <1>14. ASSUME NEW c \in Calls, Expire(c) \/ ContextEnds(c) PROVE LockInv'
    <2> PICK e \in Ended : call' = [call EXCEPT ![c].ctx = e]
      BY <1>14 DEF Expire, ContextEnds, Ended
    <2>1. \A d \in Calls : /\ call'[d].kind = call[d].kind
                           /\ call'[d].gid = call[d].gid
      BY DEF CallRecords
    <2>2. UNCHANGED <<lockVars, pc, txVars>>
      BY <1>14 DEF Expire, ContextEnds
    <2>3. QED
      BY <2>1, <2>2
  <1>15. ASSUME NEW c \in Calls, NEW g \in Goroutines, NEW p \in Calls \cup {NoCall},
               NEW i \in TopLevel \cup Nested, Invoke(c, g, p, i)
        PROVE  LockInv'
    BY <1>15 DEF Invoke
  <1>16. QED
    BY <1>1, <1>2, <1>3, <1>4, <1>5, <1>6, <1>7, <1>8, <1>9, <1>10, <1>11, <1>12, <1>13, <1>14, <1>15
       DEF Next, LockStep, CallbackStep, CallbackReturns, ExplicitEnd, Environment,
           InvokeRejected, vars

-----------------------------------------------------------------------------
\* Every reachable state satisfies the inductive invariant.
THEOREM LockInvariant == Spec => []LockInv
  BY InitLockInv, LockInvStep, PTL DEF Spec

\* The writer token is never lost and never held twice.
THEOREM TokenIsConserved == Spec => []TokenConserved
  <1>1. LockInv => TokenConserved
    BY DEF LockInv
  <1>2. QED
    BY <1>1, LockInvariant, PTL

\* activeGoroutineID is exact, so the nesting check neither misses a nested
\* call on the owner's goroutine nor rejects a call of another one.
THEOREM OwnerIsRecorded == Spec => []OwnerRecorded
  <1>1. LockInv => OwnerRecorded
    BY DEF LockInv
  <1>2. QED
    BY <1>1, LockInvariant, PTL

\* Nothing runs in a closed database.
THEOREM ClosedStaysQuiet == Spec => []ClosedIsQuiet
  <1>1. LockInv => ClosedIsQuiet
    BY DEF LockInv
  <1>2. QED
    BY <1>1, LockInvariant, PTL

-----------------------------------------------------------------------------
\* The call that holds the token is the abstract owner, and the call whose
\* transaction is open is the abstract runner.
Mapped ==
    /\ \A c \in Calls : Holds(c) => Owner = c
    /\ (\A c \in Calls : ~Holds(c)) => Owner = NoCall
    /\ \A c \in Calls : Runs(c) => Running = c /\ Holds(c)
    /\ (\A c \in Calls : ~Runs(c)) => Running = NoCall

\* The refinement mapping is well defined in every state of the invariant.
LEMMA MappedOwner == LockInv => Mapped
  <1> SUFFICES ASSUME LockInv PROVE Mapped
    OBVIOUS
  <1>1. \A c, d \in Calls : Holds(c) /\ Holds(d) => c = d
    BY DEF LockInv, TokenConserved
  <1>2. \A c \in Calls : Runs(c) => Holds(c)
    BY DEF LockInv, ActiveInCallback, Runs, Holds
  <1>3. \A c \in Calls : Holds(c) => Owner = c
    BY <1>1 DEF Owner
  <1>4. \A c \in Calls : Runs(c) => Running = c
    BY <1>1, <1>2 DEF Running
  <1>5. QED
    BY <1>2, <1>3, <1>4 DEF Owner, Running, Mapped

\* A step of the lock is a step of SerialWriter or leaves its state alone.
LEMMA SerialStep == LockInv /\ LockInv' /\ [Next]_vars => [Serial!Next]_Serial!vars
  <1> SUFFICES ASSUME LockInv, LockInv', [Next]_vars
               PROVE  [Serial!Next]_Serial!vars
    OBVIOUS
  <1> DEFINE Same == Owner' = Owner /\ Running' = Running /\ closed' = closed
  <1>a. /\ \A c \in Calls : Holds(c) => Owner = c
        /\ (\A c \in Calls : ~Holds(c)) => Owner = NoCall
        /\ \A c \in Calls : Runs(c) => Running = c /\ Holds(c)
        /\ (\A c \in Calls : ~Runs(c)) => Running = NoCall
    BY MappedOwner DEF Mapped
  <1>p. Mapped'
    BY MappedOwner, PTL
  <1>b. /\ \A c \in Calls : Holds(c)' => Owner' = c
        /\ (\A c \in Calls : ~Holds(c)') => Owner' = NoCall
        /\ \A c \in Calls : Runs(c)' => Running' = c /\ Holds(c)'
        /\ (\A c \in Calls : ~Runs(c)') => Running' = NoCall
    BY <1>p DEF Mapped
  <1>t. /\ pc \in [Calls -> PCs] /\ active \in [Calls -> BOOLEAN]
        /\ \A c \in Calls : active[c] => pc[c] = "callback"
    BY DEF LockInv, TypeOK, ActiveInCallback
  <1>u. writeLock = 1 <=> \A c \in Calls : ~Holds(c)
    BY DEF LockInv, TokenConserved
  \* The steps that move no call into or out of Holds and Runs.
  <1>s. ASSUME closed' = closed,
               \A d \in Calls : (Holds(d)' <=> Holds(d)) /\ (Runs(d)' <=> Runs(d))
        PROVE  Same
    BY <1>a, <1>b, <1>s
  <1>q. Same => [Serial!Next]_Serial!vars
    BY DEF Serial!vars
  <1> HIDE DEF Same
  \* Every step but the one of c leaves the other calls alone.
  <1> USE DEF Goto, Return, unlock, lockVars, txVars
  <1>1. CASE UNCHANGED vars
    BY <1>1, <1>s, <1>q DEF vars, Holds, Runs
  <1>2. ASSUME NEW c \in Calls, Acquire(c) PROVE Serial!Take(c)
    <2>1. Owner = NoCall /\ Running = NoCall
      BY <1>2, <1>a, <1>u DEF Acquire
    <2>2. Holds(c)' /\ \A d \in Calls : Runs(d)' <=> Runs(d)
      BY <1>2, <1>t DEF Acquire, Holds, Runs
    <2>3. \A d \in Calls : ~Runs(d)
      BY <1>2, <1>a, <1>u DEF Acquire
    <2>4. QED
      BY <1>2, <1>b, <2>1, <2>2, <2>3 DEF Acquire, Serial!Take
  <1>3. ASSUME NEW c \in Calls, GiveUp(c) PROVE Same
    BY <1>3, <1>t, <1>s DEF GiveUp, Holds, Runs
  \* Giving the token back.
  <1>g. ASSUME NEW c \in Calls, Holds(c), ~Runs(c), ~Holds(c)', closed' = closed,
               \A d \in Calls : d # c => (Holds(d)' <=> Holds(d))
        PROVE  Serial!Give(c)
    <2>1. \A d \in Calls : d # c => ~Holds(d)
      BY <1>g, <1>a
    <2>2. Owner = c /\ Running = NoCall /\ Owner' = NoCall /\ Running' = NoCall
      BY <1>g, <1>a, <1>b, <2>1
    <2>3. QED
      BY <1>g, <2>2 DEF Serial!Give
  <1>4. ASSUME NEW c \in Calls, Recheck(c) PROVE Same \/ Serial!Give(c)
    <2>1. CASE call[c].ctx \in Ended
      BY <1>4, <2>1, <1>t, <1>g DEF Recheck, Holds, Runs
    <2>2. CASE call[c].ctx \notin Ended
      BY <1>4, <2>2, <1>t, <1>s DEF Recheck, Holds, Runs
    <2>3. QED
      BY <2>1, <2>2
  <1>5. ASSUME NEW c \in Calls, EnterClosed(c) PROVE Serial!Give(c)
    BY <1>5, <1>t, <1>g DEF EnterClosed, Holds, Runs
  <1>6. ASSUME NEW c \in Calls, EnterTransaction(c) PROVE Serial!Run(c)
    <2>1. Holds(c) /\ Holds(c)' /\ Runs(c)'
      BY <1>6, <1>t DEF EnterTransaction, Holds, Runs
    <2>2. \A d \in Calls : ~Runs(d)
      BY <1>6, <1>a, <1>t, <2>1 DEF EnterTransaction, Runs
    <2>3. QED
      BY <1>6, <1>a, <1>b, <2>1, <2>2 DEF EnterTransaction, Serial!Run
  <1>7. ASSUME NEW c \in Calls, EnterMaintenance(c) PROVE Same
    BY <1>7, <1>t, <1>s DEF EnterMaintenance, Holds, Runs
  <1>8. ASSUME NEW c \in Calls, EnterClose(c) PROVE Serial!Shut(c)
    <2>1. Holds(c) /\ Holds(c)' /\ ~Runs(c) /\ \A d \in Calls : Runs(d)' <=> Runs(d)
      BY <1>8, <1>t DEF EnterClose, Holds, Runs
    <2>2. \A d \in Calls : ~Runs(d)
      BY <1>a, <2>1
    <2>3. QED
      BY <1>8, <1>a, <1>b, <2>1, <2>2 DEF EnterClose, Serial!Shut
  <1>9. ASSUME NEW c \in Calls, Finish(c) PROVE Serial!Give(c)
    BY <1>9, <1>t, <1>g DEF Finish, Holds, Runs
  <1>10. ASSUME NEW c \in Calls, ClearOwner(c) PROVE Serial!Stop(c)
    <2>1. Runs(c) /\ ~Runs(c)' /\ Holds(c)'
      BY <1>10, <1>t DEF ClearOwner, Holds, Runs
    <2>2. \A d \in Calls : ~Runs(d)'
      BY <1>b, <2>1
    <2>3. QED
      BY <1>10, <1>a, <1>b, <2>1, <2>2 DEF ClearOwner, Serial!Stop
  <1>11. ASSUME NEW c \in Calls, ReturnToken(c) PROVE Serial!Give(c)
    BY <1>11, <1>t, <1>g DEF ReturnToken, Holds, Runs
  <1>12. ASSUME NEW c \in Calls, NEW ex \in BOOLEAN, EndTransaction(c, ex) PROVE Same
    BY <1>12, <1>t, <1>s DEF EndTransaction, InCallback, Holds, Runs
  <1>13. ASSUME NEW c \in Calls, InCallback(c), ~active[c], Return(c),
                UNCHANGED <<lockVars, active>>
         PROVE  Same
    BY <1>13, <1>t, <1>s DEF InCallback, Holds, Runs
  <1>14. ASSUME NEW c \in Calls, Expire(c) \/ ContextEnds(c) PROVE Same
    BY <1>14, <1>t, <1>s DEF Expire, ContextEnds, Holds, Runs
  <1>15. ASSUME NEW c \in Calls, NEW g \in Goroutines, NEW p \in Calls \cup {NoCall},
                NEW i \in TopLevel \cup Nested, Invoke(c, g, p, i)
         PROVE  Same
    BY <1>15, <1>t, <1>s DEF Invoke, Holds, Runs
  <1>16. CASE Next
    <2> PICK c \in Calls : LockStep(c) \/ CallbackStep(c) \/ Environment(c)
      BY <1>16 DEF Next
    <2>1. CASE LockStep(c)
      BY <2>1, <1>q, <1>2, <1>3, <1>4, <1>5, <1>6, <1>7, <1>8, <1>9, <1>10, <1>11
         DEF LockStep, Serial!Next
    <2>2. CASE CallbackStep(c)
      BY <2>2, <1>q, <1>12, <1>13 DEF CallbackStep, CallbackReturns, ExplicitEnd
    <2>3. CASE Environment(c)
      BY <2>3, <1>q, <1>1, <1>14, <1>15 DEF Environment, InvokeRejected
    <2>4. QED
      BY <2>1, <2>2, <2>3
  <1>17. QED
    BY <1>1, <1>16

\* WriterLock implements SerialWriter: one owner at a time, handed over only
\* through the free lock, and no transaction in a closed database.
THEOREM WriterLockIsSerial == Spec => ImplementsSerialWriter
  <1>1. Init => Serial!Init
    <2> SUFFICES ASSUME Init PROVE Serial!Init
      OBVIOUS
    <2>1. \A c \in Calls : ~Holds(c) /\ ~Runs(c)
      BY DEF Init, Holds, Runs
    <2>2. QED
      BY <2>1 DEF Init, Serial!Init, Owner, Running
  <1>2. QED
    BY <1>1, SerialStep, LockInvariant, PTL DEF Spec, ImplementsSerialWriter, Serial!Spec
-----------------------------------------------------------------------------
\* A call in progress was made by a callback that is still running.
ParentsInCallback ==
    \A c \in Calls : pc[c] # "idle" /\ call[c].parent # NoCall => pc[call[c].parent] = "callback"

\* A call on this goroutine that has no call of its own in progress there.
Innermost(c) ==
    /\ pc[c] # "idle"
    /\ \A d \in Calls : pc[d] # "idle" /\ call[d].parent = c => call[d].gid # call[c].gid

\* A goroutine is in one place: at most one of its calls is innermost.
OneInnermost ==
    \A c, d \in Calls : Innermost(c) /\ Innermost(d) /\ call[c].gid = call[d].gid => c = d

NestInv == LockInv /\ ParentsInCallback /\ OneInnermost /\ NoSelfWait

\* A call that is not in its callback has no calls in progress.
LEMMA OutsideCallback ==
    ASSUME TypeOK, ParentsInCallback, NEW c \in Calls, pc[c] \notin {"idle", "callback"}
    PROVE  Children(c) = {} /\ Innermost(c)
  BY ActorsAssumption DEF ParentsInCallback, Innermost, Children

\* A step that moves one call forward, and leaves the calls' goroutines and parents alone.
LEMMA MoveKeeps ==
    ASSUME NestInv, TypeOK', NEW c \in Calls, NEW to \in PCs \ {"idle"},
           pc[c] # "idle", Children(c) = {},
           pc' = [pc EXCEPT ![c] = to],
           \A d \in Calls : /\ call'[d].gid = call[d].gid
                            /\ call'[d].parent = call[d].parent
    PROVE  ParentsInCallback' /\ OneInnermost'
  <1>1. \A d \in Calls : (pc'[d] = "idle" <=> pc[d] = "idle") /\ (d # c => pc'[d] = pc[d])
    BY DEF NestInv, LockInv, TypeOK
  <1>2. ParentsInCallback'
    <2> SUFFICES ASSUME NEW d \in Calls, pc'[d] # "idle", call'[d].parent # NoCall
                 PROVE  pc'[call'[d].parent] = "callback"
      BY DEF ParentsInCallback
    <2>1. pc[call[d].parent] = "callback" /\ call'[d].parent = call[d].parent
      BY <1>1 DEF NestInv, ParentsInCallback
    <2>2. call[d].parent \in Calls
      BY DEF NestInv, LockInv, TypeOK, CallRecords
    <2>3. call[d].parent # c
      BY <1>1 DEF Children
    <2> QED BY <1>1, <2>1, <2>2, <2>3
  <1>3. \A d \in Calls : Innermost(d)' <=> Innermost(d)
    BY <1>1 DEF Innermost
  <1> QED BY <1>2, <1>3 DEF NestInv, OneInnermost

\* A call without calls of its own returns: its caller becomes innermost, if it is on
\* the same goroutine.
LEMMA ReturnKeeps ==
    ASSUME NestInv, NEW c \in Calls, pc[c] # "idle", Children(c) = {}, Return(c)
    PROVE  ParentsInCallback' /\ OneInnermost'
  <1> TypeOK
    BY DEF NestInv, LockInv
  <1>1. /\ pc'[c] = "idle"
        /\ \A d \in Calls : d # c => pc'[d] = pc[d] /\ call'[d] = call[d]
    BY DEF TypeOK, Return
  <1>2. ParentsInCallback'
    <2> SUFFICES ASSUME NEW d \in Calls, pc'[d] # "idle", call'[d].parent # NoCall
                 PROVE  pc'[call'[d].parent] = "callback"
      BY DEF ParentsInCallback
    <2>1. d # c /\ pc[d] # "idle" /\ call'[d] = call[d]
      BY <1>1
    <2>2. call[d].parent \in Calls \ {c} /\ pc[call[d].parent] = "callback"
      BY <2>1 DEF NestInv, ParentsInCallback, TypeOK, CallRecords, Children
    <2> QED BY <1>1, <2>1, <2>2
  <1>3. Innermost(c)
    BY DEF Innermost, Children
  <1>4. \A d \in Calls : Innermost(d)' => d # c /\ (Innermost(d) \/ (d = call[c].parent /\ call[d].gid = call[c].gid))
    BY <1>1 DEF Innermost
  <1>5. ASSUME NEW d \in Calls, NEW e \in Calls, Innermost(d)', Innermost(e)',
               (call[d].gid = call[e].gid)'
        PROVE  d = e
    <2>1. d # c /\ e # c /\ call[d].gid = call[e].gid
      BY <1>1, <1>4, <1>5
    <2>2. CASE Innermost(d) /\ Innermost(e)
      BY <2>1, <2>2 DEF NestInv, OneInnermost
    <2>3. CASE ~Innermost(d)
      <3>1. d = call[c].parent /\ call[d].gid = call[c].gid
        BY <1>4, <1>5, <2>3
      <3>2. Innermost(e) => e = c
        BY <1>3, <2>1, <3>1 DEF NestInv, OneInnermost
      <3> QED BY <1>4, <1>5, <2>1, <3>1, <3>2
    <2>4. CASE ~Innermost(e)
      <3>1. e = call[c].parent /\ call[e].gid = call[c].gid
        BY <1>4, <1>5, <2>4
      <3>2. Innermost(d) => d = c
        BY <1>3, <2>1, <3>1 DEF NestInv, OneInnermost
      <3> QED BY <1>4, <1>5, <2>1, <3>1, <3>2
    <2> QED BY <2>2, <2>3, <2>4
  <1> QED BY <1>2, <1>5 DEF OneInnermost

\* A new call: its goroutine is free, or that of the callback that makes it.
LEMMA InvokeKeeps ==
    ASSUME NestInv, NEW c \in Calls, NEW g \in Goroutines, NEW p \in Calls \cup {NoCall},
           NEW i \in TopLevel \cup Nested, Invoke(c, g, p, i)
    PROVE  ParentsInCallback' /\ OneInnermost' /\ NoSelfWait'
  <1> TypeOK
    BY DEF NestInv, LockInv
  <1>1. /\ pc[c] = "idle" /\ pc'[c] = "waiting" /\ MayInvoke(g, p, i)
        /\ call'[c].gid = g /\ call'[c].parent = p /\ call'[c].kind = i[1]
        /\ \A d \in Calls : d # c => pc'[d] = pc[d] /\ call'[d] = call[d]
        /\ active' = active /\ activeGoroutineID' = activeGoroutineID
    BY DEF TypeOK, Invoke, lockVars, txVars
  <1>2. p \in Calls => pc[p] = "callback" /\ p # c /\ Children(p) = {}
    BY <1>1, ActorsAssumption DEF MayInvoke
  <1>3. \A d \in Calls : pc[d] # "idle" => call[d].parent # c
    BY <1>1, ActorsAssumption DEF NestInv, ParentsInCallback
  <1>4. ParentsInCallback'
    <2> SUFFICES ASSUME NEW d \in Calls, pc'[d] # "idle", call'[d].parent # NoCall
                 PROVE  pc'[call'[d].parent] = "callback"
      BY DEF ParentsInCallback
    <2>1. CASE d = c
      BY <1>1, <1>2, <2>1
    <2>2. CASE d # c
      <3>1. call[d].parent \in Calls \ {c} /\ pc[call[d].parent] = "callback"
        BY <1>1, <1>3, <2>2 DEF NestInv, ParentsInCallback, TypeOK, CallRecords
      <3> QED BY <1>1, <2>2, <3>1
    <2> QED BY <2>1, <2>2
  <1>5. \A d \in Calls : d # c /\ Innermost(d)' => Innermost(d) /\ call[d].gid # g
    <2> SUFFICES ASSUME NEW d \in Calls, d # c, Innermost(d)'
                 PROVE  Innermost(d) /\ call[d].gid # g
      OBVIOUS
    <2>1. pc[d] # "idle" /\ call'[d] = call[d]
      BY <1>1 DEF Innermost
    <2>2. Innermost(d)
      BY <1>1, <2>1 DEF Innermost
    <2>3. CASE GoroutineIsFree(g)
      BY <2>1, <2>2, <2>3 DEF GoroutineIsFree
    <2>4. CASE p \in Calls /\ g = call[p].gid
      <3>1. Innermost(p)
        BY <1>2, <2>4 DEF Innermost, Children
      <3>2. call[d].gid = g => d = p
        BY <2>2, <2>4, <3>1 DEF NestInv, OneInnermost
      <3>3. ~Innermost(p)'
        BY <1>1, <1>2, <2>4 DEF Innermost
      <3> QED BY <2>2, <3>2, <3>3
    <2> QED BY <1>1, <2>3, <2>4 DEF MayInvoke
  <1>6. OneInnermost'
    BY <1>1, <1>5 DEF NestInv, OneInnermost
  <1>7. NoSelfWait'
    <2> SUFFICES ASSUME NEW d \in Calls, NEW e \in Calls, pc'[d] = "waiting",
                        call'[d].kind \in TxKinds, Runs(e)'
                 PROVE  call'[d].gid # call'[e].gid
      BY DEF NoSelfWait
    <2>1. e # c /\ Runs(e)
      BY <1>1 DEF Runs, NestInv, LockInv, ActiveInCallback
    <2>2. CASE d = c
      <3>1. activeGoroutineID # g
        BY <1>1, <2>2 DEF Invoke, RejectedAtEntry
      <3>2. activeGoroutineID = call[e].gid
        BY <2>1 DEF NestInv, LockInv, OwnerRecorded
      <3> QED BY <1>1, <2>1, <2>2, <3>1, <3>2
    <2>3. CASE d # c
      BY <1>1, <2>1, <2>3 DEF NestInv, NoSelfWait
    <2> QED BY <2>2, <2>3
  <1> QED BY <1>4, <1>6, <1>7

\* No step of another call makes a waiting transaction wait for its own goroutine: who
\* enters a transaction is innermost on its goroutine, and so is who waits.
LEMMA NestStep == NestInv /\ [Next]_vars => NestInv'
  <1> SUFFICES ASSUME NestInv, [Next]_vars PROVE NestInv'
    OBVIOUS
  <1> TypeOK /\ LockInv /\ LockInv' /\ TypeOK'
    BY LockInvStep DEF NestInv, LockInv
  <1>i. \A c \in Calls : pc[c] \notin {"idle", "callback"} => Children(c) = {} /\ Innermost(c)
    BY OutsideCallback DEF NestInv
  <1>1. CASE UNCHANGED vars
    BY <1>1 DEF vars, NestInv, ParentsInCallback, OneInnermost, Innermost, NoSelfWait, Runs
  <1>2. ASSUME NEW c \in Calls, NEW to \in PCs \ {"idle"}, pc[c] # "idle", Children(c) = {},
               Goto(c, to), to # "waiting", \A d \in Calls : Runs(d)' => Runs(d)
        PROVE  NestInv'
    <2>1. ParentsInCallback' /\ OneInnermost'
      BY <1>2, MoveKeeps DEF Goto
    <2>2. NoSelfWait'
      BY <1>2 DEF NestInv, NoSelfWait, Goto, TypeOK
    <2> QED BY <2>1, <2>2 DEF NestInv
  <1>3. ASSUME NEW c \in Calls, pc[c] # "idle", Children(c) = {}, Return(c),
               \A d \in Calls : Runs(d)' => Runs(d)
        PROVE  NestInv'
    <2>1. ParentsInCallback' /\ OneInnermost'
      BY <1>3, ReturnKeeps
    <2>2. \A d \in Calls : d # c => pc'[d] = pc[d] /\ call'[d] = call[d]
      BY <1>3 DEF Return, TypeOK
    <2>3. ~Runs(c)' /\ pc'[c] = "idle"
      BY <1>3 DEF Return, Runs, TypeOK, LockInv, ActiveInCallback
    <2>4. NoSelfWait'
      BY <1>3, <2>2, <2>3 DEF NestInv, NoSelfWait
    <2> QED BY <2>1, <2>4 DEF NestInv
  <1>4. ASSUME NEW c \in Calls, EnterTransaction(c) PROVE NestInv'
    <2>1. ParentsInCallback' /\ OneInnermost'
      BY <1>4, <1>i, MoveKeeps DEF EnterTransaction, Goto, PCs
    <2>2. /\ pc[c] = "locked" /\ pc'[c] = "callback" /\ call' = call
          /\ \A d \in Calls : d # c => pc'[d] = pc[d] /\ active'[d] = active[d]
      BY <1>4 DEF EnterTransaction, Goto, TypeOK
    <2>3. NoSelfWait'
      <3> SUFFICES ASSUME NEW d \in Calls, NEW e \in Calls, pc'[d] = "waiting",
                          call'[d].kind \in TxKinds, Runs(e)'
                   PROVE  call'[d].gid # call'[e].gid
        BY DEF NoSelfWait
      <3>1. d # c /\ pc[d] = "waiting"
        BY <2>2
      <3>2. CASE e = c
        BY <1>i, <2>2, <3>1, <3>2 DEF NestInv, OneInnermost
      <3>3. CASE e # c
        BY <2>2, <3>1, <3>3 DEF NestInv, NoSelfWait, Runs
      <3> QED BY <3>2, <3>3
    <2> QED BY <2>1, <2>3 DEF NestInv
  <1>5. ASSUME NEW c \in Calls, LockStep(c) PROVE NestInv'
    <2> USE DEF Runs, PCs, lockVars, txVars
    <2>1. CASE Acquire(c)
      BY <2>1, <1>2, <1>i DEF Acquire, Goto, TypeOK
    <2>2. CASE GiveUp(c)
      BY <2>2, <1>3, <1>i DEF GiveUp, Return, TypeOK
    <2>3. CASE Recheck(c)
      <3>1. pc[c] = "acquired" /\ (Return(c) \/ Goto(c, "locked")) /\ active' = active
        BY <2>3 DEF Recheck
      <3>2. \A d \in Calls : Runs(d)' => Runs(d)
        BY <3>1 DEF Return, Goto, TypeOK
      <3> QED BY <3>1, <3>2, <1>2, <1>3, <1>i
    <2>4. CASE EnterClosed(c)
      BY <2>4, <1>3, <1>i DEF EnterClosed, Return, TypeOK
    <2>5. CASE EnterTransaction(c)
      BY <2>5, <1>4
    <2>6. CASE EnterMaintenance(c)
      BY <2>6, <1>2, <1>i DEF EnterMaintenance, Goto, TypeOK
    <2>7. CASE EnterClose(c)
      BY <2>7, <1>2, <1>i DEF EnterClose, Goto, TypeOK
    <2>8. CASE Finish(c)
      BY <2>8, <1>3, <1>i DEF Finish, Return, TypeOK
    <2>9. CASE ClearOwner(c)
      BY <2>9, <1>2, <1>i DEF ClearOwner, Goto, TypeOK
    <2>10. CASE ReturnToken(c)
      <3>1. pc[c] = "unlocking" /\ (Return(c) \/ Goto(c, "callback")) /\ active' = active
        BY <2>10 DEF ReturnToken
      <3>2. \A d \in Calls : Runs(d)' => Runs(d)
        BY <3>1 DEF Return, Goto, TypeOK
      <3> QED BY <3>1, <3>2, <1>2, <1>3, <1>i
    <2> QED BY <1>5, <2>1, <2>2, <2>3, <2>4, <2>5, <2>6, <2>7, <2>8, <2>9, <2>10 DEF LockStep
  <1>6. ASSUME NEW c \in Calls, CallbackStep(c) PROVE NestInv'
    <2>1. ASSUME NEW ex \in BOOLEAN, EndTransaction(c, ex) PROVE NestInv'
      <3>1. \A d \in Calls : Runs(d)' => Runs(d)
        BY <2>1 DEF EndTransaction, Goto, Runs, TypeOK
      <3> QED BY <2>1, <3>1, <1>2 DEF EndTransaction, InCallback, PCs
    <2>2. ASSUME InCallback(c), Return(c), active' = active PROVE NestInv'
      <3>1. \A d \in Calls : Runs(d)' => Runs(d)
        BY <2>2 DEF Return, Runs, TypeOK
      <3> QED BY <2>2, <3>1, <1>3 DEF InCallback
    <2> QED BY <1>6, <2>1, <2>2 DEF CallbackStep, CallbackReturns, ExplicitEnd
  <1>7. ASSUME NEW c \in Calls, Expire(c) \/ ContextEnds(c) PROVE NestInv'
    <2>1. \A d \in Calls : /\ call'[d].kind = call[d].kind
                           /\ call'[d].gid = call[d].gid
                           /\ call'[d].parent = call[d].parent
      BY <1>7 DEF Expire, ContextEnds, TypeOK, CallRecords
    <2>2. UNCHANGED <<pc, active>>
      BY <1>7 DEF Expire, ContextEnds, lockVars, txVars
    <2> QED BY <2>1, <2>2 DEF NestInv, ParentsInCallback, OneInnermost, Innermost, NoSelfWait, Runs
  <1>8. ASSUME NEW c \in Calls, Environment(c) PROVE NestInv'
    BY <1>8, <1>1, <1>7, InvokeKeeps DEF Environment, InvokeRejected, NestInv
  <1> QED BY <1>1, <1>5, <1>6, <1>8 DEF Next

\* A transaction never waits for the goroutine it runs on, for any calls nested in any way.
THEOREM NeverWaitsForItself == Spec => []NoSelfWait
  <1>1. Init => NestInv
    BY InitLockInv DEF Init, NestInv, ParentsInCallback, OneInnermost, Innermost, NoSelfWait
  <1>2. NestInv => NoSelfWait
    BY DEF NestInv
  <1> QED BY <1>1, <1>2, NestStep, PTL DEF Spec
-----------------------------------------------------------------------------
\* While a transaction is active, the calls its callback made wait for its token.
ChildrenWait ==
    \A c, d \in Calls : pc[c] # "idle" /\ call[c].parent = d /\ active[d] => pc[c] = "waiting"

\* A context that is nil or that of a transaction never gets as far as the channel.
WaitsWithContext == \A c \in Calls : pc[c] = "waiting" => call[c].ctx \notin {"nil", "transaction"}

\* Calls are nested, never in a circle: of any calls in progress one has none of them
\* as a call of its own.
NestingFounded ==
    \A S \in SUBSET {c \in Calls : pc[c] # "idle"} :
        S # {} => \E c \in S : \A d \in S : call[d].parent # c

\* The inductive invariant of the deadlock theorem.
WaitInv == NestInv /\ ChildrenWait /\ WaitsWithContext /\ NestingFounded

\* A step that starts no call and no transaction, and lets no call of an active
\* transaction leave the channel.
LEMMA WaitKept ==
    ASSUME WaitInv, NestInv',
           \A c \in Calls :
               /\ pc'[c] # "idle" => pc[c] # "idle" /\ call'[c].parent = call[c].parent
               /\ pc'[c] = "waiting" => pc[c] = "waiting" /\ call'[c].ctx \notin {"nil", "transaction"}
               /\ active'[c] => active[c]
               /\ pc[c] = "waiting" => \/ pc'[c] \in {"waiting", "idle"}
                                       \/ \A d \in Calls : ~active[d]
    PROVE  WaitInv'
  <1>1. ChildrenWait'
    BY DEF WaitInv, ChildrenWait
  <1>2. WaitsWithContext'
    BY DEF WaitsWithContext
  <1>3. NestingFounded'
    <2> SUFFICES ASSUME NEW S \in SUBSET {c \in Calls : pc'[c] # "idle"}, S # {}
                 PROVE  \E c \in S : \A d \in S : call'[d].parent # c
      BY DEF NestingFounded
    <2>1. S \in SUBSET {c \in Calls : pc[c] # "idle"} /\ \A d \in S : call'[d].parent = call[d].parent
      OBVIOUS
    <2>2. PICK c \in S : \A d \in S : call[d].parent # c
      BY <2>1 DEF WaitInv, NestingFounded
    <2> QED BY <2>1, <2>2
  <1> QED BY <1>1, <1>2, <1>3 DEF WaitInv

\* The token is in the channel: no transaction is active.
LEMMA TokenThere ==
    ASSUME LockInv, writeLock = 1, NEW d \in Calls
    PROVE  ~active[d]
  BY DEF LockInv, ActiveInCallback, TokenConserved, Holds

\* A new call waits, and no call in progress is its child.
LEMMA InvokeWaits ==
    ASSUME WaitInv, NestInv', NEW c \in Calls, NEW g \in Goroutines, NEW p \in Calls \cup {NoCall},
           NEW i \in TopLevel \cup Nested, Invoke(c, g, p, i)
    PROVE  WaitInv'
  <1> TypeOK
    BY DEF WaitInv, NestInv, LockInv
  <1>1. /\ pc[c] = "idle" /\ pc'[c] = "waiting" /\ MayInvoke(g, p, i)
        /\ call'[c].parent = p /\ call'[c].ctx = i[2] /\ i[2] \notin {"nil", "transaction"}
        /\ \A d \in Calls : d # c => pc'[d] = pc[d] /\ call'[d] = call[d]
        /\ active' = active
    BY DEF TypeOK, Invoke, RejectedAtEntry, txVars
  <1>2. p # c
    BY <1>1, ActorsAssumption DEF MayInvoke
  <1>3. \A d \in Calls : pc'[d] # "idle" => call'[d].parent # c
    BY <1>1, <1>2, ActorsAssumption DEF WaitInv, NestInv, ParentsInCallback
  <1>4. ChildrenWait'
    BY <1>1, <1>3 DEF WaitInv, ChildrenWait
  <1>5. WaitsWithContext'
    BY <1>1 DEF WaitInv, WaitsWithContext
  <1>6. NestingFounded'
    <2> SUFFICES ASSUME NEW S \in SUBSET {d \in Calls : pc'[d] # "idle"}, S # {}
                 PROVE  \E e \in S : \A d \in S : call'[d].parent # e
      BY DEF NestingFounded
    <2>1. CASE c \in S
      BY <1>3, <2>1
    <2>2. CASE c \notin S
      <3>1. S \in SUBSET {d \in Calls : pc[d] # "idle"} /\ \A d \in S : call'[d] = call[d]
        BY <1>1, <2>2
      <3>2. PICK e \in S : \A d \in S : call[d].parent # e
        BY <3>1 DEF WaitInv, NestingFounded
      <3> QED BY <3>1, <3>2
    <2> QED BY <2>1, <2>2
  <1> QED BY <1>4, <1>5, <1>6 DEF WaitInv

\* Every step keeps who waits for whom.
LEMMA WaitStep == WaitInv /\ [Next]_vars => WaitInv'
  <1> SUFFICES ASSUME WaitInv, [Next]_vars PROVE WaitInv'
    OBVIOUS
  <1> TypeOK /\ LockInv /\ NestInv /\ NestInv'
    BY NestStep DEF WaitInv, NestInv, LockInv
  <1>c. \A c \in Calls : pc[c] = "waiting" => call[c].ctx \notin {"nil", "transaction"}
    BY DEF WaitInv, WaitsWithContext
  <1>1. CASE UNCHANGED vars
    BY <1>1, <1>c, WaitKept DEF vars
  <1>2. ASSUME NEW c \in Calls, NEW to \in PCs \ {"idle", "waiting"}, pc[c] # "idle", Goto(c, to),
               pc[c] = "waiting" => writeLock = 1, \A d \in Calls : active'[d] => active[d]
        PROVE  WaitInv'
    <2>1. call' = call /\ pc'[c] = to /\ \A d \in Calls : d # c => pc'[d] = pc[d]
      BY <1>2 DEF Goto, TypeOK
    <2>2. pc[c] = "waiting" => \A d \in Calls : ~active[d]
      BY <1>2, TokenThere
    <2> QED BY <1>2, <1>c, <2>1, <2>2, WaitKept
  <1>3. ASSUME NEW c \in Calls, Return(c), active' = active
        PROVE  WaitInv'
    <2>1. pc'[c] = "idle" /\ \A d \in Calls : d # c => pc'[d] = pc[d] /\ call'[d] = call[d]
      BY <1>3 DEF Return, TypeOK
    <2> QED BY <1>3, <1>c, <2>1, WaitKept
  <1>4. ASSUME NEW c \in Calls, EnterTransaction(c) PROVE WaitInv'
    <2>1. /\ pc[c] = "locked" /\ pc'[c] = "callback" /\ call' = call
          /\ \A d \in Calls : d # c => pc'[d] = pc[d] /\ active'[d] = active[d]
      BY <1>4 DEF EnterTransaction, Goto, TypeOK
    <2>2. Children(c) = {}
      BY <2>1, OutsideCallback DEF NestInv
    <2>3. ASSUME NEW e \in Calls, NEW d \in Calls, pc'[e] # "idle", call'[e].parent = d, active'[d]
          PROVE  pc'[e] = "waiting"
      <3>1. pc[e] # "idle" /\ call[e].parent = d
        BY <2>1, <2>3
      <3>2. d # c
        BY <2>2, <3>1 DEF Children
      <3>3. pc[e] = "waiting"
        BY <2>1, <2>3, <3>1, <3>2 DEF WaitInv, ChildrenWait
      <3> QED BY <2>1, <3>3
    <2>4. ChildrenWait'
      BY <2>3 DEF ChildrenWait
    <2>5. WaitsWithContext'
      BY <1>c, <2>1 DEF WaitsWithContext
    <2>6. {d \in Calls : pc'[d] # "idle"} = {d \in Calls : pc[d] # "idle"}
      BY <2>1
    <2>7. NestingFounded'
      BY <2>1, <2>6 DEF WaitInv, NestingFounded
    <2> QED BY <2>4, <2>5, <2>7 DEF WaitInv
  <1>5. ASSUME NEW c \in Calls, LockStep(c) PROVE WaitInv'
    <2> USE DEF PCs, lockVars, txVars
    <2>1. CASE Acquire(c)
      BY <2>1, <1>2 DEF Acquire
    <2>2. CASE GiveUp(c)
      BY <2>2, <1>3 DEF GiveUp
    <2>3. CASE Recheck(c)
      BY <2>3, <1>2, <1>3 DEF Recheck
    <2>4. CASE EnterClosed(c)
      BY <2>4, <1>3 DEF EnterClosed
    <2>5. CASE EnterTransaction(c)
      BY <2>5, <1>4
    <2>6. CASE EnterMaintenance(c)
      BY <2>6, <1>2 DEF EnterMaintenance
    <2>7. CASE EnterClose(c)
      BY <2>7, <1>2 DEF EnterClose
    <2>8. CASE Finish(c)
      BY <2>8, <1>3 DEF Finish
    <2>9. CASE ClearOwner(c)
      BY <2>9, <1>2 DEF ClearOwner
    <2>10. CASE ReturnToken(c)
      BY <2>10, <1>2, <1>3 DEF ReturnToken
    <2> QED BY <1>5, <2>1, <2>2, <2>3, <2>4, <2>5, <2>6, <2>7, <2>8, <2>9, <2>10 DEF LockStep
  <1>6. ASSUME NEW c \in Calls, CallbackStep(c) PROVE WaitInv'
    <2>1. ASSUME NEW ex \in BOOLEAN, EndTransaction(c, ex) PROVE WaitInv'
      <3>1. \A d \in Calls : active'[d] => active[d]
        BY <2>1 DEF EndTransaction, TypeOK
      <3> QED BY <2>1, <3>1, <1>2 DEF EndTransaction, InCallback, PCs
    <2> QED BY <1>6, <2>1, <1>3 DEF CallbackStep, CallbackReturns, ExplicitEnd
  <1>7. ASSUME NEW c \in Calls, Expire(c) \/ ContextEnds(c) PROVE WaitInv'
    <2>1. UNCHANGED <<pc, active>>
      BY <1>7 DEF Expire, ContextEnds, lockVars, txVars
    <2>2. \A d \in Calls : /\ call'[d].parent = call[d].parent
                           /\ d # c => call'[d].ctx = call[d].ctx
                           /\ d = c => call'[d].ctx \in Ended
      BY <1>7 DEF Expire, ContextEnds, TypeOK, CallRecords, Ended
    <2> QED BY <1>c, <2>1, <2>2, WaitKept DEF Ended
  <1>8. ASSUME NEW c \in Calls, Environment(c) PROVE WaitInv'
    BY <1>8, <1>1, <1>7, InvokeWaits DEF Environment, InvokeRejected
  <1> QED BY <1>1, <1>5, <1>6, <1>8 DEF Next

\* Calls that block one another do so because a transaction that holds the lock waits
\* in its callback for a call that waits for the lock: the innermost of the calls in
\* progress waits for the channel, and whoever has its token waits for one of its own.
LEMMA BlockedNested ==
    ASSUME WaitInv, AllBlocked
    PROVE  NestedWait
  <1> DEFINE S == {c \in Calls : pc[c] # "idle"}
  <1> TypeOK /\ LockInv /\ NestInv
    BY DEF WaitInv, NestInv, LockInv
  <1>1. PICK e \in S : \A d \in S : call[d].parent # e
    <2>1. S # {} /\ S \in SUBSET S
      BY DEF AllBlocked
    <2> QED BY <2>1 DEF WaitInv, NestingFounded
  <1>2. writeLock = 0
    <2>1. Children(e) = {} /\ Blocked(e)
      BY <1>1 DEF Children, AllBlocked
    <2> QED BY <2>1 DEF Blocked
  <1>3. PICK d \in Calls : Holds(d)
    BY <1>2 DEF LockInv, TokenConserved
  <1>4. pc[d] = "callback" /\ active[d] /\ Children(d) # {}
    <2>1. pc[d] # "idle" /\ pc[d] # "waiting"
      BY <1>3 DEF Holds
    <2>2. pc[d] = "callback" /\ Children(d) # {}
      BY <2>1 DEF AllBlocked, Blocked
    <2> QED BY <1>3, <2>2 DEF Holds
  <1>5. PICK c \in Calls : pc[c] # "idle" /\ call[c].parent = d
    BY <1>4 DEF Children
  <1>6. pc[c] = "waiting"
    BY <1>4, <1>5 DEF WaitInv, ChildrenWait
  <1>7. call[c].ctx = "background"
    <2>1. call[c].ctx \in Contexts /\ call[c].ctx \notin {"nil", "transaction"}
      BY <1>6 DEF TypeOK, CallRecords, WaitInv, WaitsWithContext
    <2>2. call[c].ctx \notin {"timed", "live"} \cup Ended
      BY <1>5, <1>6 DEF AllBlocked, Blocked
    <2> QED BY <2>1, <2>2 DEF Contexts
  <1>8. call[c].kind \notin TxKinds \/ call[c].gid # call[d].gid
    BY <1>4, <1>6 DEF NestInv, NoSelfWait, Runs
  <1> QED BY <1>3, <1>4, <1>5, <1>6, <1>7, <1>8 DEF NestedWait

\* Calls block one another only when the callback of the transaction that holds the lock
\* waits for a call that waits for the lock without a limit: one that is no transaction,
\* or on a goroutine the callback spawned (db.go lock, runTransaction).
THEOREM BlockedOnlyNested == Spec => [](AllBlocked => NestedWait)
  <1>1. Init => WaitInv
    BY InitLockInv DEF Init, WaitInv, NestInv, ParentsInCallback, OneInnermost, Innermost, NoSelfWait,
       ChildrenWait, WaitsWithContext, NestingFounded
  <1>2. WaitInv => (AllBlocked => NestedWait)
    BY BlockedNested
  <1> QED BY <1>1, <1>2, WaitStep, PTL DEF Spec
=============================================================================
