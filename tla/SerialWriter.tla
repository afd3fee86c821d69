---------------------------- MODULE SerialWriter ----------------------------
(***************************************************************************)
(* What the writer lock promises to the rest of MasterKeeper: at any time  *)
(* at most one call owns the right to write, only the owner runs a         *)
(* transaction, ownership never passes from one call to another without    *)
(* being given back, and once the database is closed nothing runs again.   *)
(* WriterLock is shown to implement this specification.                    *)
(***************************************************************************)
CONSTANTS Calls,    \* the API calls that need the right to write
          NoCall    \* "no call"

VARIABLES owner,    \* the call that owns the right to write, or NoCall
          running,  \* the call whose transaction is open, or NoCall
          closed    \* the database has been closed

vars == <<owner, running, closed>>

Init ==
    /\ owner = NoCall
    /\ running = NoCall
    /\ closed = FALSE

Take(c) ==
    /\ owner = NoCall
    /\ owner' = c
    /\ UNCHANGED <<running, closed>>

Run(c) ==
    /\ owner = c
    /\ running = NoCall
    /\ ~closed
    /\ running' = c
    /\ UNCHANGED <<owner, closed>>

Stop(c) ==
    /\ running = c
    /\ running' = NoCall
    /\ UNCHANGED <<owner, closed>>

Shut(c) ==
    /\ owner = c
    /\ running = NoCall
    /\ closed' = TRUE
    /\ UNCHANGED <<owner, running>>

Give(c) ==
    /\ owner = c
    /\ running = NoCall
    /\ owner' = NoCall
    /\ UNCHANGED <<running, closed>>

Next == \E c \in Calls : Take(c) \/ Run(c) \/ Stop(c) \/ Shut(c) \/ Give(c)

Spec == Init /\ [][Next]_vars
=============================================================================
