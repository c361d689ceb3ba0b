---------------------------- MODULE AbstractLock ----------------------------
(***************************************************************************)
(* What a sleep lock promises its users: at any time either nobody holds   *)
(* it, or one LWP holds it for writing, or some LWPs hold it for reading;  *)
(* an LWP starts to hold it only when it can, keeps it until it gives it   *)
(* up itself, and may hand it to readers in the step in which it lets go.  *)
(* How LWPs wait, and who is next, is left to the implementation.          *)
(***************************************************************************)
CONSTANT LWP

VARIABLES
    readers,   \* the LWPs that hold the lock for reading
    writers    \* the LWPs that hold it for writing

vars == <<readers, writers>>

Init == readers = {} /\ writers = {}

EnterRead(l) ==
    /\ writers = {}
    /\ l \notin readers
    /\ readers' = readers \cup {l}
    /\ UNCHANGED writers

EnterWrite(l) ==
    /\ readers = {} /\ writers = {}
    /\ writers' = {l}
    /\ UNCHANGED readers

\* A reader leaves; if it is the last one, it may hand the lock to S.
ExitRead(l, S) ==
    /\ l \in readers
    /\ S = {} \/ readers = {l}
    /\ readers' = (readers \ {l}) \cup S
    /\ UNCHANGED writers

\* The writer leaves and may hand the lock to the readers in S.
ExitWrite(l, S) ==
    /\ writers = {l}
    /\ writers' = {}
    /\ readers' = S

\* The writer becomes a reader, and S with it.
Downgrade(l, S) ==
    /\ writers = {l}
    /\ writers' = {}
    /\ readers' = {l} \cup S

\* The only reader becomes the writer.
Upgrade(l) ==
    /\ readers = {l}
    /\ readers' = {}
    /\ writers' = {l}

Next ==
    \E l \in LWP :
        \/ EnterRead(l) \/ EnterWrite(l) \/ Upgrade(l)
        \/ \E S \in SUBSET (LWP \ {l}) :
              ExitRead(l, S) \/ ExitWrite(l, S) \/ Downgrade(l, S)

Spec == Init /\ [][Next]_vars
=============================================================================
