---------------------------- MODULE ConfigRegister ---------------------------
(* What a configuration file promises the network library: a register whose  *)
(* writes are atomic, also when the process dies in the middle of one, until *)
(* the storage under it fails; and that never forgets what a start loaded.   *)
EXTENDS Naturals

CONSTANT MaxVersion

VARIABLES
    stored,   \* what a start would load, 0 when there is nothing
    pending,  \* the value being written, 0 when there is none
    loaded,   \* what the last start loaded
    up,       \* is the process running
    faulty    \* has the storage failed

vars == <<stored, pending, loaded, up, faulty>>

Init == stored = 0 /\ pending = 0 /\ loaded = 0 /\ up = TRUE /\ faulty = FALSE

BeginWrite ==
    /\ up /\ pending = 0
    /\ pending' \in (stored + 1)..MaxVersion
    /\ UNCHANGED <<stored, loaded, up, faulty>>

(* The write takes effect, once.                                             *)
TakeEffect ==
    /\ up /\ pending > stored
    /\ stored' = pending
    /\ UNCHANGED <<pending, loaded, up, faulty>>

EndWrite ==
    /\ up /\ pending > 0
    /\ stored' = pending /\ pending' = 0
    /\ UNCHANGED <<loaded, up, faulty>>

(* A crash either loses the pending write or keeps all of it.                *)
Crash ==
    /\ up
    /\ stored' \in {stored} \cup ({pending} \ {0})
    /\ pending' = 0 /\ up' = FALSE
    /\ UNCHANGED <<loaded, faulty>>

Start ==
    /\ ~up
    /\ up' = TRUE /\ loaded' = stored
    /\ UNCHANGED <<stored, pending, faulty>>

(* After a failure of the storage writes may be lost, and a start may load   *)
(* nothing, but what a start has loaded is kept.                             *)
Fault ==
    /\ faulty'
    /\ loaded' \in {0, loaded, stored}
    /\ stored' \in loaded'..MaxVersion
    /\ pending' \in 0..MaxVersion
    /\ up' \in BOOLEAN

Next == BeginWrite \/ TakeEffect \/ EndWrite \/ Crash \/ Start \/ Fault

Spec == Init /\ [][Next]_vars
=============================================================================
