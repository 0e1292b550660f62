---------------------------- MODULE ServerPromise ----------------------------
(***************************************************************************)
(* What the server promises to whoever runs a study, without its ranks,     *)
(* files, bits and states: the messages it has are those collected once;    *)
(* a crash takes it back to what was saved, never further, and what is      *)
(* saved once stays saved; a simulation reported as finished needs no rerun *)
(* unless there is a crash; the study stops when everything is collected.   *)
(* Module ServerRefines shows MelissaServer to keep it.                     *)
(***************************************************************************)
CONSTANTS
    Items,          \* the messages of the study
    Simulations,
    ItemsOf         \* ItemsOf[s], a set of items: what rank 0 is to receive of simulation s

VARIABLES collected, saved, finished, stopped

vars == <<collected, saved, finished, stopped>>

Init ==
    /\ collected = {} /\ saved = {}
    /\ finished = {}
    /\ stopped = FALSE

\* a message, or nothing new; simulations that are complete may be reported
Receive ==
    /\ ~stopped
    /\ collected \subseteq collected'
    /\ \A x, y \in collected' \ collected : x = y
    /\ collected' \subseteq Items
    /\ finished \subseteq finished' /\ finished' \subseteq Simulations
    /\ \A s \in finished' \ finished : ItemsOf[s] \subseteq collected'
    /\ UNCHANGED <<saved, stopped>>

\* a checkpoint, whole or in part
Saves == saved \subseteq saved' /\ saved' \subseteq collected
Save ==
    /\ Saves
    /\ UNCHANGED <<collected, finished, stopped>>

\* between two checkpoints or in the middle of one; then everything is reported anew
Crash ==
    /\ ~stopped
    /\ Saves
    /\ collected' = saved'
    /\ finished' = {}
    /\ UNCHANGED stopped

Stop ==
    /\ ~stopped
    /\ collected = Items
    /\ stopped' = TRUE
    /\ UNCHANGED <<collected, saved, finished>>

Next == Receive \/ Save \/ Crash \/ Stop

Spec == Init /\ [][Next]_vars
=============================================================================
