----------------------------- MODULE RunLedger -----------------------------
(***************************************************************************)
(* What the ledger of a deep report promises, with no handler in sight.    *)
(*                                                                         *)
(* A run is worked on by one worker at a time, however many requests there *)
(* are.  The worker records the result of each section once; a later       *)
(* worker starts from the results recorded so far and never records one    *)
(* of them again.  A completed run changes only when a fresh one begins.   *)
(***************************************************************************)
CONSTANT Sections

VARIABLES
    state,      \* "none", "open" or "done"
    results,    \* the sections whose result is recorded
    busy        \* whether a worker is on the run

vars == <<state, results, busy>>

Init ==
    /\ state = "none"
    /\ results = {}
    /\ busy = FALSE

\* A fresh run replaces whatever there was; its worker may be lost at once.
Begin ==
    /\ ~busy
    /\ state' = "open"
    /\ results' = {}
    /\ busy' \in BOOLEAN

TakeOver ==
    /\ ~busy
    /\ state = "open"
    /\ busy' = TRUE
    /\ UNCHANGED <<state, results>>

Record(i) ==
    /\ busy
    /\ state = "open"
    /\ i \notin results
    /\ results' = results \union {i}
    /\ UNCHANGED <<state, busy>>

Complete ==
    /\ busy
    /\ state = "open"
    /\ state' = "done"
    /\ UNCHANGED <<results, busy>>

Leave ==
    /\ busy
    /\ busy' = FALSE
    /\ UNCHANGED <<state, results>>

Next ==
    \/ Begin \/ TakeOver \/ Complete \/ Leave
    \/ \E i \in Sections : Record(i)

Spec == Init /\ [][Next]_vars
============================================================================
