----------------------------- MODULE DurableMap -----------------------------
(***************************************************************************)
(* What the storage engine promises (internal/storage/engine.go): a map    *)
(* that survives crashes up to a point that Sync moves forward.            *)
(*                                                                         *)
(* Restarting gives the map that the writes in order have built, minus a   *)
(* suffix of them: never a map that existed at no moment, never one from   *)
(* before the last point that was made durable.  A write that returned an  *)
(* error may come back after a restart, as the latest write or not at all. *)
(***************************************************************************)
CONSTANTS Keys, Values, None

VARIABLES
    up,      \* the engine answers
    mem,     \* the map it answers from
    tip,     \* the map a restart gives if nothing more is lost
    cands    \* the maps a restart may give

dvars == <<up, mem, tip, cands>>

Map == [Keys -> Values \cup {None}]

DInit ==
    /\ up = TRUE
    /\ mem = [k \in Keys |-> None]
    /\ tip = mem
    /\ cands = {mem}

\* Put (v a value) or Delete (v = None) returns success.  The write may or
\* may not be durable, and so may the ones before it.
Write(k, v) ==
    /\ up
    /\ mem' = [mem EXCEPT ![k] = v]
    /\ tip' = [tip EXCEPT ![k] = v]
    /\ tip' \in cands'
    /\ cands' \subseteq cands \cup {tip'}
    /\ UNCHANGED up

\* Put or Delete returns an error, having reached the file or not.
WriteError(k, v) ==
    /\ up
    /\ tip' \in {tip, [tip EXCEPT ![k] = v]}
    /\ tip' \in cands'
    /\ cands' \subseteq cands \cup {tip'}
    /\ UNCHANGED <<up, mem>>

\* Sync, or any flush: fewer maps are left to restart with.
Settle ==
    /\ tip \in cands'
    /\ cands' \subseteq cands
    /\ UNCHANGED <<up, mem, tip>>

\* Compact: the answers do not change, and they become durable.
Checkpoint ==
    /\ up
    /\ tip' = mem
    /\ cands' = {mem}
    /\ UNCHANGED <<up, mem>>

\* Close, a killed process, a machine that stops (also while it is down).
Stop ==
    /\ up' = FALSE
    /\ tip' \in cands'
    /\ cands' \subseteq cands
    /\ UNCHANGED mem

Restart ==
    /\ ~up
    /\ up' = TRUE
    /\ mem' = tip
    /\ UNCHANGED <<tip, cands>>

DNext ==
    \/ \E k \in Keys, v \in Values \cup {None} : Write(k, v) \/ WriteError(k, v)
    \/ Settle
    \/ Checkpoint
    \/ Stop
    \/ Restart

DSpec == DInit /\ [][DNext]_dvars

=============================================================================
