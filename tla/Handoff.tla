------------------------------ MODULE Handoff -------------------------------
(***************************************************************************)
(* Hinted handoff (internal/replication/handoff.go): the store of hints    *)
(* for nodes that could not be reached, and the manager whose loop         *)
(* delivers them.                                                          *)
(*                                                                         *)
(* The list of a target is the set of its hints: ids are given in the      *)
(* order of Store, so they are the order of the list and of the creation   *)
(* times.  An empty list is one the map does not have.                     *)
(*                                                                         *)
(* Every method holds the lock of the store; the delivery pass works on a  *)
(* copy of a list, so Store, cleanup and changes of the coordinator's node *)
(* table come in between any two of its steps.                             *)
(***************************************************************************)
EXTENDS Naturals, FiniteSets

CONSTANTS
    Targets,
    Keys,
    MaxSize,        \* hints per target
    MaxAttempts,    \* a hint tried more often is given up (10 in the code)
    MaxStores       \* bound: calls of Store

ASSUME HandoffConstants ==
    /\ Targets # {}
    /\ MaxSize \in Nat \ {0}
    /\ MaxAttempts \in Nat
    /\ MaxStores \in Nat

VARIABLES
    hints,          \* hints[t]: the hints for t
    stored,         \* the id of the last hint
    registered,     \* the coordinator's nodes: all are in state alive
    running,        \* stopCh is open
    pass,           \* the delivery loop
    acked,          \* history: acked[t][k], the last hint t acknowledged
    failures        \* history: failed deliveries of k to t since its hints were last
                    \* removed, counted up to one more than is needed to give up

vars == <<hints, stored, registered, running, pass, acked, failures>>

-----------------------------------------------------------------------------
Hint == [key : Keys, id : Nat, attempts : Nat]

\* The hint an ordered set of hints starts with.
First(s) == CHOOSE h \in s : \A g \in s : h.id <= g.id

OfKey(s, k) == {h \in s : h.key = k}

Idle == [pc |-> "idle", targets |-> {}, target |-> CHOOSE t \in Targets : TRUE, todo |-> {}]

TypeOK ==
    /\ hints \in [Targets -> SUBSET Hint]
    /\ \A t \in Targets : Cardinality(hints[t]) <= MaxSize
    /\ stored \in 0..MaxStores
    /\ registered \subseteq Targets
    /\ running \in BOOLEAN
    /\ pass \in [pc : {"idle", "next", "hints", "send", "remove", "increment", "check", "ended"},
                 targets : SUBSET Targets, target : Targets, todo : SUBSET Hint]
    /\ acked \in [Targets -> [Keys -> Nat]]
    /\ failures \in [Targets -> [Keys -> Nat]]

Init ==
    /\ hints = [t \in Targets |-> {}]
    /\ stored = 0
    /\ registered = {}
    /\ running = TRUE
    /\ pass = Idle
    /\ acked = [t \in Targets |-> [k \in Keys |-> 0]]
    /\ failures = [t \in Targets |-> [k \in Keys |-> 0]]

-----------------------------------------------------------------------------
(***************************************************************************)
(* The store.                                                              *)
(***************************************************************************)

\* Mutant: the limit is looked at after the hint was added.
StoreUnlimited(t, k) ==
    /\ stored < MaxStores
    /\ stored' = stored + 1
    /\ LET kept == IF Cardinality(hints[t]) > MaxSize THEN hints[t] \ {First(hints[t])}
                   ELSE hints[t]
       IN  hints' = [hints EXCEPT ![t] = kept \cup {[key |-> k, id |-> stored + 1, attempts |-> 0]}]
    /\ UNCHANGED <<registered, running, pass, acked, failures>>

\* Store: at the limit the oldest hint makes room.
Store(t, k) ==
    /\ stored < MaxStores
    /\ stored' = stored + 1
    /\ LET kept == IF Cardinality(hints[t]) >= MaxSize THEN hints[t] \ {First(hints[t])}
                   ELSE hints[t]
       IN  hints' = [hints EXCEPT ![t] = kept \cup {[key |-> k, id |-> stored + 1, attempts |-> 0]}]
    /\ UNCHANGED <<registered, running, pass, acked, failures>>

\* Mutant: only the hint that was delivered is removed.
WithoutDelivered(s, h) == {g \in s : g.id # h.id}

\* RemoveHint: all hints for the key of h are removed.
RemoveHint(s, h) == {g \in s : g.key # h.key}

\* Mutant: the first hint is counted up, whatever its key.
IncrementFirst(s, k) ==
    IF s = {} THEN s
    ELSE (s \ {First(s)}) \cup {[First(s) EXCEPT !.attempts = @ + 1]}

\* Mutant: nothing is counted.
IncrementNothing(s, k) == s

\* IncrementAttempts: the first hint for the key is counted up.
IncrementAttempts(s, k) ==
    IF OfKey(s, k) = {} THEN s
    ELSE LET h == First(OfKey(s, k)) IN (s \ {h}) \cup {[h EXCEPT !.attempts = @ + 1]}

\* cleanup: the hints up to some id are older than maxAge.
Cleanup(id) ==
    /\ hints' = [t \in Targets |-> {h \in hints[t] : h.id > id}]
    /\ UNCHANGED <<stored, registered, running, pass, acked, failures>>

-----------------------------------------------------------------------------
(***************************************************************************)
(* The delivery loop.                                                      *)
(***************************************************************************)

GetAllTargets == {t \in Targets : hints[t] # {}}

\* A tick of the loop.
StartPass ==
    /\ pass.pc = "idle"
    /\ GetAllTargets # {}
    /\ pass' = [pass EXCEPT !.pc = "next", !.targets = GetAllTargets]
    /\ UNCHANGED <<hints, stored, registered, running, acked, failures>>

\* Mutant: a target that is not alive is looked at again at once.
CheckAliveAgain(t) ==
    /\ pass.pc = "next"
    /\ t \in pass.targets
    /\ pass' = IF t \in registered
               THEN [pass EXCEPT !.pc = "hints", !.targets = @ \ {t}, !.target = t]
               ELSE pass
    /\ UNCHANGED <<hints, stored, registered, running, acked, failures>>

\* The next target, in the order of the map: is it one of GetClusterNodes?
CheckAlive(t) ==
    /\ pass.pc = "next"
    /\ t \in pass.targets
    /\ pass' = CASE t \in registered ->
                      [pass EXCEPT !.pc = "hints", !.targets = @ \ {t}, !.target = t]
                 [] t \notin registered /\ pass.targets # {t} ->
                      [pass EXCEPT !.targets = @ \ {t}]
                 [] OTHER -> Idle
    /\ UNCHANGED <<hints, stored, registered, running, acked, failures>>

\* The pass with one hint less to deliver, or with the next target.
Advance(p, left) ==
    CASE left # {} -> [p EXCEPT !.pc = "send", !.todo = left]
      [] left = {} /\ p.targets # {} -> [Idle EXCEPT !.pc = "next", !.targets = p.targets]
      [] OTHER -> Idle

\* GetHints: a copy.
GetHints ==
    /\ pass.pc = "hints"
    /\ pass' = Advance(pass, hints[pass.target])
    /\ UNCHANGED <<hints, stored, registered, running, acked, failures>>

Current == First(pass.todo)

\* sendReplication succeeds: the target answers 200.
SendSucceeds ==
    /\ pass.pc = "send"
    /\ pass.target \in registered
    /\ pass' = [pass EXCEPT !.pc = "remove"]
    /\ acked' = [acked EXCEPT ![pass.target][Current.key] = Current.id]
    /\ UNCHANGED <<hints, stored, registered, running, failures>>

\* sendReplication fails: the node is not registered any more, the request or
\* its answer is lost or too late, or the target answers with an error.
SendFails ==
    /\ pass.pc = "send"
    /\ pass' = [pass EXCEPT !.pc = "increment"]
    /\ failures' = [failures EXCEPT ![pass.target][Current.key] =
                                    IF @ > MaxAttempts + 1 THEN @ ELSE @ + 1]
    /\ UNCHANGED <<hints, stored, registered, running, acked>>

\* The hints for the key are removed, as delivered or as given up.
Remove ==
    /\ hints' = [hints EXCEPT ![pass.target] = RemoveHint(@, Current)]
    /\ failures' = [failures EXCEPT ![pass.target][Current.key] = 0]
    /\ pass' = Advance(pass, pass.todo \ {Current})
    /\ UNCHANGED <<stored, registered, running, acked>>

RemoveDelivered == pass.pc = "remove" /\ Remove

Increment ==
    /\ pass.pc = "increment"
    /\ hints' = [hints EXCEPT ![pass.target] = IncrementAttempts(@, Current.key)]
    /\ pass' = [pass EXCEPT !.pc = "check"]
    /\ UNCHANGED <<stored, registered, running, acked, failures>>

\* hint.Attempts > 10, where hint is that of the copy.
GiveUp ==
    /\ pass.pc = "check"
    /\ Current.attempts > MaxAttempts
    /\ Remove

KeepTrying ==
    /\ pass.pc = "check"
    /\ Current.attempts <= MaxAttempts
    /\ pass' = Advance(pass, pass.todo \ {Current})
    /\ UNCHANGED <<hints, stored, registered, running, acked, failures>>

\* Stop closes stopCh; the loop sees it when it is back in its select.
Stop ==
    /\ running
    /\ running' = FALSE
    /\ UNCHANGED <<hints, stored, registered, pass, acked, failures>>

LoopEnds ==
    /\ pass.pc = "idle" /\ ~running
    /\ pass' = [pass EXCEPT !.pc = "ended"]
    /\ UNCHANGED <<hints, stored, registered, running, acked, failures>>

\* RegisterNode and UnregisterNode of the coordinator.
Membership(t) ==
    /\ registered' \in {registered \cup {t}, registered \ {t}}
    /\ UNCHANGED <<hints, stored, running, pass, acked, failures>>

Deliver ==
    \/ StartPass \/ (\E t \in Targets : CheckAlive(t)) \/ GetHints
    \/ SendSucceeds \/ SendFails \/ RemoveDelivered \/ Increment \/ GiveUp \/ KeepTrying

Next ==
    \/ \E t \in Targets : Membership(t) \/ \E k \in Keys : Store(t, k)
    \/ \E id \in 1..MaxStores : Cleanup(id)
    \/ Deliver \/ Stop \/ LoopEnds

Spec == Init /\ [][Next]_vars

\* The ticker fires and calls of sendReplication end, at the latest by their
\* timeout.  With stopCh closed, select does not choose the ticker for ever.
\* Nothing is assumed of Store, of the targets or of cleanup.
FairSpec == Spec /\ WF_vars(Deliver) /\ SF_vars(LoopEnds)

-----------------------------------------------------------------------------
(***************************************************************************)
(* Properties.                                                             *)
(***************************************************************************)

\* The hints for k the manager may still send to t.
Left(t, k) ==
    OfKey(hints[t] \cup (IF pass.target = t THEN pass.todo ELSE {}), k)

\* What a target acknowledged is never followed by an older hint for the same
\* key: nothing as old is in the list or in the copy the pass goes through.
\* This is why RemoveHint goes by the key and not by the hint.
NeverSentBackwards ==
    \A t \in Targets : \A k \in Keys : \A h \in Left(t, k) :
        \/ h.id > acked[t][k]
        \/ pass.pc = "remove" /\ pass.target = t /\ Current.key = k

\* "Gave up on hint delivery": only after more than MaxAttempts + 1 failures for
\* the key since its hints were last removed, although the attempts are counted
\* on one hint, decided on a copy of it, and counted up for another.
NeverGivenUpEarly ==
    [][GiveUp => failures[pass.target][Current.key] > MaxAttempts + 1]_vars

\* The list of a target that stays registered becomes empty in the end, whether
\* the target answers or not and before anything expires, once there are no new
\* hints.
HintsDrain ==
    \A t \in Targets :
        <>[](running /\ t \in registered) => <>[](hints[t] = {})

\* Stop returns: the pass it waits for ends.
StopReturns == ~running ~> pass.pc = "ended"

=============================================================================
