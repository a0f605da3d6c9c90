------------------------------- MODULE Gossip -------------------------------
(***************************************************************************)
(* Membership, failure detection and gossip                                *)
(* (internal/gossip, and onStateChange of cmd/dynamo/main.go).             *)
(*                                                                         *)
(* A running node has a membership list and two goroutines that work on it *)
(* at the same time: the detection loop, which looks at a copy of the list *)
(* whose Node pointers are those of the list itself, and the receive loop, *)
(* which handles one datagram after the other.  The list is locked for     *)
(* each of its own methods only, so every access is a step here.           *)
(*                                                                         *)
(* Time.  LastHeartbeat is kept as its age, which Tick advances everywhere *)
(* at once, in datagrams too.  Ages stop at Cap, past both timeouts: older *)
(* ones differ in nothing the code can see.  Clocks are synchronised.      *)
(*                                                                         *)
(* Datagrams are lost, duplicated and overtaken; a process may be killed   *)
(* at any point and started again, with an empty list.                     *)
(***************************************************************************)
EXTENDS Integers

CONSTANTS
    Nodes,            \* the nodes of the cluster
    Seeds,            \* Seeds[n]: the nodes whose addresses n is given
    SuspectTimeout,
    DeadTimeout,
    Stable,           \* the nodes that are never killed
    Prompt            \* a pass and a handler take less than a unit of time

ASSUME GossipConstants ==
    /\ Seeds \in [Nodes -> SUBSET Nodes]
    /\ SuspectTimeout \in Nat
    /\ DeadTimeout \in Nat
    /\ Stable \subseteq Nodes
    /\ Prompt \in BOOLEAN

VARIABLES
    up,         \* up[n]: the process of n runs
    peers,      \* peers[n]: the nodes it gossips to
    members,    \* members[n][m]: state and age of the last heartbeat of m
    ring,       \* ring[n]: the physical nodes on its hash ring
    removed,    \* history: the nodes onStateChange took off and did not put back
    ticked,     \* ticked[n]: its detection loop has a tick to act on
    det,        \* det[n]: the detection loop
    rcv,        \* rcv[n]: the receive loop
    net         \* datagrams in flight

vars == <<up, peers, members, ring, removed, ticked, det, rcv, net>>

-----------------------------------------------------------------------------
Cap == 1 + (IF SuspectTimeout > DeadTimeout THEN SuspectTimeout ELSE DeadTimeout)

Ages == 0..Cap

States == {"alive", "suspect", "dead"}

Member == [state : States, age : Ages]

\* A node that is not in the list.
Unknown == [state |-> "unknown", age |-> 0]

Lists == [Nodes -> Member \cup {Unknown}]

Datagrams == [from : Nodes, to : Nodes, members : Lists]

Known(list) == {m \in Nodes : list[m].state # "unknown"}

Sleeping == [pc |-> "idle", todo |-> {}, elapsed |-> [m \in Nodes |-> 0],
             cur |-> CHOOSE m \in Nodes : TRUE, old |-> "alive", new |-> "alive"]

Listening == [pc |-> "idle", from |-> CHOOSE m \in Nodes : TRUE, old |-> "alive",
              members |-> [m \in Nodes |-> Unknown]]

TypeOK ==
    /\ up \in [Nodes -> BOOLEAN]
    /\ peers \in [Nodes -> SUBSET Nodes]
    /\ members \in [Nodes -> Lists]
    /\ ring \in [Nodes -> SUBSET Nodes]
    /\ removed \in [Nodes -> SUBSET Nodes]
    /\ ticked \in [Nodes -> BOOLEAN]
    /\ det \in [Nodes ->
         [pc : {"idle", "pick", "switch", "set", "compare", "notify", "call"},
          todo : SUBSET Nodes, elapsed : [Nodes -> Ages], cur : Nodes,
          old : States, new : States]]
    /\ rcv \in [Nodes ->
         [pc : {"idle", "record", "revive", "reset", "again", "call", "merge"},
          from : Nodes, old : States, members : Lists]]
    /\ net \subseteq Datagrams

Init ==
    /\ up = [n \in Nodes |-> FALSE]
    /\ peers = [n \in Nodes |-> {}]
    /\ members = [n \in Nodes |-> [m \in Nodes |-> Unknown]]
    /\ ring = [n \in Nodes |-> {}]
    /\ removed = [n \in Nodes |-> {}]
    /\ ticked = [n \in Nodes |-> FALSE]
    /\ det = [n \in Nodes |-> Sleeping]
    /\ rcv = [n \in Nodes |-> Listening]
    /\ net = {}

-----------------------------------------------------------------------------
(***************************************************************************)
(* The membership list.  Each of its methods holds the list's lock.        *)
(***************************************************************************)

\* UpdateState
UpdateState(n, m, s) ==
    members' = [members EXCEPT ![n][m] =
                   [state |-> s, age |-> IF s = "alive" THEN 0 ELSE @.age]]

\* MembershipList.RecordHeartbeat
RecordHeartbeat(n, m) == members' = [members EXCEPT ![n][m] = [state |-> "alive", age |-> 0]]

\* Mutant: the heartbeat time of the datagram is taken, whether newer or not.
MergedAlways(n, list, other) ==
    [m \in Nodes |->
        IF m = n \/ other[m] = Unknown THEN list[m]
        ELSE IF list[m] = Unknown THEN other[m]
        ELSE [list[m] EXCEPT !.age = other[m].age]]

\* Merge: unknown nodes are taken over as they are; of the others only a newer
\* heartbeat is, not the state.
Merged(n, list, other) ==
    [m \in Nodes |->
        IF m = n \/ other[m] = Unknown THEN list[m]
        ELSE IF list[m] = Unknown THEN other[m]
        ELSE [list[m] EXCEPT !.age = IF other[m].age < @ THEN other[m].age ELSE @]]

\* Mutant: dead nodes stay on the ring.
OnStateChangeKeepsDead(n, m, old, new) ==
    /\ ring' = IF new = "alive" /\ old = "dead" THEN [ring EXCEPT ![n] = @ \cup {m}] ELSE ring
    /\ removed' = IF new = "alive" /\ old = "dead" THEN [removed EXCEPT ![n] = @ \ {m}] ELSE removed

\* onStateChange of main.go.
OnStateChange(n, m, old, new) ==
    IF new = "dead"
    THEN /\ ring' = [ring EXCEPT ![n] = @ \ {m}]
         /\ removed' = [removed EXCEPT ![n] = @ \cup {m}]
    ELSE IF new = "alive" /\ old = "dead"
    THEN /\ ring' = [ring EXCEPT ![n] = @ \cup {m}]
         /\ removed' = [removed EXCEPT ![n] = @ \ {m}]
    ELSE UNCHANGED <<ring, removed>>

-----------------------------------------------------------------------------
(***************************************************************************)
(* The detection loop: checkMembers on every tick of its ticker.           *)
(***************************************************************************)

\* Mutant: the node itself is not skipped.
SnapshotWithSelf(n) == Known(members[n])

\* The members checkMembers goes through: all but the node itself.
Snapshot(n) == Known(members[n]) \ {n}

\* GetAllMembers and time.Now(): the heartbeat times are copied.
CheckMembers(n) ==
    /\ up[n]
    /\ det[n].pc = "idle"
    /\ ticked[n]
    /\ ticked' = [ticked EXCEPT ![n] = FALSE]
    /\ det' = IF Snapshot(n) = {} THEN det
              ELSE [det EXCEPT ![n].pc = "pick", ![n].todo = Snapshot(n),
                               ![n].elapsed = [m \in Nodes |-> IF m \in Snapshot(n)
                                                                THEN members[n][m].age ELSE 0]]
    /\ UNCHANGED <<up, peers, members, ring, removed, rcv, net>>

\* oldState := member.Node.State, read through the shared pointer.
ReadOldState(n, m) ==
    /\ det[n].pc = "pick"
    /\ m \in det[n].todo
    /\ det' = [det EXCEPT ![n].pc = "switch", ![n].cur = m, ![n].old = members[n][m].state]
    /\ UNCHANGED <<up, peers, members, ring, removed, ticked, rcv, net>>

\* Mutant: a suspect that has been silent long enough is only suspected again.
SwitchNeverDead(n) ==
    /\ det[n].pc = "switch"
    /\ det' = IF det[n].elapsed[det[n].cur] > SuspectTimeout
              THEN [det EXCEPT ![n].pc = "set", ![n].new = "suspect"]
              ELSE [det EXCEPT ![n].pc = "compare"]
    /\ UNCHANGED <<up, peers, members, ring, removed, ticked, rcv, net>>

\* switch member.Node.State, read once more.
Switch(n) ==
    /\ det[n].pc = "switch"
    /\ LET s == members[n][det[n].cur].state
           elapsed == det[n].elapsed[det[n].cur]
       IN  det' = CASE s = "alive" /\ elapsed > SuspectTimeout ->
                         [det EXCEPT ![n].pc = "set", ![n].new = "suspect"]
                    [] s = "suspect" /\ elapsed > DeadTimeout ->
                         [det EXCEPT ![n].pc = "set", ![n].new = "dead"]
                    [] OTHER -> [det EXCEPT ![n].pc = "compare"]
    /\ UNCHANGED <<up, peers, members, ring, removed, ticked, rcv, net>>

\* transitionTo, whatever the state has become.
TransitionTo(n) ==
    /\ det[n].pc = "set"
    /\ UpdateState(n, det[n].cur, det[n].new)
    /\ det' = [det EXCEPT ![n].pc = "compare"]
    /\ UNCHANGED <<up, peers, ring, removed, ticked, rcv, net>>

\* The loop goes on to the next member, or ends.
NextMember(n) ==
    IF det[n].todo = {det[n].cur} THEN Sleeping
    ELSE [Sleeping EXCEPT !.pc = "pick", !.todo = det[n].todo \ {det[n].cur},
                          !.elapsed = [det[n].elapsed EXCEPT ![det[n].cur] = 0]]

\* if oldState != member.Node.State
Compare(n) ==
    /\ det[n].pc = "compare"
    /\ det' = IF det[n].old # members[n][det[n].cur].state
              THEN [det EXCEPT ![n].pc = "notify"]
              ELSE [det EXCEPT ![n] = NextMember(n)]
    /\ UNCHANGED <<up, peers, members, ring, removed, ticked, rcv, net>>

\* The arguments of the callback are read ...
Notify(n) ==
    /\ det[n].pc = "notify"
    /\ det' = [det EXCEPT ![n].pc = "call", ![n].new = members[n][det[n].cur].state]
    /\ UNCHANGED <<up, peers, members, ring, removed, ticked, rcv, net>>

\* ... and the callback runs.
Callback(n) ==
    /\ det[n].pc = "call"
    /\ OnStateChange(n, det[n].cur, det[n].old, det[n].new)
    /\ det' = [det EXCEPT ![n] = NextMember(n)]
    /\ UNCHANGED <<up, peers, members, ticked, rcv, net>>

DetectorStep(n) ==
    \/ \E m \in Nodes : ReadOldState(n, m)
    \/ Switch(n) \/ TransitionTo(n) \/ Compare(n) \/ Notify(n) \/ Callback(n)

-----------------------------------------------------------------------------
(***************************************************************************)
(* The receive loop: handleMessage.                                        *)
(***************************************************************************)

\* Mutant: the sender is not looked for in the list first.
ReceiveUnchecked(n, d) ==
    /\ up[n]
    /\ rcv[n].pc = "idle"
    /\ d \in net /\ d.to = n
    /\ net' \in {net, net \ {d}}
    /\ rcv' = [rcv EXCEPT ![n] = [pc |-> "record", from |-> d.from,
                                  old |-> members[n][d.from].state, members |-> d.members]]
    /\ UNCHANGED <<up, peers, members, ring, removed, ticked, det>>

\* A datagram is read.  FailureDetector.RecordHeartbeat reads the sender's
\* state; a sender that is not in the list gets no heartbeat.
Receive(n, d) ==
    /\ up[n]
    /\ rcv[n].pc = "idle"
    /\ d \in net /\ d.to = n
    /\ net' \in {net, net \ {d}}
    /\ rcv' = [rcv EXCEPT ![n] =
                  [pc |-> IF members[n][d.from] = Unknown THEN "merge" ELSE "record",
                   from |-> d.from,
                   old |-> IF members[n][d.from] = Unknown THEN "alive"
                           ELSE members[n][d.from].state,
                   members |-> d.members]]
    /\ UNCHANGED <<up, peers, members, ring, removed, ticked, det>>

\* Mutant: dead nodes stay dead until explicitly revived.
RecordIgnoresDead(n) ==
    /\ rcv[n].pc = "record"
    /\ IF rcv[n].old = "dead" THEN UNCHANGED members ELSE RecordHeartbeat(n, rcv[n].from)
    /\ rcv' = [rcv EXCEPT ![n].pc = "merge"]
    /\ UNCHANGED <<up, peers, ring, removed, ticked, det, net>>

\* The heartbeat is recorded in the list, which makes the sender alive; Revive
\* is called if it was not.
Record(n) ==
    /\ rcv[n].pc = "record"
    /\ RecordHeartbeat(n, rcv[n].from)
    /\ rcv' = [rcv EXCEPT ![n].pc = IF rcv[n].old # "alive" THEN "revive" ELSE "merge"]
    /\ UNCHANGED <<up, peers, ring, removed, ticked, det, net>>

\* Revive reads the state again and returns if it is alive.
ReviveReads(n) ==
    /\ rcv[n].pc = "revive"
    /\ LET s == members[n][rcv[n].from].state
       IN  rcv' = [rcv EXCEPT ![n].pc = IF s = "alive" THEN "merge" ELSE "reset",
                              ![n].old = s]
    /\ UNCHANGED <<up, peers, members, ring, removed, ticked, det, net>>

\* It sets the state ...
ReviveSets(n) ==
    /\ rcv[n].pc = "reset"
    /\ UpdateState(n, rcv[n].from, "alive")
    /\ rcv' = [rcv EXCEPT ![n].pc = "again"]
    /\ UNCHANGED <<up, peers, ring, removed, ticked, det, net>>

\* ... records the heartbeat once more, over what the detector did in between ...
ReviveRecords(n) ==
    /\ rcv[n].pc = "again"
    /\ RecordHeartbeat(n, rcv[n].from)
    /\ rcv' = [rcv EXCEPT ![n].pc = "call"]
    /\ UNCHANGED <<up, peers, ring, removed, ticked, det, net>>

\* ... and calls back.
ReviveCallback(n) ==
    /\ rcv[n].pc = "call"
    /\ OnStateChange(n, rcv[n].from, rcv[n].old, "alive")
    /\ rcv' = [rcv EXCEPT ![n].pc = "merge"]
    /\ UNCHANGED <<up, peers, members, ticked, det, net>>

Merge(n) ==
    /\ rcv[n].pc = "merge"
    /\ members' = [members EXCEPT ![n] = Merged(n, @, rcv[n].members)]
    /\ rcv' = [rcv EXCEPT ![n] = Listening]
    /\ UNCHANGED <<up, peers, ring, removed, ticked, det, net>>

ReceiverStep(n) ==
    \/ Record(n) \/ ReviveReads(n) \/ ReviveSets(n) \/ ReviveRecords(n) \/ ReviveCallback(n)
    \/ Merge(n)

-----------------------------------------------------------------------------
(***************************************************************************)
(* The gossip loop, the network, the processes and time.                   *)
(***************************************************************************)

\* gossipToRandomPeer, with ToGossipFormat.  One datagram of a pair is in
\* flight at a time.
GossipTo(n, p) ==
    /\ up[n]
    /\ p \in peers[n]
    /\ \A d \in net : ~(d.from = n /\ d.to = p)
    /\ net' = net \cup {[from |-> n, to |-> p, members |-> members[n]]}
    /\ UNCHANGED <<up, peers, members, ring, removed, ticked, det, rcv>>

\* UDP drops the datagrams from n to p.
Lose(n, p) ==
    /\ \E d \in net : d.from = n /\ d.to = p
    /\ net' = {d \in net : ~(d.from = n /\ d.to = p)}
    /\ UNCHANGED <<up, peers, members, ring, removed, ticked, det, rcv>>

\* main.go: the list and the ring start with the node itself.  Addresses that
\* cannot be resolved yet are left out for good (the error is not looked at).
Start(n) ==
    /\ ~up[n]
    /\ up' = [up EXCEPT ![n] = TRUE]
    /\ \E p \in SUBSET Seeds[n] : peers' = [peers EXCEPT ![n] = p]
    /\ members' = [members EXCEPT ![n][n] = [state |-> "alive", age |-> 0]]
    /\ ring' = [ring EXCEPT ![n] = {n}]
    /\ UNCHANGED <<removed, ticked, det, rcv, net>>

\* The process ends, by a signal or in the middle of anything.
Crash(n) ==
    /\ up[n] /\ n \notin Stable
    /\ up' = [up EXCEPT ![n] = FALSE]
    /\ peers' = [peers EXCEPT ![n] = {}]
    /\ members' = [members EXCEPT ![n] = [m \in Nodes |-> Unknown]]
    /\ ring' = [ring EXCEPT ![n] = {}]
    /\ removed' = [removed EXCEPT ![n] = {}]
    /\ ticked' = [ticked EXCEPT ![n] = FALSE]
    /\ det' = [det EXCEPT ![n] = Sleeping]
    /\ rcv' = [rcv EXCEPT ![n] = Listening]
    /\ UNCHANGED net

Aged(list) ==
    [m \in Nodes |-> IF list[m] = Unknown THEN Unknown
                     ELSE [list[m] EXCEPT !.age = IF @ < Cap THEN @ + 1 ELSE @]]

AtRest(n) == det[n].pc = "idle" /\ rcv[n].pc = "idle"

Tick ==
    /\ Prompt => \A n \in Nodes : AtRest(n)
    /\ members' = [n \in Nodes |-> Aged(members[n])]
    /\ rcv' = [n \in Nodes |-> [rcv[n] EXCEPT !.members = Aged(@)]]
    /\ net' = {[d EXCEPT !.members = Aged(@)] : d \in net}
    /\ ticked' = [n \in Nodes |-> up[n]]
    /\ UNCHANGED <<up, peers, ring, removed, det>>

Next ==
    \/ \E n \in Nodes : \/ CheckMembers(n) \/ DetectorStep(n) \/ ReceiverStep(n)
                        \/ Start(n) \/ Crash(n)
    \/ \E n \in Nodes : \E d \in net : Receive(n, d)
    \/ \E n, p \in Nodes : GossipTo(n, p) \/ Lose(n, p)
    \/ Tick

Spec == Init /\ [][Next]_vars

\* Goroutines are scheduled and tickers fire; the random choice reaches every
\* peer again and again; a datagram does not travel for ever, and one of those
\* that are sent again and again arrives.
FairSpec ==
    /\ Spec
    /\ SF_vars(Tick)
    /\ \A n \in Nodes :
         /\ WF_vars(CheckMembers(n) \/ DetectorStep(n))
         /\ WF_vars(ReceiverStep(n))
    /\ \A n, p \in Nodes :
         /\ WF_vars(GossipTo(n, p))
         /\ WF_vars(Lose(n, p))
         /\ SF_vars(\E d \in net : d.from = p /\ Receive(n, d))

-----------------------------------------------------------------------------
(***************************************************************************)
(* Properties.                                                             *)
(***************************************************************************)

\* A node never takes itself for failed and never leaves its own ring, although
\* nothing refreshes its own heartbeat and others may gossip that it is dead.
\* (detector.go skips selfID, and so does Merge.)  The coordinator relies on it.
SelfServes == \A n \in Nodes : up[n] => n \in ring[n] /\ members[n][n].state = "alive"

\* A node the list shows as dead is not on the ring once both goroutines are
\* at rest, whatever heartbeats crossed the pass that declared it dead.
DeadOffRing ==
    \A n, m \in Nodes : AtRest(n) /\ members[n][m].state = "dead" => m \notin ring[n]

\* Duplicated, delayed and reordered datagrams never turn a heartbeat time
\* back, and no member is forgotten while the process runs: only time makes
\* the last heartbeat older.
HeartbeatsAdvance ==
    [][~Tick => \A n, m \in Nodes :
          (up[n] /\ up'[n] /\ members[n][m] # Unknown)
              => members'[n][m] # Unknown /\ members'[n][m].age <= members[n][m].age]_vars

\* The README takes SUSPECT to DEAD by a timeout.  A node that stays down is in the
\* end dead, for good, in the list of every node that runs and knows it,
\* however long its datagrams and news of it keep coming.
CrashDetected ==
    \A n \in Nodes : \A m \in Nodes \ {n} :
        <>[](up[n] /\ ~up[m]) => <>[](members[n][m].state \in {"dead", "unknown"})

\* The README takes DEAD to ALIVE by a heartbeat.  Between two nodes that stay
\* up, a false suspicion or death does not last: the one that is gossiped to
\* finds the other alive again and again.
FalseDeathHeals ==
    \A n \in Nodes : \A m \in Nodes \ {n} :
        <>[](up[n] /\ up[m] /\ n \in peers[m]) => []<>(members[n][m].state = "alive")

\* detector.go: "If node was suspect or dead, revive it", where Revive reports
\* the node to onStateChange, which puts it back on the ring.  A node that is
\* alive again is not off the ring because of its earlier death.
RevivedOnRing ==
    \A n, m \in Nodes : AtRest(n) /\ members[n][m].state = "alive" => m \notin removed[n]

=============================================================================
