---------------------------- MODULE Coordinator ----------------------------
(***************************************************************************)
(* Replicated reads and writes of one key                                  *)
(* (internal/replication/coordinator.go, internal/api/handlers.go).        *)
(*                                                                         *)
(* Any node coordinates a request.  Put sends the entry to the preference  *)
(* list, waits for every call to return and counts the acknowledgements;   *)
(* Get collects the entries the replicas hold, answers with the one of the *)
(* highest timestamp and, after the answer, writes it back to the whole    *)
(* list; the DELETE handler marks the local replica only.                  *)
(*                                                                         *)
(* Replicas store what arrives in the order it arrives.  A call that timed *)
(* out may still arrive later.  The coordinator looks at its calls only    *)
(* after all of them returned, so a slow response is a late Finish and a   *)
(* lost one is a Timeout just before Deliver.                              *)
(*                                                                         *)
(* Different puts write different values: an entry names the operation     *)
(* that wrote it.                                                          *)
(***************************************************************************)
EXTENDS Integers, FiniteSets

CONSTANTS
    Nodes,         \* cluster nodes, each a coordinator and a replica
    Contacts,      \* the nodes clients send their requests to
    Peers,         \* Peers[c]: the nodes registered with c beside itself
    Rank,          \* the order in which the ring meets the nodes from the key
    Puts, Gets, Deletes,   \* the requests clients may issue, each once
    N, R, W,       \* ReplicationFactor, ReadQuorum, WriteQuorum
    Levels,        \* the consistency levels clients ask for
    Skew,          \* how far a node's clock is off
    Serial,        \* clients start a request only when nothing is in flight
    MaxChanges     \* bound on the membership changes after start

Ops == Puts \cup Gets \cup Deletes

\* config.Validate, which only warns when W + R <= N, and what names and hashes
\* guarantee.
ASSUME CoordinatorConstants ==
    /\ IsFiniteSet(Nodes) /\ Nodes # {}
    /\ Contacts \subseteq Nodes
    /\ Peers \in [Nodes -> SUBSET Nodes]
    /\ Rank \in [Nodes -> Int]
    /\ \A m, n \in Nodes : Rank[m] = Rank[n] => m = n
    /\ N \in Nat /\ R \in 1..N /\ W \in 1..N
    /\ Levels \subseteq {"one", "quorum", "all"}
    /\ Skew \in Nat
    /\ Serial \in BOOLEAN
    /\ MaxChanges \in Nat
    /\ Puts \cap Gets = {} /\ Puts \cap Deletes = {} /\ Gets \cap Deletes = {}

VARIABLES
    store,      \* store[n]: what replica n holds for the key
    net,        \* replication requests in flight, <<operation, destination>>
    known,      \* known[c]: c.nodes of the coordinator on node c
    ring,       \* ring[c]: the physical nodes in its hash ring
    changes,    \* membership changes so far
    now,        \* time, advanced by every write
    phase,      \* phase[o]: where the coordinator is with o
    at,         \* at[o]: the coordinating node
    lvl,        \* lvl[o]: the consistency level
    ts,         \* ts[o]: the timestamp a write carries
    pref,       \* pref[o]: the preference list
    call,       \* call[o][n]: the call to replica n
    resp,       \* resp[o][n]: the entry replica n returned to a get
    latest,     \* latest[o]: the entry a get answered with
    result,     \* result[o]: the client's answer
    before,     \* history: the operations that were over when o started
    regressed   \* history: some replica lost a live entry to an older one

cluster == <<known, ring, changes>>
request == <<at, lvl, ts, pref, before>>
vars == <<store, net, known, ring, changes, now, phase, at, lvl, ts, pref,
          call, resp, latest, result, before, regressed>>

NoEntry == [st |-> "absent", ts |-> 0, by |-> 0]

Entry(o) == [st |-> "live", ts |-> ts[o], by |-> o]

LiveEntry == [st : {"live"}, ts : Int, by : Puts]

Tombstones == [st : {"dead"}, ts : Int, by : Deletes]

NoCalls == [n \in Nodes |-> "idle"]

NoResponses == [n \in Nodes |-> NoEntry]

CallState == {"idle", "sent", "ok", "nil", "fail", "todo", "write"}

TypeOK ==
    /\ store \in [Nodes -> LiveEntry \cup Tombstones \cup {NoEntry}]
    /\ net \subseteq Ops \X Nodes
    /\ known \in [Nodes -> SUBSET Nodes]
    /\ ring \in [Nodes -> SUBSET Nodes]
    /\ changes \in Nat
    /\ now \in Nat
    /\ phase \in [Ops -> {"new", "put", "get", "repair", "done"}]
    /\ at \in [Ops -> Nodes]
    /\ lvl \in [Ops -> {"one", "quorum", "all"}]
    /\ ts \in [Ops -> Int]
    /\ pref \in [Ops -> SUBSET Nodes]
    /\ call \in [Ops -> [Nodes -> CallState]]
    /\ resp \in [Ops -> [Nodes -> LiveEntry \cup {NoEntry}]]
    /\ latest \in [Ops -> LiveEntry \cup {NoEntry}]
    /\ result \in [Ops -> {"none", "ok", "failed", "notfound"}]
    /\ before \in [Ops -> SUBSET Ops]
    /\ regressed \in BOOLEAN

(***************************************************************************)
(* main.go registers the node itself, and Peers stands for further calls   *)
(* of RegisterNode before the first request.                               *)
(***************************************************************************)
Init ==
    /\ store = [n \in Nodes |-> NoEntry]
    /\ net = {}
    /\ known = [c \in Nodes |-> Peers[c] \cup {c}]
    /\ ring = known
    /\ changes = 0
    /\ now = 0
    /\ phase = [o \in Ops |-> "new"]
    /\ at = [o \in Ops |-> CHOOSE n \in Nodes : TRUE]
    /\ lvl = [o \in Ops |-> "one"]
    /\ ts = [o \in Ops |-> 0]
    /\ pref = [o \in Ops |-> {}]
    /\ call = [o \in Ops |-> NoCalls]
    /\ resp = [o \in Ops |-> NoResponses]
    /\ latest = [o \in Ops |-> NoEntry]
    /\ result = [o \in Ops |-> "none"]
    /\ before = [o \in Ops |-> {}]
    /\ regressed = FALSE

-----------------------------------------------------------------------------
\* HashRing.GetNodes: the first N distinct nodes met on the ring of c.
PreferenceList(c) ==
    {n \in ring[c] : Cardinality({m \in ring[c] : Rank[m] < Rank[n]}) < N}

\* getWriteQuorum
WriteQuorum(l) == CASE l = "one" -> 1 [] l = "all" -> N [] OTHER -> W

\* getReadQuorum
ReadQuorum(l) == CASE l = "one" -> 1 [] l = "all" -> N [] OTHER -> R

OkNodes(o) == {n \in Nodes : call[o][n] = "ok"}

\* The goroutines of o have returned.
Returned(o) == \A n \in Nodes : call[o][n] \notin {"sent", "todo", "write"}

Active(o) == phase[o] \in {"put", "get", "repair"}

Quiet == net = {} /\ \A o \in Ops : ~Active(o)

\* The client environment: requests come at any time, or (Serial) only when
\* everything earlier requests caused has come to rest.
MayStart(o) == phase[o] = "new" /\ (Serial => Quiet)

\* The operations that are over for their client: answered, or cut off.
Answered == {o \in Ops : result[o] # "none" \/ phase[o] = "done"}

\* storage.Put and storage.Delete on replica n: the entry that arrives
\* replaces the one that is there, whatever their timestamps.
Store(n, e) ==
    /\ store' = [store EXCEPT ![n] = e]
    /\ regressed' = (regressed \/ (/\ store[n].st = "live"
                                   /\ e.st = "dead" \/ e.ts < store[n].ts))

\* The calls an operation on c starts with: a node that is on the ring but
\* not registered fails at once.  (The goroutines look the nodes up as soon as
\* they run; here that is when the request starts.)
FirstCalls(c, list) ==
    [n \in Nodes |-> IF n \notin list THEN "idle"
                     ELSE IF n = c \/ n \in known[c] THEN "sent" ELSE "fail"]

Begin(o, c, l, list) ==
    /\ MayStart(o)
    /\ at' = [at EXCEPT ![o] = c]
    /\ lvl' = [lvl EXCEPT ![o] = l]
    /\ pref' = [pref EXCEPT ![o] = list]
    /\ before' = [before EXCEPT ![o] = Answered]

\* time.Now().UnixNano() on some node.
Tick(o, t) ==
    /\ now' = now + 1
    /\ t \in (now' - Skew)..(now' + Skew)
    /\ ts' = [ts EXCEPT ![o] = t]

-----------------------------------------------------------------------------
(***************************************************************************)
(* Put and replicateToNodes.                                               *)
(***************************************************************************)
PutStart(o, c, l, t) ==
    /\ LET list == PreferenceList(c)
       IN  /\ Begin(o, c, l, list)
           /\ call' = [call EXCEPT ![o] = FirstCalls(c, list)]
           /\ net' = net \cup {<<o, n>> : n \in (list \cap known[c]) \ {c}}
    /\ Tick(o, t)
    /\ phase' = [phase EXCEPT ![o] = "put"]
    /\ UNCHANGED <<store, cluster, resp, latest, result, regressed>>

\* The goroutine of the local replica: storage.Put returns nil or an error.
LocalWrite(o) ==
    /\ phase[o] = "put"
    /\ call[o][at[o]] = "sent"
    /\ \/ /\ Store(at[o], Entry(o))
          /\ call' = [call EXCEPT ![o][at[o]] = "ok"]
       \/ /\ call' = [call EXCEPT ![o][at[o]] = "fail"]
          /\ UNCHANGED <<store, regressed>>
    /\ UNCHANGED <<net, cluster, now, phase, request, resp, latest, result>>

\* What a replication request of o carries.
Payload(o) == IF o \in Puts THEN Entry(o) ELSE latest[o]

\* handleReplication on n: the entry is stored and 200 returned, which
\* reaches the coordinator if it still waits for it.
Deliver(o, n) ==
    /\ <<o, n>> \in net
    /\ net' = net \ {<<o, n>>}
    /\ Store(n, Payload(o))
    /\ call' = [call EXCEPT ![o][n] = IF @ = "sent" THEN "ok" ELSE @]
    /\ UNCHANGED <<cluster, now, phase, request, resp, latest, result>>

\* A request that was given up never arrives, or the replica fails to store
\* it.  (A request that is lost earlier is one that nobody delivers.)
Lose(o, n) ==
    /\ <<o, n>> \in net
    /\ call[o][n] # "sent"
    /\ net' = net \ {<<o, n>>}
    /\ UNCHANGED <<store, cluster, now, phase, request, call, resp, latest,
                   result, regressed>>

\* Mutant: the HTTP client has no timeout.
TimeoutNever(o, n) == FALSE /\ UNCHANGED vars

\* sendReplication gives up (http.Client.Timeout, a broken connection, the
\* client's context).  The request may still be on its way.
Timeout(o, n) ==
    /\ phase[o] \in {"put", "repair"}
    /\ n # at[o]
    /\ call[o][n] = "sent"
    /\ call' = [call EXCEPT ![o][n] = "fail"]
    /\ UNCHANGED <<store, net, cluster, now, phase, request, resp, latest,
                   result, regressed>>

\* Mutant: the results are counted, not the successes among them.
PutFinishCountsResults(o) ==
    /\ phase[o] = "put"
    /\ Returned(o)
    /\ phase' = [phase EXCEPT ![o] = "done"]
    /\ call' = [call EXCEPT ![o] = NoCalls]
    /\ result' = [result EXCEPT ![o] =
                     IF Cardinality(pref[o]) < WriteQuorum(lvl[o]) THEN "failed" ELSE "ok"]
    /\ UNCHANGED <<store, net, cluster, now, request, resp, latest, regressed>>

\* wg.Wait returns and the acknowledgements are counted.
PutFinish(o) ==
    /\ phase[o] = "put"
    /\ Returned(o)
    /\ phase' = [phase EXCEPT ![o] = "done"]
    /\ call' = [call EXCEPT ![o] = NoCalls]
    /\ result' = [result EXCEPT ![o] =
                     IF Cardinality(OkNodes(o)) < WriteQuorum(lvl[o]) THEN "failed" ELSE "ok"]
    /\ UNCHANGED <<store, net, cluster, now, request, resp, latest, regressed>>

-----------------------------------------------------------------------------
(***************************************************************************)
(* Get and readFromNodes.                                                  *)
(***************************************************************************)
GetStart(o, c, l) ==
    /\ LET list == PreferenceList(c)
       IN  /\ Begin(o, c, l, list)
           /\ call' = [call EXCEPT ![o] = FirstCalls(c, list)]
    /\ phase' = [phase EXCEPT ![o] = "get"]
    /\ UNCHANGED <<store, net, cluster, now, ts, resp, latest, result, regressed>>

\* Mutant: a tombstone is returned as if it were an entry.
ReadAtReturnsTombstone(o, n) ==
    /\ phase[o] = "get"
    /\ call[o][n] = "sent"
    /\ IF store[n].st = "absent"
       THEN call' = [call EXCEPT ![o][n] = "nil"] /\ UNCHANGED resp
       ELSE /\ call' = [call EXCEPT ![o][n] = "ok"]
            /\ resp' = [resp EXCEPT ![o][n] = store[n]]
    /\ UNCHANGED <<store, net, cluster, now, phase, request, latest, result, regressed>>

\* storage.Get on the local replica, or handleInternalRead on a remote one:
\* an absent or deleted key is a 404.
ReadAt(o, n) ==
    /\ phase[o] = "get"
    /\ call[o][n] = "sent"
    /\ IF store[n].st = "live"
       THEN /\ call' = [call EXCEPT ![o][n] = "ok"]
            /\ resp' = [resp EXCEPT ![o][n] = store[n]]
       ELSE call' = [call EXCEPT ![o][n] = "nil"] /\ UNCHANGED resp
    /\ UNCHANGED <<store, net, cluster, now, phase, request, latest, result, regressed>>

\* fetchFromNode returns nil: no answer, or not in time.
ReadFails(o, n) ==
    /\ phase[o] = "get"
    /\ call[o][n] = "sent"
    /\ call' = [call EXCEPT ![o][n] = "fail"]
    /\ UNCHANGED <<store, net, cluster, now, phase, request, resp, latest,
                   result, regressed>>

\* The entries sort.Slice may leave in front.
LatestResponses(o) ==
    {resp[o][n] : n \in {m \in OkNodes(o) :
                            \A k \in OkNodes(o) : resp[o][m].ts >= resp[o][k].ts}}

\* Mutant: any response is enough.
GetFinishOneResponse(o) ==
    /\ phase[o] = "get"
    /\ Returned(o)
    /\ OkNodes(o) # {}
    /\ phase' = [phase EXCEPT ![o] = "done"]
    /\ result' = [result EXCEPT ![o] = "ok"]
    /\ \E e \in LatestResponses(o) : latest' = [latest EXCEPT ![o] = e]
    /\ call' = [call EXCEPT ![o] = NoCalls]
    /\ resp' = [resp EXCEPT ![o] = NoResponses]
    /\ UNCHANGED <<store, net, cluster, now, request, regressed>>

\* Fewer entries than the quorum are "key not found".  Otherwise the client
\* has its answer and a goroutine starts to repair the preference list.
GetFinish(o) ==
    /\ phase[o] = "get"
    /\ Returned(o)
    /\ \/ /\ Cardinality(OkNodes(o)) < ReadQuorum(lvl[o])
          /\ phase' = [phase EXCEPT ![o] = "done"]
          /\ result' = [result EXCEPT ![o] = "notfound"]
          /\ call' = [call EXCEPT ![o] = NoCalls]
          /\ UNCHANGED latest
       \/ /\ Cardinality(OkNodes(o)) >= ReadQuorum(lvl[o])
          /\ phase' = [phase EXCEPT ![o] = "repair"]
          /\ result' = [result EXCEPT ![o] = "ok"]
          /\ \E e \in LatestResponses(o) : latest' = [latest EXCEPT ![o] = e]
          /\ call' = [call EXCEPT ![o] =
                         [n \in Nodes |-> IF n \in pref[o] THEN "todo" ELSE "idle"]]
    /\ resp' = [resp EXCEPT ![o] = NoResponses]
    /\ UNCHANGED <<store, net, cluster, now, request, regressed>>

-----------------------------------------------------------------------------
(***************************************************************************)
(* readRepair: one node after the other, in preference order.              *)
(***************************************************************************)
NextRepair(o, n) ==
    /\ phase[o] = "repair"
    /\ call[o][n] = "todo"
    /\ \A m \in Nodes : /\ call[o][m] \notin {"sent", "write"}
                        /\ call[o][m] = "todo" => Rank[n] <= Rank[m]

\* The local copy is missing, older, or differs at the same timestamp.
Stale(e, new) ==
    \/ e.st # "live"
    \/ e.ts < new.ts
    \/ e.ts = new.ts /\ e.by # new.by

\* The coordinator reads its own copy and decides ...
RepairCheck(o) ==
    /\ NextRepair(o, at[o])
    /\ call' = [call EXCEPT ![o][at[o]] =
                   IF Stale(store[at[o]], latest[o]) THEN "write" ELSE "ok"]
    /\ UNCHANGED <<store, net, cluster, now, phase, request, resp, latest,
                   result, regressed>>

\* ... and writes it, with no lock held in between.
RepairWrite(o) ==
    /\ phase[o] = "repair"
    /\ call[o][at[o]] = "write"
    /\ Store(at[o], latest[o])
    /\ call' = [call EXCEPT ![o][at[o]] = "ok"]
    /\ UNCHANGED <<net, cluster, now, phase, request, resp, latest, result>>

\* Mutant: replicas that hold no copy are left out.
RepairSendSkipsMissing(o, n) ==
    /\ NextRepair(o, n)
    /\ n # at[o]
    /\ IF n \in known[at[o]] /\ store[n].st = "live"
       THEN /\ call' = [call EXCEPT ![o][n] = "sent"]
            /\ net' = net \cup {<<o, n>>}
       ELSE call' = [call EXCEPT ![o][n] = "ok"] /\ UNCHANGED net
    /\ UNCHANGED <<store, cluster, now, phase, request, resp, latest, result, regressed>>

\* A remote copy is overwritten without being looked at.
RepairSend(o, n) ==
    /\ NextRepair(o, n)
    /\ n # at[o]
    /\ IF n \in known[at[o]]
       THEN /\ call' = [call EXCEPT ![o][n] = "sent"]
            /\ net' = net \cup {<<o, n>>}
       ELSE call' = [call EXCEPT ![o][n] = "fail"] /\ UNCHANGED net
    /\ UNCHANGED <<store, cluster, now, phase, request, resp, latest, result, regressed>>

\* The repair goroutine returns.
RepairFinish(o) ==
    /\ phase[o] = "repair"
    /\ Returned(o)
    /\ phase' = [phase EXCEPT ![o] = "done"]
    /\ call' = [call EXCEPT ![o] = NoCalls]
    /\ UNCHANGED <<store, net, cluster, now, request, resp, latest, result, regressed>>

-----------------------------------------------------------------------------
\* handleDelete: a tombstone on the node that got the request, nothing else.
HandleDelete(o, c, t) ==
    /\ Begin(o, c, "one", {})
    /\ Tick(o, t)
    /\ Store(c, [st |-> "dead", ts |-> t, by |-> o])
    /\ phase' = [phase EXCEPT ![o] = "done"]
    /\ result' = [result EXCEPT ![o] = "ok"]
    /\ UNCHANGED <<net, cluster, call, resp, latest>>

\* The process of node c dies and restarts: its requests are gone, what they
\* sent is not.  The store is taken to survive (SyncWrites).
Crash(c) ==
    /\ LET gone == {o \in Ops : at[o] = c /\ Active(o)}
       IN  /\ gone # {}
           /\ phase' = [o \in Ops |-> IF o \in gone THEN "done" ELSE phase[o]]
           /\ call' = [o \in Ops |-> IF o \in gone THEN NoCalls ELSE call[o]]
           /\ resp' = [o \in Ops |-> IF o \in gone THEN NoResponses ELSE resp[o]]
    /\ UNCHANGED <<store, net, cluster, now, request, latest, result, regressed>>

-----------------------------------------------------------------------------
(***************************************************************************)
(* Membership: the coordinator's own calls, and onStateChange of main.go,  *)
(* which changes the ring but not the coordinator's nodes.                 *)
(***************************************************************************)
Change(c, nodes, tokens) ==
    /\ changes < MaxChanges
    /\ changes' = changes + 1
    /\ known' = [known EXCEPT ![c] = nodes]
    /\ ring' = [ring EXCEPT ![c] = tokens]
    /\ UNCHANGED <<store, net, now, phase, request, call, resp, latest,
                   result, regressed>>

RegisterNode(c, n) == Change(c, known[c] \cup {n}, ring[c] \cup {n})

UnregisterNode(c, n) == n # c /\ Change(c, known[c] \ {n}, ring[c] \ {n})

NodeDead(c, n) == n # c /\ Change(c, known[c], ring[c] \ {n})

NodeRevived(c, n) == Change(c, known[c], ring[c] \cup {n})

Membership ==
    \E c \in Contacts, n \in Nodes :
        \/ RegisterNode(c, n)
        \/ UnregisterNode(c, n)
        \/ NodeDead(c, n)
        \/ NodeRevived(c, n)

-----------------------------------------------------------------------------
Request ==
    \E c \in Contacts :
        \/ \E o \in Puts, l \in Levels, t \in (now + 1 - Skew)..(now + 1 + Skew) :
              PutStart(o, c, l, t)
        \/ \E o \in Gets, l \in Levels : GetStart(o, c, l)
        \/ \E o \in Deletes, t \in (now + 1 - Skew)..(now + 1 + Skew) :
              HandleDelete(o, c, t)

\* A step the coordinator of o takes by itself.
Step(o) ==
    \/ LocalWrite(o)
    \/ PutFinish(o)
    \/ GetFinish(o)
    \/ RepairCheck(o)
    \/ RepairWrite(o)
    \/ RepairFinish(o)
    \/ \E n \in Nodes : \/ Timeout(o, n)
                        \/ ReadAt(o, n)
                        \/ ReadFails(o, n)
                        \/ RepairSend(o, n)

Next ==
    \/ Request
    \/ \E o \in Ops : Step(o)
    \/ \E o \in Ops, n \in Nodes : Deliver(o, n) \/ Lose(o, n)
    \/ \E c \in Nodes : Crash(c)
    \/ Membership

Spec == Init /\ [][Next]_vars

\* The Go scheduler runs every goroutine, and the timeout of the HTTP client
\* bounds every call: a request in progress keeps making steps.
FairSpec == Spec /\ \A o \in Ops : WF_vars(Step(o))

-----------------------------------------------------------------------------
(***************************************************************************)
(* Properties.                                                             *)
(***************************************************************************)

\* The two quorums of a put and a get must share a replica.
Intersecting(p, g) ==
    /\ Cardinality(pref[p] \cup pref[g]) <= N
    /\ WriteQuorum(lvl[p]) + ReadQuorum(lvl[g]) > N

\* The puts acknowledged before get g started.
AckedBefore(g) == {p \in before[g] \cap Puts : result[p] = "ok"}

\* A get returns nothing older than a put that was acknowledged before the
\* get started, when their quorums intersect.  README: "W=2, R=2 | Strong
\* consistency (W + R > N)".
QuorumReadFresh ==
    \A g \in Gets : result[g] = "ok" =>
        \A p \in AckedBefore(g) : Intersecting(p, g) => latest[g].ts >= ts[p]

\* The part of it that the quorum arithmetic buys in every interleaving of
\* concurrent requests, late messages, failed calls, crashes and membership
\* changes: a quorum read can be stale only if some replica has let an older
\* entry (or a tombstone) replace a newer one.
FreshUnlessRegressed == ~regressed => QuorumReadFresh

\* While requests do not overlap and all ask for intersecting quorums, no read
\* repair, no half-failed put and no local delete ever pushes an acknowledged
\* put off the quorum of replicas that acknowledged it: each of them has the
\* put or something no older, a tombstone included.
AckedWriteHeld ==
    \A p \in Puts : result[p] = "ok" =>
        Cardinality({n \in Nodes : store[n].ts >= ts[p]})
            >= WriteQuorum(lvl[p])

\* README: "Read Repair | Automatic consistency healing".  When requests do
\* not overlap and every repair call succeeds, each replica of the preference
\* list, silent and empty ones included, ends with the entry the get returned
\* or, on the coordinator itself, with a newer one that the get had missed.
ReadRepairHeals ==
    \A g \in Gets :
        (/\ phase[g] = "repair"
         /\ \A n \in pref[g] : call[g][n] = "ok"
         /\ \A o \in Ops \ {g} : o \in before[g] \/ phase[o] = "new")
        => \A n \in pref[g] : \/ store[n] = latest[g]
                              \/ n = at[g] /\ store[n].st = "live" /\ store[n].ts > latest[g].ts

\* Every request comes to an end, and so does the repair it starts, whatever
\* the network drops.
RequestsEnd == \A o \in Ops : phase[o] # "new" ~> ~Active(o)

\* README: "Verify reads still work (quorum of 2 from remaining nodes)".  A get
\* that follows an acknowledged put and has the answers of a read quorum of
\* replicas does not end in "key not found".
QuorumReadAnswers ==
    \A g \in Gets :
        (/\ phase[g] = "get" /\ Returned(g)
         /\ AckedBefore(g) # {}
         /\ Cardinality({n \in Nodes : call[g][n] \in {"ok", "nil"}}) >= ReadQuorum(lvl[g]))
        => Cardinality(OkNodes(g)) >= ReadQuorum(lvl[g])

\* handlers.go: "handleDelete removes a key".  After it returned, and with no
\* put since, a get does not find the key.
DeleteRemoves ==
    \A g \in Gets, d \in Deletes :
        (d \in before[g] /\ \A p \in Puts : p \in before[d] \/ phase[p] = "new")
            => result[g] # "ok"

\* cluster_test.go: a PUT to a running cluster is answered with 200.  A put
\* none of whose calls failed has its quorum.
HealthyPutSucceeds ==
    \A p \in Puts :
        (phase[p] = "put" /\ Returned(p) /\ \A n \in Nodes : call[p][n] # "fail")
            => Cardinality(OkNodes(p)) >= WriteQuorum(lvl[p])

=============================================================================
