----------------------------- MODULE Versioning -----------------------------
(***************************************************************************)
(* Vector clocks and conflict resolution (VectorClock of pkg/types and     *)
(* internal/versioning), for one key.                                      *)
(*                                                                         *)
(* A clock is a function on all nodes: a node the map does not have counts *)
(* 0, and the code never stores a 0.  Every node has a VectorClockManager. *)
(* A version is an entry with the clock it was given; its past is the set  *)
(* of events that were known where it was made, which no code sees.        *)
(* Nothing in the repository calls this package, so the actions are its    *)
(* exported operations, in any order, on any versions there are.           *)
(***************************************************************************)
EXTENDS Naturals, FiniteSets

CONSTANTS
    Nodes,
    Timestamps,     \* what the clocks of the nodes may show
    MaxVersions     \* bound: versions that are made

ASSUME VersioningConstants ==
    /\ Timestamps \subseteq Nat
    /\ MaxVersions \in Nat

VARIABLES
    clocks,     \* clocks[n]: the clock the manager of n has for the key
    known,      \* history: known[n], the events that clock stands for
    versions,   \* the versions made so far
    reused      \* history: the nodes that may give one count to two events

vars == <<clocks, known, versions, reused>>

-----------------------------------------------------------------------------
(***************************************************************************)
(* Clocks.                                                                 *)
(***************************************************************************)

Clock == [Nodes -> Nat]

\* Mutant: the map is not made, and has no node to count for.
NilClock == [n \in {} |-> 0]

\* make(VectorClock)
NoClock == [n \in Nodes |-> 0]

\* VectorClock.Increment
Incremented(vc, n) == [vc EXCEPT ![n] = @ + 1]

\* Mutant: the counts of the other clock replace the own ones, newer or not.
MergeTakesOther(vc, other) == [n \in Nodes |-> IF other[n] > 0 THEN other[n] ELSE vc[n]]

\* VectorClock.Merge
Merge(vc, other) == [n \in Nodes |-> IF other[n] > vc[n] THEN other[n] ELSE vc[n]]

\* VectorClock.Compare: -1, 1 and 0, the last for equal clocks too.
Compare(vc, other) ==
    LET less == \E n \in Nodes : vc[n] < other[n]
        greater == \E n \in Nodes : vc[n] > other[n]
    IN  IF less /\ ~greater THEN "less"
        ELSE IF greater /\ ~less THEN "greater"
        ELSE "concurrent"

HappensBefore(a, b) == Compare(a, b) = "less"

HappensAfter(a, b) == Compare(a, b) = "greater"

AreConcurrent(a, b) == Compare(a, b) = "concurrent"

-----------------------------------------------------------------------------
(***************************************************************************)
(* The resolver, on a sequence of entries.                                 *)
(***************************************************************************)

\* resolveByTimestamp: the first of the entries at I with the latest timestamp.
ResolveByTimestamp(s, I) ==
    s[CHOOSE i \in I : \A j \in I : \/ s[j].timestamp < s[i].timestamp
                                    \/ s[j].timestamp = s[i].timestamp /\ i <= j]

\* Mutant: an entry is dominated when it is newer than another.
CandidatesReversed(s) ==
    {i \in DOMAIN s : ~ \E j \in DOMAIN s : j # i /\ Compare(s[i].version, s[j].version) = "greater"}

\* The entries that no other dominates.
Candidates(s) ==
    {i \in DOMAIN s : ~ \E j \in DOMAIN s : j # i /\ Compare(s[i].version, s[j].version) = "less"}

\* resolveByVectorClock
ResolveByVectorClock(s) == ResolveByTimestamp(s, Candidates(s))

\* Resolve, for the two strategies.
Resolve(strategy, s) ==
    IF strategy = "VectorClockBased" THEN ResolveByVectorClock(s)
    ELSE ResolveByTimestamp(s, DOMAIN s)

\* IsConcurrent of the resolver
IsConcurrent(a, b) == AreConcurrent(a.version, b.version) /\ a.timestamp # b.timestamp

Largest(S) == CHOOSE c \in S : \A d \in S : d <= c

\* The clocks of all entries, merged one after the other.
MergedClock(s) == [n \in Nodes |-> Largest({s[i].version[n] : i \in DOMAIN s})]

\* Mutant: the clock of the winner is incremented.
ResolverMergeWinner(strategy, s, n) ==
    [Resolve(strategy, s) EXCEPT !.version = Incremented(@, n)]

\* Resolver.Merge: the winner, with all clocks merged and n counted up.
ResolverMerge(strategy, s, n) ==
    [Resolve(strategy, s) EXCEPT !.version = Incremented(MergedClock(s), n)]

-----------------------------------------------------------------------------
Event == Nodes \X Nat

Version == [node : Nodes, version : Clock, timestamp : Timestamps, past : SUBSET Event]

EventOf(v) == <<v.node, v.version[v.node]>>

TypeOK ==
    /\ clocks \in [Nodes -> Clock]
    /\ known \in [Nodes -> SUBSET Event]
    /\ versions \subseteq Version
    /\ reused \subseteq Nodes

Init ==
    /\ clocks = [n \in Nodes |-> NoClock]
    /\ known = [n \in Nodes |-> {}]
    /\ versions = {}
    /\ reused = {}

-----------------------------------------------------------------------------
(***************************************************************************)
(* The managers.                                                           *)
(***************************************************************************)

CanMake == Cardinality(versions) < MaxVersions

\* Increment: the clock of a new version.
Increment(n, ts) ==
    LET vc == Incremented(clocks[n], n)
        past == known[n] \cup {<<n, vc[n]>>}
    IN  /\ CanMake
        /\ clocks' = [clocks EXCEPT ![n] = vc]
        /\ known' = [known EXCEPT ![n] = past]
        /\ versions' = versions \cup
              {[node |-> n, version |-> vc, timestamp |-> ts, past |-> past]}
        /\ UNCHANGED reused

\* Update, with the clock of a version.
Update(n, v) ==
    /\ clocks' = [clocks EXCEPT ![n] = Merge(@, v.version)]
    /\ known' = [known EXCEPT ![n] = @ \cup v.past]
    /\ UNCHANGED <<versions, reused>>

\* The manager's clock is replaced.  Its own count may fall.
Replace(n, vc, past) ==
    /\ clocks' = [clocks EXCEPT ![n] = vc]
    /\ known' = [known EXCEPT ![n] = past]
    /\ reused' = IF vc[n] < clocks[n][n] THEN reused \cup {n} ELSE reused
    /\ UNCHANGED versions

\* Set, to the clock of a version.
Set(n, v) == Replace(n, v.version, v.past)

\* Delete
Delete(n) == Replace(n, NoClock, {})

\* Resolver.Merge of two entries at n, and Update with the clock it returns.
\* It counts on from the clocks of the entries, whatever the manager's clock is.
Reconcile(n, strategy, e, f) ==
    LET m == ResolverMerge(strategy, <<e, f>>, n)
        past == e.past \cup f.past \cup {<<n, m.version[n]>>}
    IN  /\ CanMake
        /\ versions' = versions \cup {[m EXCEPT !.node = n, !.past = past]}
        /\ clocks' = [clocks EXCEPT ![n] = Merge(@, m.version)]
        /\ known' = [known EXCEPT ![n] = @ \cup past]
        /\ reused' = IF m.version[n] <= clocks[n][n] THEN reused \cup {n} ELSE reused

Strategies == {"LastWriteWins", "VectorClockBased"}

Next ==
    \E n \in Nodes :
        \/ \E ts \in Timestamps : Increment(n, ts)
        \/ \E v \in versions : Update(n, v) \/ Set(n, v)
        \/ Delete(n)
        \/ \E e, f \in versions : \E strategy \in Strategies : Reconcile(n, strategy, e, f)

Spec == Init /\ [][Next]_vars

-----------------------------------------------------------------------------
(***************************************************************************)
(* Properties.                                                             *)
(***************************************************************************)

\* Clocks order versions by causality, as Compare's callers take them to: a
\* clock is less than another exactly when its version was known where the
\* other was made, whatever was merged, set or forgotten in between, unless the
\* node that made it has given one count to two events.
ClocksTrackCausality ==
    \A v, w \in versions :
        v.node \notin reused =>
            (HappensBefore(v.version, w.version) <=> EventOf(v) \in w.past /\ v # w)

\* resolveByVectorClock never discards a version for one that it was made from.
\* (resolveByTimestamp does, when the clocks of two nodes disagree.)
WinnerNotSuperseded ==
    \A u, v, w \in versions :
        LET winner == Resolve("VectorClockBased", <<u, v, w>>)
        IN  winner.node \notin reused =>
               \A x \in {u, v, w} : x = winner \/ EventOf(winner) \notin x.past

\* Whatever Resolver.Merge returns is newer than every entry it was given, and
\* with either strategy: writing it back leaves no conflict.
MergeSupersedes ==
    \A u, v, w \in versions : \A n \in Nodes : \A strategy \in Strategies :
        \A x \in {u, v, w} :
            HappensBefore(x.version, ResolverMerge(strategy, <<u, v, w>>, n).version)

=============================================================================
