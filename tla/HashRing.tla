------------------------------ MODULE HashRing ------------------------------
(***************************************************************************)
(* Consistent hashing with virtual nodes (internal/ring/hash_ring.go and   *)
(* internal/ring/vnode.go).                                                *)
(*                                                                         *)
(* The ring is a slice of virtual nodes sorted by token.  AddNode and      *)
(* RemoveNode hold the lock and are one action each; the lookups are pure  *)
(* functions of the slice and of the key's token.  Tokens are unsigned     *)
(* integers of Width bits and arithmetic on them wraps around.             *)
(*                                                                         *)
(* MurmurHash3 is any assignment of tokens to virtual nodes that has no    *)
(* collision; it is chosen once.                                           *)
(***************************************************************************)
EXTENDS Integers, Sequences, SequencesExt, FiniteSets, FiniteSetsExt, TLC

CONSTANTS
    Nodes,         \* physical nodes
    VirtualCounts, \* how many virtual nodes a ring may be configured with
    Width          \* bits of a token

ASSUME RingConstants == VirtualCounts \subseteq Nat \ {0} /\ Width \in Nat

Space == 2 ^ Width

\* A fact of arithmetic that the provers do not know.
ASSUME SpacePositive == Space \in Nat \ {0}

Tokens == 0..(Space - 1)

VARIABLES
    virtualCount,  \* r.virtualCount
    hash,          \* hash[n][i]: the token of the i-th virtual node of n
    vnodes,        \* r.vnodes
    nodeVNodes     \* the nodes r.nodeVNodes has an entry for

vars == <<virtualCount, hash, vnodes, nodeVNodes>>

VNode == [Hash : Tokens, NodeID : Nodes, VNodeIdx : Nat]

\* Injective on all virtual nodes together.
Hashes(count) ==
    {f \in [Nodes -> [0..(count - 1) -> Tokens]] :
        \A m, n \in Nodes : \A i, j \in 0..(count - 1) :
            f[m][i] = f[n][j] => m = n /\ i = j}

TypeOK ==
    /\ virtualCount \in VirtualCounts
    /\ hash \in [Nodes -> [0..(virtualCount - 1) -> Tokens]]
    /\ vnodes \in Seq(VNode)
    /\ nodeVNodes \subseteq Nodes

\* NewHashRing
Init ==
    /\ virtualCount \in VirtualCounts
    /\ hash \in Hashes(virtualCount)
    /\ vnodes = <<>>
    /\ nodeVNodes = {}

-----------------------------------------------------------------------------
\* The virtual nodes AddNode appends, in the order it does.
NewVNodes(n) ==
    [i \in 1..virtualCount |-> [Hash |-> hash[n][i - 1], NodeID |-> n, VNodeIdx |-> i - 1]]

\* The positions of P that come before position i: those with a lower key, and
\* of those with the same key the earlier ones.
Before(P, key, i) == {j \in P : key[j] < key[i] \/ (key[j] = key[i] /\ j < i)}

\* The elements of s at the positions P, in the order of their keys.
Arrange(s, P, key) ==
    [r \in 1..Cardinality(P) |-> s[CHOOSE i \in P : Cardinality(Before(P, key, i)) = r - 1]]

\* sort.Slice by token
Sorted(s) == Arrange(s, DOMAIN s, [i \in DOMAIN s |-> s[i].Hash])

\* The loop of RemoveNode: what is left when the virtual nodes of n are filtered
\* out, in the order it was in.
Without(s, n) ==
    LET kept == {i \in DOMAIN s : s[i].NodeID # n} IN Arrange(s, kept, [i \in kept |-> i])

\* Mutants: the new tokens are left at the end of the slice; a node that is
\* there already is added again.
AddNodeUnsorted(n) ==
    /\ n \notin nodeVNodes
    /\ vnodes' = vnodes \o NewVNodes(n)
    /\ nodeVNodes' = nodeVNodes \cup {n}
    /\ UNCHANGED <<virtualCount, hash>>

AddNodeTwice(n) ==
    /\ Len(vnodes) <= virtualCount * Cardinality(Nodes)
    /\ vnodes' = Sorted(vnodes \o NewVNodes(n))
    /\ nodeVNodes' = nodeVNodes \cup {n}
    /\ UNCHANGED <<virtualCount, hash>>

\* A node that is there already is left alone.
AddNode(n) ==
    /\ n \notin nodeVNodes
    /\ vnodes' = Sorted(vnodes \o NewVNodes(n))
    /\ nodeVNodes' = nodeVNodes \cup {n}
    /\ UNCHANGED <<virtualCount, hash>>

\* Mutant: the new slice is made with a length, not with a capacity.
RemoveNodeZeroElements(n) ==
    /\ n \in nodeVNodes
    /\ vnodes' = [i \in 1..(Len(vnodes) - virtualCount) |->
                     [Hash |-> 0, NodeID |-> "", VNodeIdx |-> 0]]
                 \o Without(vnodes, n)
    /\ nodeVNodes' = nodeVNodes \ {n}
    /\ UNCHANGED <<virtualCount, hash>>

RemoveNode(n) ==
    /\ n \in nodeVNodes
    /\ vnodes' = Without(vnodes, n)
    /\ nodeVNodes' = nodeVNodes \ {n}
    /\ UNCHANGED <<virtualCount, hash>>

Next == \E n \in Nodes : AddNode(n) \/ RemoveNode(n)

Spec == Init /\ [][Next]_vars

-----------------------------------------------------------------------------
(***************************************************************************)
(* Lookups.                                                                *)
(***************************************************************************)

\* Mutant: no wrap around past the last token.
StartIdxNoWrap(vs, h) ==
    Min({i \in DOMAIN vs : vs[i].Hash >= h} \cup {Len(vs)})

\* sort.Search over the sorted slice: the first token at or after h, or the
\* first of all.
StartIdx(vs, h) ==
    LET at == {i \in DOMAIN vs : vs[i].Hash >= h}
    IN  IF at = {} THEN 1 ELSE Min(at)

GetNode(h) == vnodes[StartIdx(vnodes, h)].NodeID

\* The node ids met from index "from" on, once around.  (Go's indices are one
\* less than TLA+'s.)
Walk(vs, from, step) ==
    [i \in 1..Len(vs) |-> vs[((from - 1 + step * (i - 1)) % Len(vs)) + 1].NodeID]

\* The loops of GetNodes, GetSuccessorNodes and GetPredecessorNodes: the first
\* n distinct ids outside "seen".
Distinct(walk, n, seen) ==
    LET ids[i \in 0..Len(walk)] ==
            IF i = 0 THEN <<>>
            ELSE LET found == ids[i - 1]
                 IN  IF Len(found) < n /\ walk[i] \notin seen \cup ToSet(found)
                     THEN Append(found, walk[i]) ELSE found
    IN  ids[Len(walk)]

\* The preference list; an empty ring is an error.
GetNodes(vs, h, n) ==
    IF vs = <<>> THEN <<>> ELSE Distinct(Walk(vs, StartIdx(vs, h), 1), n, {})

\* Mutant: a range starts at the token before, not after it.
GetTokenRangesOverlapping ==
    [i \in DOMAIN vnodes |->
        [start |-> vnodes[IF i = 1 THEN Len(vnodes) ELSE i - 1].Hash,
         end   |-> vnodes[i].Hash,
         node  |-> vnodes[i].NodeID]]

\* Range i ends at token i and starts after the one before.
GetTokenRanges ==
    [i \in DOMAIN vnodes |->
        [start |-> (vnodes[IF i = 1 THEN Len(vnodes) ELSE i - 1].Hash + 1) % Space,
         end   |-> vnodes[i].Hash,
         node  |-> vnodes[i].NodeID]]

\* Mutant: the range that wraps around is one token short.
RangeSizeOffByOne(r) ==
    IF r.end >= r.start THEN (r.end - r.start + 1) % Space
                        ELSE ((Space - 1 - r.start) + r.end + 1) % Space

\* CalculateLoadDistribution, in uint64 arithmetic; the percentage of n is
\* nodeLoad(n) / totalSpace.
RangeSize(r) ==
    IF r.end >= r.start THEN (r.end - r.start + 1) % Space
                        ELSE ((Space - 1 - r.start) + r.end + 2) % Space

NodeLoad(n) ==
    LET mine == {i \in DOMAIN vnodes : vnodes[i].NodeID = n}
    IN  MapThenSumSet(LAMBDA i : RangeSize(GetTokenRanges[i]), mine) % Space

TotalSpace == MapThenSumSet(LAMBDA i : RangeSize(GetTokenRanges[i]), DOMAIN vnodes) % Space

FirstToken(n) == Min({i \in DOMAIN vnodes : vnodes[i].NodeID = n})

\* Mutant: the walk goes the wrong way.
GetPredecessorNodesForward(p, n) == Distinct(Walk(vnodes, FirstToken(p), 1), n, {p})

GetSuccessorNodes(p, n) == Distinct(Walk(vnodes, FirstToken(p), 1), n, {p})

GetPredecessorNodes(p, n) == Distinct(Walk(vnodes, FirstToken(p), -1), n, {p})

-----------------------------------------------------------------------------
(***************************************************************************)
(* Properties.                                                             *)
(***************************************************************************)

\* The ring depends on the members only, not on the history: the slice is the
\* sorted list of their tokens.  So nodes that have seen joins and failures in
\* different orders, but agree on the members, agree on every replica set.
RingCanonical ==
    /\ \A i \in 1..(Len(vnodes) - 1) : vnodes[i].Hash < vnodes[i + 1].Hash
    /\ ToSet(vnodes) = UNION {ToSet(NewVNodes(n)) : n \in nodeVNodes}

\* How far clockwise from h the first token of n is.
Distance(h, n) == Min({(hash[n][i] - h) % Space : i \in 0..(virtualCount - 1)})

\* GetNodes against its definition, for every token and length: the members in
\* the order of their distance from the key, cut off after n.  This is the
\* Rank that Coordinator!PreferenceList counts with, and its head is GetNode.
PreferenceListExact ==
    \A h \in Tokens, n \in 1..Cardinality(Nodes) :
        LET list == GetNodes(vnodes, h, n)
            rank(m) == Cardinality({k \in nodeVNodes : Distance(h, k) < Distance(h, m)})
        IN  /\ Len(list) = IF n < Cardinality(nodeVNodes) THEN n ELSE Cardinality(nodeVNodes)
            /\ \A i \in DOMAIN list : list[i] \in nodeVNodes /\ rank(list[i]) = i - 1
            /\ vnodes # <<>> => list[1] = GetNode(h)

\* What a join of x makes of a preference list of at most n nodes: x takes a
\* place in it, those from there on move down one, and the list is cut off.
Joined(list, x, n) ==
    {SubSeq(InsertAt(list, k, x), 1, IF Len(list) < n THEN Len(list) + 1 ELSE n) :
        k \in 1..(Len(list) + 1)}

\* Consistent hashing: a node that joins is put into the preference list of a
\* key, or not, and a node that leaves is taken out; the others keep their
\* order, and at most one of them goes or comes.
OnlyOneReplicaMoves ==
    [][\A x \in Nodes, h \in Tokens, n \in 1..Cardinality(Nodes) :
          LET Old == GetNodes(vnodes, h, n)
              New == GetNodes(vnodes', h, n)
          IN  /\ x \notin nodeVNodes /\ nodeVNodes' = nodeVNodes \cup {x} => New \in Joined(Old, x, n)
              /\ x \in nodeVNodes /\ nodeVNodes' = nodeVNodes \ {x} => Old \in Joined(New, x, n)]_vars

\* t lies in the range, which may wrap around.
InRange(t, r) ==
    IF r.end >= r.start THEN t \in r.start..r.end ELSE t >= r.start \/ t <= r.end

\* The ranges partition the token space, and each belongs to the node that
\* GetNode finds for its tokens: the token after the last one, the wrap around
\* and a ring of a single token included.
RangesMatchOwners ==
    vnodes # <<>> =>
        \A t \in Tokens :
            \E i \in DOMAIN vnodes :
                /\ GetTokenRanges[i].node = GetNode(t)
                /\ \A j \in DOMAIN vnodes : InRange(t, GetTokenRanges[j]) <=> j = i

\* The successors of a node are the other replicas of its first token; with one
\* token per node, predecessors are successors seen from the other side.
NeighboursAgree ==
    /\ \A p \in nodeVNodes, n \in 0..(Cardinality(Nodes) - 1) :
          GetNodes(vnodes, vnodes[FirstToken(p)].Hash, n + 1) = <<p>> \o GetSuccessorNodes(p, n)
    /\ virtualCount = 1 =>
          \A p, q \in nodeVNodes, i \in 1..(Cardinality(nodeVNodes) - 1) :
              GetSuccessorNodes(p, i)[i] = q <=> GetPredecessorNodes(q, i)[i] = p

\* CalculateLoadDistribution gives every node the number of tokens that GetNode
\* maps to it, wrapped ranges included, as far as a uint64 can hold it.  (The
\* sizes together are 2^Width, which TotalSpace keeps as 0.)
LoadCountsTokens ==
    vnodes # <<>> =>
        \A n \in nodeVNodes : NodeLoad(n) = Cardinality({t \in Tokens : GetNode(t) = n}) % Space

=============================================================================
