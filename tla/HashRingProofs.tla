--------------------------- MODULE HashRingProofs ---------------------------
(***************************************************************************)
(* Proofs about the hash ring, for any physical nodes, virtual nodes and   *)
(* width of tokens: type correctness; that the slice depends on the        *)
(* members only; that the token ranges are those of the owners; that a     *)
(* preference list holds the nearest members, each once; that a join or a  *)
(* leave changes one replica of a key at most; that neighbours agree; and  *)
(* that the load of a node is the number of tokens it owns.                *)
(***************************************************************************)
EXTENDS HashRing, FiniteSetTheorems, WellFoundedInduction, TLAPS

-----------------------------------------------------------------------------
(***************************************************************************)
(* Arithmetic, and the order of positions.                                 *)
(***************************************************************************)

\* A set of natural numbers has a smallest element.
LEMMA Smallest ==
    ASSUME NEW T \in SUBSET Nat, T # {}
    PROVE  Min(T) \in T /\ \A k \in T : Min(T) <= k
  <1>1. PICK m \in T : \A k \in T : ~(<<k, m>> \in OpToRel(<, Nat))
    BY NatLessThanWellFounded, WFMin
  <1>2. ASSUME NEW k \in T PROVE m <= k
    <2>1. <<k, m>> \notin OpToRel(<, Nat)
      BY <1>1
    <2>2. ~(k < m)
      BY <2>1 DEF OpToRel
    <2> QED BY <2>2
  <1> QED BY <1>2 DEF Min

LEMMA ModFacts ==
    ASSUME NEW s \in Nat \ {0}, NEW a \in 0..s
    PROVE  a % s = IF a = s THEN 0 ELSE a
  OBVIOUS

\* The positions are ordered: of two, one comes before the other, and what comes
\* before the first comes before the second.
LEMMA BeforeOrders ==
    ASSUME NEW P \in SUBSET Nat, NEW key \in [P -> Int], NEW i \in P, NEW j \in P
    PROVE  /\ Before(P, key, i) \subseteq P
           /\ i \notin Before(P, key, i)
           /\ i # j => i \in Before(P, key, j) \/ j \in Before(P, key, i)
           /\ i \in Before(P, key, j) => Before(P, key, i) \subseteq Before(P, key, j)
  <1>1. key[i] \in Int /\ key[j] \in Int /\ i \in Nat /\ j \in Nat
    OBVIOUS
  <1>2. ASSUME i \in Before(P, key, j), NEW k \in Before(P, key, i) PROVE k \in Before(P, key, j)
    <2>1. k \in P /\ key[k] \in Int /\ k \in Nat
      BY <1>2 DEF Before
    <2> QED BY <1>1, <1>2, <2>1 DEF Before
  <1>3. Before(P, key, i) \subseteq P /\ i \notin Before(P, key, i)
    BY <1>1 DEF Before
  <1>4. i # j => i \in Before(P, key, j) \/ j \in Before(P, key, i)
    BY <1>1 DEF Before
  <1> QED BY <1>2, <1>3, <1>4

\* So the number of positions before one is its rank, and Arrange goes through
\* all of them in their order.
LEMMA ArrangeDoes ==
    ASSUME NEW s, NEW P \in SUBSET Nat, IsFiniteSet(P), NEW key \in [P -> Int]
    PROVE  \E p \in [1..Cardinality(P) -> P] :
              /\ Arrange(s, P, key) = [r \in 1..Cardinality(P) |-> s[p[r]]]
              /\ \A i \in P : \E r \in 1..Cardinality(P) : p[r] = i
              /\ \A r, t \in 1..Cardinality(P) : r < t => p[r] \in Before(P, key, p[t])
  <1> DEFINE card(i) == Cardinality(Before(P, key, i))
             size == Cardinality(P)
             rank == [i \in P |-> card(i) + 1]
  <1>0. size \in Nat
    BY FS_CardinalityType
  <1>1. ASSUME NEW i \in P PROVE IsFiniteSet(Before(P, key, i)) /\ card(i) \in Nat /\ card(i) < size
    <2>1. Before(P, key, i) \subseteq P /\ i \notin Before(P, key, i)
      BY BeforeOrders
    <2>2. IsFiniteSet(Before(P, key, i)) /\ card(i) <= size /\ card(i) # size
      BY <2>1, FS_Subset
    <2>3. card(i) \in Nat
      BY <2>2, FS_CardinalityType
    <2> QED BY <1>0, <2>2, <2>3
  <1>2. ASSUME NEW i \in P, NEW j \in P, i \in Before(P, key, j) PROVE card(i) < card(j)
    <2>1. Before(P, key, i) \subseteq Before(P, key, j) /\ i \notin Before(P, key, i)
      BY <1>2, BeforeOrders
    <2>2. card(i) <= card(j) /\ card(i) # card(j)
      BY <1>1, <1>2, <2>1, FS_Subset
    <2> QED BY <1>1, <2>2
  <1>3. ASSUME NEW i \in P, NEW j \in P, card(i) = card(j) PROVE i = j
    <2>1. card(i) \in Nat /\ card(j) \in Nat
      BY <1>1
    <2>2. i \notin Before(P, key, j) /\ j \notin Before(P, key, i)
      BY <1>2, <1>3, <2>1
    <2> QED BY <2>2, BeforeOrders
  <1> HIDE DEF card, size
  <1>4. rank \in [P -> 1..size]
    BY <1>0, <1>1
  <1>5. rank \in Injection(P, 1..size)
    <2>1. \A i, j \in P : rank[i] = rank[j] => i = j
      BY <1>1, <1>3
    <2> QED BY <1>4, <2>1 DEF Injection, IsInjective
  <1>6. IsFiniteSet(1..size) /\ Cardinality(1..size) = size
    BY <1>0, FS_Interval
  <1>7. rank \in Surjection(P, 1..size)
    BY <1>5, <1>6, FS_Injection DEF size
  <1>8. ASSUME NEW r \in 1..size PROVE \E i \in P : card(i) = r - 1
    <2>1. PICK i \in P : rank[i] = r
      BY <1>7 DEF Surjection
    <2> QED BY <2>1, <1>0, <1>1
  <1> DEFINE p == [r \in 1..size |-> CHOOSE i \in P : card(i) = r - 1]
  <1>9. ASSUME NEW r \in 1..size PROVE p[r] \in P /\ card(p[r]) = r - 1
    BY <1>8
  <1>10. p \in [1..size -> P]
    BY <1>9
  <1>11. Arrange(s, P, key) = [r \in 1..size |-> s[p[r]]]
    BY DEF Arrange, card, size
  <1> HIDE DEF p
  <1>12. ASSUME NEW i \in P PROVE \E r \in 1..size : p[r] = i
    <2>1. card(i) + 1 \in 1..size
      BY <1>0, <1>1
    <2>2. card(p[card(i) + 1]) = card(i) /\ p[card(i) + 1] \in P
      BY <1>1, <1>9, <2>1
    <2> QED BY <2>1, <2>2, <1>3
  <1>13. ASSUME NEW r \in 1..size, NEW t \in 1..size, r < t PROVE p[r] \in Before(P, key, p[t])
    <2>1. p[r] \in P /\ p[t] \in P /\ card(p[r]) = r - 1 /\ card(p[t]) = t - 1
      BY <1>9
    <2>2. p[r] # p[t]
      BY <1>0, <1>13, <2>1
    <2>3. p[t] \notin Before(P, key, p[r])
      <3>1. ~(card(p[t]) < card(p[r]))
        BY <1>0, <1>13, <2>1
      <3> QED BY <1>2, <2>1, <3>1
    <2> QED BY <2>1, <2>2, <2>3, BeforeOrders
  <1> QED BY <1>10, <1>11, <1>12, <1>13 DEF size

-----------------------------------------------------------------------------
(***************************************************************************)
(* The inductive invariant: the slice is sorted, and holds the virtual     *)
(* nodes of the members, each once.                                        *)
(***************************************************************************)

Increasing(s) == \A i, j \in DOMAIN s : i < j => s[i].Hash < s[j].Hash

OfMembers == ToSet(vnodes) = UNION {ToSet(NewVNodes(n)) : n \in nodeVNodes}

IInv ==
    /\ TypeOK
    /\ hash \in Hashes(virtualCount)
    /\ Increasing(vnodes)
    /\ OfMembers

LEMMA SeqFacts ==
    ASSUME NEW s \in Seq(VNode)
    PROVE  /\ Len(s) \in Nat /\ DOMAIN s = 1..Len(s)
           /\ DOMAIN s \in SUBSET Nat /\ IsFiniteSet(DOMAIN s) /\ Cardinality(DOMAIN s) = Len(s)
           /\ \A i \in DOMAIN s : /\ s[i] \in VNode /\ s[i].Hash \in Tokens /\ s[i].Hash \in Int
                                  /\ s[i].NodeID \in Nodes
  <1>1. Len(s) \in Nat /\ DOMAIN s = 1..Len(s)
    OBVIOUS
  <1>2. IsFiniteSet(1..Len(s)) /\ Cardinality(1..Len(s)) = Len(s)
    BY <1>1, FS_Interval
  <1>3. ASSUME NEW i \in DOMAIN s
        PROVE  s[i] \in VNode /\ s[i].Hash \in Tokens /\ s[i].Hash \in Int /\ s[i].NodeID \in Nodes
    <2>1. s[i] \in VNode
      BY <1>1
    <2>2. s[i].Hash \in Tokens /\ s[i].NodeID \in Nodes
      BY <2>1 DEF VNode
    <2> QED BY <2>1, <2>2, SpacePositive DEF Tokens
  <1> QED BY <1>1, <1>2, <1>3

\* The virtual nodes of n: one for each index, with the token of that index.
LEMMA NewVNodesAre ==
    ASSUME TypeOK, NEW n \in Nodes
    PROVE  /\ NewVNodes(n) \in Seq(VNode) /\ Len(NewVNodes(n)) = virtualCount
           /\ \A i \in 1..virtualCount :
                 /\ NewVNodes(n)[i].NodeID = n
                 /\ NewVNodes(n)[i].Hash = hash[n][i - 1]
                 /\ i - 1 \in 0..(virtualCount - 1)
  <1>1. virtualCount \in Nat /\ hash[n] \in [0..(virtualCount - 1) -> Tokens]
    BY RingConstants DEF TypeOK
  <1>2. ASSUME NEW i \in 1..virtualCount
        PROVE  /\ [Hash |-> hash[n][i - 1], NodeID |-> n, VNodeIdx |-> i - 1] \in VNode
               /\ i - 1 \in 0..(virtualCount - 1)
    <2>1. i - 1 \in 0..(virtualCount - 1) /\ i - 1 \in Nat
      BY <1>1
    <2>2. hash[n][i - 1] \in Tokens
      BY <1>1, <2>1
    <2> QED BY <2>1, <2>2 DEF VNode
  <1>3. NewVNodes(n) \in [1..virtualCount -> VNode]
    BY <1>2 DEF NewVNodes
  <1>4. NewVNodes(n) \in Seq(VNode) /\ Len(NewVNodes(n)) = virtualCount
    BY <1>1, <1>3
  <1> QED BY <1>2, <1>4 DEF NewVNodes

\* Tokens do not collide: virtual nodes with the same token are the same.
LEMMA NoCollision ==
    ASSUME TypeOK, hash \in Hashes(virtualCount), NEW m \in Nodes, NEW n \in Nodes,
           NEW i \in 1..virtualCount, NEW j \in 1..virtualCount,
           NewVNodes(m)[i].Hash = NewVNodes(n)[j].Hash
    PROVE  m = n /\ i = j
  <1>1. virtualCount \in Nat
    BY RingConstants DEF TypeOK
  <1>2. hash[m][i - 1] = hash[n][j - 1] /\ i - 1 \in 0..(virtualCount - 1) /\ j - 1 \in 0..(virtualCount - 1)
    BY NewVNodesAre
  <1>3. m = n /\ i - 1 = j - 1
    BY <1>2 DEF Hashes
  <1> QED BY <1>1, <1>3

\* A token of the slice is one of a member.
LEMMA SliceIs ==
    ASSUME IInv, NEW i \in DOMAIN vnodes
    PROVE  \E m \in nodeVNodes : \E k \in 1..virtualCount : vnodes[i] = NewVNodes(m)[k]
  <1>1. vnodes[i] \in UNION {ToSet(NewVNodes(m)) : m \in nodeVNodes}
    BY DEF IInv, OfMembers, ToSet
  <1>2. PICK m \in nodeVNodes : vnodes[i] \in ToSet(NewVNodes(m))
    BY <1>1
  <1>3. PICK k \in DOMAIN NewVNodes(m) : vnodes[i] = NewVNodes(m)[k]
    BY <1>2 DEF ToSet
  <1>4. DOMAIN NewVNodes(m) = 1..virtualCount
    BY DEF NewVNodes
  <1> QED BY <1>3, <1>4


-----------------------------------------------------------------------------
(***************************************************************************)
(* The two operations.                                                     *)
(***************************************************************************)

\* Sorting a slice whose tokens differ: the same virtual nodes, increasing.
LEMMA SortedDoes ==
    ASSUME NEW s \in Seq(VNode), \A i, j \in DOMAIN s : s[i].Hash = s[j].Hash => i = j
    PROVE  Sorted(s) \in Seq(VNode) /\ Increasing(Sorted(s)) /\ ToSet(Sorted(s)) = ToSet(s)
  <1> DEFINE P == DOMAIN s
             key == [i \in P |-> s[i].Hash]
             n == Cardinality(P)
  <1>0. /\ P \in SUBSET Nat /\ IsFiniteSet(P) /\ n \in Nat
        /\ \A i \in P : s[i] \in VNode /\ s[i].Hash \in Int
    BY SeqFacts
  <1>1. key \in [P -> Int]
    BY <1>0
  <1>2. PICK p \in [1..n -> P] :
            /\ Sorted(s) = [r \in 1..n |-> s[p[r]]]
            /\ \A i \in P : \E r \in 1..n : p[r] = i
            /\ \A r, t \in 1..n : r < t => p[r] \in Before(P, key, p[t])
    <2> HIDE DEF P, key
    <2>1. Sorted(s) = Arrange(s, P, key)
      BY DEF Sorted, P, key
    <2> QED BY <1>0, <1>1, <2>1, ArrangeDoes
  <1> HIDE DEF n
  <1>3. Sorted(s) \in Seq(VNode) /\ DOMAIN Sorted(s) = 1..n
    <2>1. Sorted(s) \in [1..n -> VNode]
      BY <1>0, <1>2
    <2> QED BY <1>0, <2>1
  <1>4. ASSUME NEW r \in 1..n, NEW t \in 1..n, r < t PROVE Sorted(s)[r].Hash < Sorted(s)[t].Hash
    <2>1. p[r] \in P /\ p[t] \in P /\ p[r] \in Before(P, key, p[t])
      BY <1>2, <1>4
    <2>2. \/ s[p[r]].Hash < s[p[t]].Hash
          \/ s[p[r]].Hash = s[p[t]].Hash /\ p[r] < p[t]
      BY <2>1 DEF Before
    <2>3. p[r] \in Nat /\ p[t] \in Nat
      BY <1>0, <2>1
    <2>4. s[p[r]].Hash < s[p[t]].Hash
      BY <2>1, <2>2, <2>3
    <2> QED BY <1>2, <2>4
  <1>5. ToSet(Sorted(s)) = ToSet(s)
    <2>1. ASSUME NEW v \in ToSet(Sorted(s)) PROVE v \in ToSet(s)
      BY <1>2, <1>3, <2>1 DEF ToSet
    <2>2. ASSUME NEW v \in ToSet(s) PROVE v \in ToSet(Sorted(s))
      <3>1. PICK i \in P : v = s[i]
        BY <2>2 DEF ToSet
      <3>2. PICK r \in 1..n : p[r] = i
        BY <1>2, <3>1
      <3> QED BY <1>2, <1>3, <3>1, <3>2 DEF ToSet
    <2> QED BY <2>1, <2>2
  <1> QED BY <1>3, <1>4, <1>5 DEF Increasing

\* Filtering an increasing slice: it stays so, and only the node's go.
LEMMA WithoutDoes ==
    ASSUME NEW s \in Seq(VNode), Increasing(s), NEW n
    PROVE  /\ Without(s, n) \in Seq(VNode) /\ Increasing(Without(s, n))
           /\ ToSet(Without(s, n)) = {v \in ToSet(s) : v.NodeID # n}
  <1> DEFINE P == {i \in DOMAIN s : s[i].NodeID # n}
             key == [i \in P |-> i]
             c == Cardinality(P)
  <1>0. /\ P \in SUBSET Nat /\ P \subseteq DOMAIN s /\ \A i \in P : s[i] \in VNode
        /\ IsFiniteSet(DOMAIN s)
    BY SeqFacts
  <1>1. key \in [P -> Int]
    BY <1>0
  <1>2. IsFiniteSet(P) /\ c \in Nat
    <2>1. IsFiniteSet(P)
      BY <1>0, FS_Subset
    <2> QED BY <2>1, FS_CardinalityType
  <1>3. PICK p \in [1..c -> P] :
            /\ Without(s, n) = [r \in 1..c |-> s[p[r]]]
            /\ \A i \in P : \E r \in 1..c : p[r] = i
            /\ \A r, t \in 1..c : r < t => p[r] \in Before(P, key, p[t])
    <2> HIDE DEF P, key
    <2>1. Without(s, n) = Arrange(s, P, key)
      BY DEF Without, P, key
    <2> QED BY <1>0, <1>1, <1>2, <2>1, ArrangeDoes
  <1> HIDE DEF c
  <1>4. Without(s, n) \in Seq(VNode) /\ DOMAIN Without(s, n) = 1..c
    <2>1. Without(s, n) \in [1..c -> VNode]
      BY <1>0, <1>3
    <2> QED BY <1>2, <2>1
  <1>5. ASSUME NEW r \in 1..c, NEW t \in 1..c, r < t PROVE Without(s, n)[r].Hash < Without(s, n)[t].Hash
    <2>1. p[r] \in P /\ p[t] \in P /\ p[r] \in Before(P, key, p[t])
      BY <1>3, <1>5
    <2>2. p[r] < p[t]
      BY <2>1 DEF Before
    <2>3. s[p[r]].Hash < s[p[t]].Hash
      BY <1>0, <2>1, <2>2 DEF Increasing
    <2> QED BY <1>3, <2>3
  <1>6. ASSUME NEW v \in ToSet(Without(s, n)) PROVE v \in ToSet(s) /\ v.NodeID # n
    BY <1>3, <1>4, <1>6 DEF ToSet
  <1>7. ASSUME NEW v \in ToSet(s), v.NodeID # n PROVE v \in ToSet(Without(s, n))
    <2>1. PICK i \in P : v = s[i]
      BY <1>7 DEF ToSet
    <2>2. PICK r \in 1..c : p[r] = i
      BY <1>3, <2>1
    <2> QED BY <1>3, <1>4, <2>1, <2>2 DEF ToSet
  <1>8. ToSet(Without(s, n)) = {v \in ToSet(s) : v.NodeID # n}
    BY <1>6, <1>7
  <1>9. Increasing(Without(s, n))
    BY <1>4, <1>5 DEF Increasing
  <1> QED BY <1>4, <1>8, <1>9

LEMMA AddNodeKeeps == ASSUME IInv, NEW n \in Nodes, AddNode(n) PROVE IInv'
  <1>0. TypeOK /\ hash \in Hashes(virtualCount) /\ vnodes \in Seq(VNode) /\ virtualCount \in Nat
        /\ nodeVNodes \subseteq Nodes
    BY RingConstants DEF IInv, TypeOK
  <1>1. n \notin nodeVNodes /\ UNCHANGED <<virtualCount, hash>> /\ nodeVNodes' = nodeVNodes \cup {n}
    BY DEF AddNode
  <1> DEFINE new == NewVNodes(n)
             s == vnodes \o new
  <1>2. new \in Seq(VNode) /\ Len(new) = virtualCount
    BY <1>0, NewVNodesAre
  <1>3. vnodes' = Sorted(s)
    BY DEF AddNode
  <1> HIDE DEF new
  <1>4. /\ s \in Seq(VNode) /\ DOMAIN s = 1..(Len(vnodes) + virtualCount)
        /\ Len(vnodes) \in Nat /\ DOMAIN vnodes = 1..Len(vnodes)
    BY <1>0, <1>2
  <1>5. ASSUME NEW i \in DOMAIN s
        PROVE  \/ i \in DOMAIN vnodes /\ s[i] = vnodes[i]
               \/ i - Len(vnodes) \in 1..virtualCount /\ s[i] = new[i - Len(vnodes)]
    BY <1>0, <1>2, <1>4
  <1> HIDE DEF s
  <1>6. ASSUME NEW i \in DOMAIN vnodes, NEW k \in 1..virtualCount PROVE vnodes[i].Hash # new[k].Hash
    <2>1. PICK m \in nodeVNodes : \E l \in 1..virtualCount : vnodes[i] = NewVNodes(m)[l]
      BY SliceIs
    <2>2. m # n /\ m \in Nodes
      BY <1>0, <1>1
    <2> QED BY <1>0, <2>1, <2>2, NoCollision DEF new
  <1>7. ASSUME NEW i \in DOMAIN s, NEW j \in DOMAIN s, s[i].Hash = s[j].Hash PROVE i = j
    <2>1. CASE i \in DOMAIN vnodes /\ j \in DOMAIN vnodes /\ s[i] = vnodes[i] /\ s[j] = vnodes[j]
      <3>1. vnodes[i].Hash \in Int /\ vnodes[j].Hash \in Int /\ i \in Nat /\ j \in Nat
        BY <1>0, <2>1, SeqFacts
      <3> QED BY <1>7, <2>1, <3>1 DEF IInv, Increasing
    <2>2. CASE /\ i - Len(vnodes) \in 1..virtualCount /\ s[i] = new[i - Len(vnodes)]
               /\ j - Len(vnodes) \in 1..virtualCount /\ s[j] = new[j - Len(vnodes)]
      <3>1. i - Len(vnodes) = j - Len(vnodes)
        BY <1>0, <1>7, <2>2, NoCollision DEF new
      <3> QED BY <1>4, <3>1
    <2> QED BY <1>5, <1>6, <1>7, <2>1, <2>2
  <1>8. vnodes' \in Seq(VNode) /\ Increasing(vnodes') /\ ToSet(vnodes') = ToSet(s)
    BY <1>3, <1>4, <1>7, SortedDoes
  <1>9. ToSet(s) = ToSet(vnodes) \cup ToSet(new)
    <2>1. ASSUME NEW v \in ToSet(s) PROVE v \in ToSet(vnodes) \cup ToSet(new)
      <3>1. PICK i \in DOMAIN s : v = s[i]
        BY <2>1 DEF ToSet
      <3>2. DOMAIN new = 1..virtualCount
        BY <1>0, <1>2
      <3> QED BY <1>5, <3>1, <3>2 DEF ToSet
    <2>2. ASSUME NEW i \in DOMAIN vnodes PROVE i \in DOMAIN s /\ s[i] = vnodes[i]
      BY <1>0, <1>2, <1>4 DEF s
    <2>3. ASSUME NEW k \in DOMAIN new PROVE k + Len(vnodes) \in DOMAIN s /\ s[k + Len(vnodes)] = new[k]
      BY <1>0, <1>2, <1>4 DEF s
    <2>4. ToSet(vnodes) \subseteq ToSet(s)
      BY <2>2 DEF ToSet
    <2>5. ToSet(new) \subseteq ToSet(s)
      BY <2>3 DEF ToSet
    <2> QED BY <2>1, <2>4, <2>5
  <1>10. \A m : NewVNodes(m)' = NewVNodes(m)
    BY <1>1 DEF NewVNodes
  <1>11. OfMembers'
    <2> DEFINE old == UNION {ToSet(NewVNodes(m)) : m \in nodeVNodes}
               all == UNION {ToSet(NewVNodes(m)) : m \in nodeVNodes'}
    <2>1. ASSUME NEW v \in all PROVE v \in old \cup ToSet(NewVNodes(n))
      BY <1>1, <2>1
    <2>2. ASSUME NEW v \in old \cup ToSet(NewVNodes(n)) PROVE v \in all
      BY <1>1, <2>2
    <2>3. ToSet(vnodes) = old
      BY DEF IInv, OfMembers
    <2> HIDE DEF old, all
    <2>4. ToSet(vnodes') = all
      BY <1>8, <1>9, <2>1, <2>2, <2>3 DEF new
    <2>5. ToSet(vnodes') = UNION {ToSet(NewVNodes(m)) : m \in nodeVNodes'}
      BY <2>4, Zenon DEF all
    <2> QED BY <1>10, <2>5 DEF OfMembers
  <1>12. TypeOK'
    BY <1>0, <1>1, <1>8 DEF TypeOK
  <1> QED BY <1>0, <1>1, <1>8, <1>11, <1>12 DEF IInv

LEMMA RemoveNodeKeeps == ASSUME IInv, NEW n \in Nodes, RemoveNode(n) PROVE IInv'
  <1>0. TypeOK /\ hash \in Hashes(virtualCount) /\ vnodes \in Seq(VNode) /\ nodeVNodes \subseteq Nodes
    BY DEF IInv, TypeOK
  <1>1. /\ UNCHANGED <<virtualCount, hash>> /\ nodeVNodes' = nodeVNodes \ {n}
        /\ vnodes' = Without(vnodes, n)
    BY DEF RemoveNode
  <1>2. /\ vnodes' \in Seq(VNode) /\ Increasing(vnodes')
        /\ ToSet(vnodes') = {v \in ToSet(vnodes) : v.NodeID # n}
    BY <1>0, <1>1, WithoutDoes DEF IInv
  <1>3. ASSUME NEW m \in nodeVNodes, NEW v \in ToSet(NewVNodes(m)) PROVE v.NodeID = m
    <2>1. PICK i \in DOMAIN NewVNodes(m) : v = NewVNodes(m)[i]
      BY <1>3 DEF ToSet
    <2>2. DOMAIN NewVNodes(m) = 1..virtualCount
      BY DEF NewVNodes
    <2> QED BY <1>0, <2>1, <2>2, NewVNodesAre
  <1>4. {v \in UNION {ToSet(NewVNodes(m)) : m \in nodeVNodes} : v.NodeID # n}
          = UNION {ToSet(NewVNodes(m)) : m \in nodeVNodes \ {n}}
    BY <1>3
  <1>5. \A m : NewVNodes(m)' = NewVNodes(m)
    BY <1>1 DEF NewVNodes
  <1>6. ToSet(vnodes') = UNION {ToSet(NewVNodes(m)) : m \in nodeVNodes'}
    BY <1>1, <1>2, <1>4 DEF IInv, OfMembers
  <1>7. OfMembers'
    BY <1>5, <1>6 DEF OfMembers
  <1>8. TypeOK'
    BY <1>0, <1>1, <1>2 DEF TypeOK
  <1> QED BY <1>0, <1>1, <1>2, <1>7, <1>8 DEF IInv

LEMMA Invariance == Spec => []IInv
  <1>1. Init => IInv
    <2> SUFFICES ASSUME Init PROVE IInv
      OBVIOUS
    <2>1. vnodes = <<>> /\ nodeVNodes = {} /\ hash \in Hashes(virtualCount) /\ virtualCount \in VirtualCounts
      BY DEF Init
    <2>2. TypeOK
      BY <2>1 DEF TypeOK, Hashes
    <2>3. DOMAIN vnodes = {}
      BY <2>1
    <2>4. OfMembers
      BY <2>1, <2>3 DEF OfMembers, ToSet
    <2> QED BY <2>1, <2>2, <2>3, <2>4 DEF IInv, Increasing
  <1>2. IInv /\ [Next]_vars => IInv'
    <2> SUFFICES ASSUME IInv, [Next]_vars PROVE IInv'
      OBVIOUS
    <2>1. CASE Next
      BY <2>1, AddNodeKeeps, RemoveNodeKeeps DEF Next
    <2>2. CASE UNCHANGED vars
      <3>1. TypeOK' /\ Increasing(vnodes') /\ (hash \in Hashes(virtualCount))'
        BY <2>2 DEF vars, IInv, TypeOK
      <3>2. \A m : NewVNodes(m)' = NewVNodes(m)
        BY <2>2 DEF vars, NewVNodes
      <3>3. OfMembers'
        BY <2>2, <3>2 DEF vars, IInv, OfMembers
      <3> QED BY <3>1, <3>3 DEF IInv
    <2> QED BY <2>1, <2>2
  <1> QED BY <1>1, <1>2, PTL DEF Spec

\* Types are kept: the slice holds virtual nodes only, whatever joins and leaves.
THEOREM TypeCorrect == Spec => []TypeOK
  <1>1. IInv => TypeOK
    BY DEF IInv
  <1> QED BY <1>1, Invariance, PTL

\* The ring is a function of its members: after any sequence of AddNode and
\* RemoveNode the slice is sorted, without a token twice, and holds the virtual
\* nodes of the members and no others.
THEOREM CanonicalSlice == Spec => []RingCanonical
  <1>1. ASSUME IInv PROVE RingCanonical
    <2>1. vnodes \in Seq(VNode)
      BY <1>1 DEF IInv, TypeOK
    <2>2. \A i \in 1..(Len(vnodes) - 1) : vnodes[i].Hash < vnodes[i + 1].Hash
      BY <1>1, <2>1 DEF IInv, Increasing
    <2> QED BY <1>1, <2>2 DEF IInv, OfMembers, RingCanonical
  <1> QED BY <1>1, Invariance, PTL

-----------------------------------------------------------------------------
(***************************************************************************)
(* Token ranges.                                                           *)
(***************************************************************************)

\* sort.Search finds the only position whose token is at or after h while the
\* one before it is not; past the last token it is the first.
LEMMA StartIdxDoes ==
    ASSUME IInv, vnodes # <<>>, NEW h \in Tokens
    PROVE  LET i == StartIdx(vnodes, h)
           IN  /\ i \in DOMAIN vnodes
               /\ \/ i = 1 /\ \A j \in DOMAIN vnodes : vnodes[j].Hash < h
                  \/ h <= vnodes[i].Hash /\ \A j \in DOMAIN vnodes : j < i => vnodes[j].Hash < h
  <1> DEFINE at == {i \in DOMAIN vnodes : vnodes[i].Hash >= h}
             i == StartIdx(vnodes, h)
  <1>0. vnodes \in Seq(VNode) /\ h \in Int
    BY SpacePositive DEF IInv, TypeOK, Tokens
  <1>1. /\ DOMAIN vnodes = 1..Len(vnodes) /\ Len(vnodes) \in Nat
        /\ \A j \in DOMAIN vnodes : vnodes[j].Hash \in Int
    BY <1>0, SeqFacts
  <1>2. Len(vnodes) > 0
    BY <1>0
  <1>3. CASE at = {}
    <2>1. i = 1
      BY <1>3 DEF StartIdx
    <2>2. \A j \in DOMAIN vnodes : vnodes[j].Hash < h
      BY <1>0, <1>1, <1>3
    <2> QED BY <1>1, <1>2, <2>1, <2>2
  <1>4. CASE at # {}
    <2>1. i = Min(at)
      BY <1>4 DEF StartIdx
    <2>2. at \in SUBSET Nat
      BY <1>1
    <2>3. i \in at /\ \A k \in at : i <= k
      BY <1>4, <2>1, <2>2, Smallest
    <2> HIDE DEF i
    <2>4. h <= vnodes[i].Hash /\ i \in DOMAIN vnodes
      BY <1>0, <1>1, <2>3
    <2>5. ASSUME NEW j \in DOMAIN vnodes, j < i PROVE vnodes[j].Hash < h
      <3>1. j \notin at
        BY <1>1, <2>3, <2>5
      <3> QED BY <1>0, <1>1, <3>1
    <2> QED BY <2>4, <2>5 DEF i
  <1> QED BY <1>3, <1>4

\* Where range j starts and what it holds, without the wrap around of uint64.
LEMMA RangeHolds ==
    ASSUME IInv, NEW j \in DOMAIN vnodes, NEW t \in Tokens
    PROVE  InRange(t, GetTokenRanges[j]) <=>
             IF j = 1 THEN t <= vnodes[1].Hash \/ vnodes[Len(vnodes)].Hash < t
             ELSE vnodes[j - 1].Hash < t /\ t <= vnodes[j].Hash
  <1> DEFINE k == IF j = 1 THEN Len(vnodes) ELSE j - 1
             a == vnodes[k].Hash
             b == vnodes[j].Hash
             r == GetTokenRanges[j]
  <1>0. vnodes \in Seq(VNode)
    BY DEF IInv, TypeOK
  <1>1. DOMAIN vnodes = 1..Len(vnodes) /\ Len(vnodes) \in Nat
    BY <1>0, SeqFacts
  <1>2. k \in DOMAIN vnodes
    BY <1>1
  <1>3. a \in 0..(Space - 1) /\ b \in 0..(Space - 1) /\ t \in 0..(Space - 1) /\ Space \in Nat \ {0}
    <2>1. a \in Tokens /\ b \in Tokens
      BY <1>0, <1>2, SeqFacts
    <2> QED BY <2>1, SpacePositive DEF Tokens
  <1>4. r.start = (a + 1) % Space /\ r.end = b
    BY DEF GetTokenRanges
  <1>5. IF j = 1 THEN b <= a ELSE a < b
    <2>1. CASE j = 1
      <3>1. k = j \/ (j < k /\ k \in DOMAIN vnodes)
        BY <1>1, <1>2, <2>1
      <3> QED BY <1>3, <2>1, <3>1 DEF IInv, Increasing
    <2>2. CASE j # 1
      BY <1>1, <1>2, <2>2 DEF IInv, Increasing
    <2> QED BY <2>1, <2>2
  <1> HIDE DEF r
  <1>6. CASE j = 1
    <2>1. k = Len(vnodes)
      BY <1>6
    <2>2. InRange(t, r) <=> t <= b \/ a < t
      <3> HIDE DEF a, b, k
      <3>1. CASE a = Space - 1
        <4>1. r.start = 0
          BY <1>3, <1>4, <3>1, ModFacts
        <4> QED BY <1>3, <1>4, <3>1, <4>1 DEF InRange
      <3>2. CASE a # Space - 1
        <4>0. a + 1 \in 0..Space /\ a + 1 # Space
          BY <1>3, <3>2
        <4>1. r.start = a + 1
          BY <1>3, <1>4, <4>0, ModFacts
        <4> QED BY <1>3, <1>4, <1>5, <1>6, <4>1 DEF InRange
      <3> QED BY <3>1, <3>2
    <2> QED BY <1>6, <2>1, <2>2 DEF r
  <1>7. CASE j # 1
    <2>1. k = j - 1
      BY <1>7
    <2>2. InRange(t, r) <=> a < t /\ t <= b
      <3> HIDE DEF a, b, k
      <3>0. a + 1 \in 0..Space /\ a + 1 # Space
        BY <1>3, <1>5, <1>7
      <3>1. r.start = a + 1
        BY <1>3, <1>4, <3>0, ModFacts
      <3> QED BY <1>3, <1>4, <1>5, <1>7, <3>1 DEF InRange
    <2> QED BY <1>7, <2>1, <2>2 DEF r
  <1> QED BY <1>6, <1>7

\* A token lies in the range of the position that sort.Search finds, and in no other.
LEMMA RangeOfToken ==
    ASSUME IInv, vnodes # <<>>, NEW t \in Tokens, NEW j \in DOMAIN vnodes
    PROVE  InRange(t, GetTokenRanges[j]) <=> j = StartIdx(vnodes, t)
  <1> DEFINE i == StartIdx(vnodes, t)
  <1>0. vnodes \in Seq(VNode) /\ t \in Int
    BY SpacePositive DEF IInv, TypeOK, Tokens
  <1>1. /\ DOMAIN vnodes = 1..Len(vnodes) /\ Len(vnodes) \in Nat
        /\ \A k \in DOMAIN vnodes : vnodes[k].Hash \in Int
    BY <1>0, SeqFacts
  <1>2. /\ i \in DOMAIN vnodes
        /\ \/ i = 1 /\ \A k \in DOMAIN vnodes : vnodes[k].Hash < t
           \/ t <= vnodes[i].Hash /\ \A k \in DOMAIN vnodes : k < i => vnodes[k].Hash < t
    BY StartIdxDoes
  <1> SUFFICES InRange(t, GetTokenRanges[j]) <=> j = i
    OBVIOUS
  <1> HIDE DEF i
  <1>3. \A l, k \in DOMAIN vnodes : l < k => vnodes[l].Hash < vnodes[k].Hash
    BY DEF IInv, Increasing
  <1>4. CASE j = 1
    <2>1. InRange(t, GetTokenRanges[j]) <=> t <= vnodes[1].Hash \/ vnodes[Len(vnodes)].Hash < t
      BY <1>4, RangeHolds
    <2>2. 1 \in DOMAIN vnodes /\ Len(vnodes) \in DOMAIN vnodes
      BY <1>1, <1>4
    <2>3. CASE i = 1
      BY <1>0, <1>1, <1>2, <1>4, <2>1, <2>2, <2>3
    <2>4. CASE i # 1
      <3>1. vnodes[1].Hash < t /\ t <= vnodes[i].Hash
        BY <1>1, <1>2, <2>2, <2>4
      <3>2. vnodes[i].Hash <= vnodes[Len(vnodes)].Hash
        <4>1. i = Len(vnodes) \/ i < Len(vnodes)
          BY <1>1, <1>2
        <4> QED BY <1>1, <1>2, <1>3, <2>2, <4>1
      <3> QED BY <1>0, <1>1, <1>2, <1>4, <2>1, <2>2, <2>4, <3>1, <3>2
    <2> QED BY <2>3, <2>4
  <1>5. CASE j # 1
    <2>1. InRange(t, GetTokenRanges[j]) <=> vnodes[j - 1].Hash < t /\ t <= vnodes[j].Hash
      BY <1>5, RangeHolds
    <2>2. j - 1 \in DOMAIN vnodes /\ j - 1 < j
      BY <1>1, <1>5
    <2>3. CASE j = i
      BY <1>0, <1>1, <1>2, <1>5, <2>1, <2>2, <2>3
    <2>4. CASE j < i
      <3>1. vnodes[j].Hash < t
        BY <1>1, <1>2, <2>4
      <3> QED BY <1>0, <1>1, <2>1, <2>4, <3>1
    <2>5. CASE i < j
      <3>1. i = j - 1 \/ i < j - 1
        BY <1>1, <1>2, <2>5
      <3>2. vnodes[i].Hash <= vnodes[j - 1].Hash /\ vnodes[i].Hash < vnodes[j].Hash
        BY <1>1, <1>2, <1>3, <2>2, <2>5, <3>1
      <3> QED BY <1>0, <1>1, <1>2, <2>1, <2>2, <2>5, <3>2
    <2> QED BY <1>1, <1>2, <2>3, <2>4, <2>5
  <1> QED BY <1>4, <1>5

\* The ranges of GetTokenRanges partition the tokens and belong to the nodes that
\* GetNode finds, on every ring: the wrapped range, a ring of one token and a
\* token at the very end of the space included.
THEOREM RangesAreOwners == Spec => []RangesMatchOwners
  <1>1. ASSUME IInv, vnodes # <<>>, NEW t \in Tokens
        PROVE  \E i \in DOMAIN vnodes :
                  /\ GetTokenRanges[i].node = GetNode(t)
                  /\ \A j \in DOMAIN vnodes : InRange(t, GetTokenRanges[j]) <=> j = i
    <2> DEFINE i == StartIdx(vnodes, t)
    <2>1. i \in DOMAIN vnodes
      BY <1>1, StartIdxDoes
    <2>2. GetTokenRanges[i].node = GetNode(t)
      BY <2>1 DEF GetTokenRanges, GetNode
    <2>3. \A j \in DOMAIN vnodes : InRange(t, GetTokenRanges[j]) <=> j = i
      BY <1>1, RangeOfToken
    <2> QED BY <2>1, <2>2, <2>3
  <1>2. IInv => RangesMatchOwners
    BY <1>1 DEF RangesMatchOwners
  <1> QED BY <1>2, Invariance, PTL

-----------------------------------------------------------------------------
(***************************************************************************)
(* The loops over the ring.                                                *)
(***************************************************************************)

\* The positions of a walk that Distinct takes an id from: those where an id
\* outside "seen" is met for the first time.
Fresh(walk, seen) ==
    {i \in DOMAIN walk : walk[i] \notin seen /\ \A j \in 1..(i - 1) : walk[j] # walk[i]}

\* How many of the positions P are at most i, and the k-th of them.
Count(P, i) == Cardinality({j \in P : j <= i})

Kth(P, k) == CHOOSE j \in P : Count(P, j) = k

\* One position further, there is one more of them, or not.
LEMMA CountSteps ==
    ASSUME NEW P \in SUBSET (Nat \ {0}), NEW i \in Nat
    PROVE  /\ Count(P, i) \in Nat
           /\ Count(P, 0) = 0
           /\ Count(P, i + 1) = IF i + 1 \in P THEN Count(P, i) + 1 ELSE Count(P, i)
  <1> DEFINE U(k) == {j \in P : j <= k}
  <1>0. \A j \in P : j \in Nat /\ j # 0
    OBVIOUS
  <1>1. ASSUME NEW k \in Nat PROVE IsFiniteSet(U(k))
    BY FS_BoundedSetOfNaturals
  <1>2. Count(P, i) \in Nat
    BY <1>1, FS_CardinalityType DEF Count
  <1>3. Count(P, 0) = 0
    <2>1. \A j \in P : ~(j <= 0)
      BY <1>0
    <2>2. U(0) = {}
      BY <2>1
    <2> QED BY <2>2, FS_EmptySet DEF Count
  <1>4. CASE i + 1 \in P
    <2>1. U(i + 1) = U(i) \cup {i + 1} /\ i + 1 \notin U(i)
      <3>1. \A j \in P : j <= i + 1 <=> j <= i \/ j = i + 1
        BY <1>0
      <3>2. i + 1 <= i + 1 /\ ~(i + 1 <= i)
        OBVIOUS
      <3> QED BY <1>4, <3>1, <3>2, Zenon
    <2>2. Cardinality(U(i) \cup {i + 1}) = Cardinality(U(i)) + 1
      <3> HIDE DEF U
      <3> QED BY <1>1, <2>1, FS_AddElement
    <2> QED BY <1>2, <1>3, <1>4, <2>1, <2>2 DEF Count
  <1>5. CASE i + 1 \notin P
    <2>1. U(i + 1) = U(i)
      <3>1. \A j \in P : j <= i + 1 <=> j <= i
        BY <1>0, <1>5
      <3> QED BY <3>1
    <2> QED BY <1>2, <1>3, <1>5, <2>1 DEF Count
  <1> QED BY <1>4, <1>5

\* Counting grows with the bound, and strictly so at a position of P.
LEMMA CountGrows ==
    ASSUME NEW P \in SUBSET (Nat \ {0}), NEW i \in Nat, NEW j \in Nat, i <= j
    PROVE  /\ Count(P, i) <= Count(P, j)
           /\ i < j /\ j \in P => Count(P, i) < Count(P, j)
  <1> DEFINE U(k) == {l \in P : l <= k}
  <1>1. IsFiniteSet(U(j))
    BY FS_BoundedSetOfNaturals
  <1>2. U(i) \subseteq U(j)
    <2>1. \A l \in P : l <= i => l <= j
      <3>1. \A l \in P : l \in Nat
        OBVIOUS
      <3> QED BY <3>1
    <2> QED BY <2>1
  <1>3. i < j /\ j \in P => j \in U(j) /\ j \notin U(i)
    OBVIOUS
  <1>4. Count(P, i) = Cardinality(U(i)) /\ Count(P, j) = Cardinality(U(j))
    BY DEF Count
  <1>5. Count(P, i) \in Nat /\ Count(P, j) \in Nat
    BY CountSteps
  <1> HIDE DEF U
  <1>6. Cardinality(U(i)) <= Cardinality(U(j)) /\ (Cardinality(U(i)) = Cardinality(U(j)) => U(i) = U(j))
    BY <1>1, <1>2, FS_Subset
  <1> QED BY <1>3, <1>4, <1>5, <1>6

\* Counting up to a position numbers it.
LEMMA KthOfCount ==
    ASSUME NEW P \in SUBSET (Nat \ {0}), NEW j \in P
    PROVE  Kth(P, Count(P, j)) = j /\ Count(P, j) \in Nat \ {0}
  <1>1. ASSUME NEW i \in P, Count(P, i) = Count(P, j) PROVE i = j
    <2>1. i \in Nat /\ j \in Nat /\ Count(P, i) \in Nat /\ Count(P, j) \in Nat
      BY CountSteps
    <2>2. CASE i < j
      BY <1>1, <2>1, <2>2, CountGrows
    <2>3. CASE j < i
      BY <1>1, <2>1, <2>3, CountGrows
    <2> QED BY <2>1, <2>2, <2>3
  <1>2. Count(P, j) \in Nat \ {0}
    <2>1. j \in Nat \ {0} /\ j - 1 \in Nat /\ (j - 1) + 1 = j
      OBVIOUS
    <2>2. Count(P, j - 1) \in Nat /\ Count(P, j) = Count(P, j - 1) + 1
      BY <2>1, CountSteps
    <2> QED BY <2>2
  <1> QED BY <1>1, <1>2 DEF Kth

\* Every number up to the count is the number of a position.
LEMMA KthIs ==
    ASSUME NEW P \in SUBSET (Nat \ {0}), NEW i \in Nat, NEW k \in 1..Count(P, i)
    PROVE  Kth(P, k) \in P /\ Kth(P, k) <= i /\ Count(P, Kth(P, k)) = k
  <1> DEFINE T == {l \in Nat : Count(P, l) >= k}
  <1>0. \A l \in Nat : Count(P, l) \in Nat
    BY CountSteps
  <1>1. i \in T /\ T \in SUBSET Nat
    BY <1>0
  <1>2. PICK m \in T : \A l \in T : m <= l
    <2>1. Min(T) \in T /\ \A l \in T : Min(T) <= l
      <3> HIDE DEF T
      <3> QED BY <1>1, Smallest
    <2> QED BY <2>1
  <1>3. m # 0
    BY <1>0, <1>2, CountSteps
  <1>4. m - 1 \in Nat /\ (m - 1) + 1 = m /\ m - 1 \notin T
    BY <1>1, <1>2, <1>3
  <1>5. Count(P, m) = IF m \in P THEN Count(P, m - 1) + 1 ELSE Count(P, m - 1)
    BY <1>4, CountSteps
  <1>6. m \in P /\ Count(P, m) = k
    BY <1>0, <1>2, <1>4, <1>5
  <1>7. Kth(P, k) = m
    BY <1>6, KthOfCount
  <1> QED BY <1>1, <1>2, <1>6, <1>7

\* The first of the places where an id is met.
LEMMA FirstMet ==
    ASSUME NEW S, NEW walk \in Seq(S), NEW seen, NEW i \in DOMAIN walk, walk[i] \notin seen
    PROVE  \E j \in Fresh(walk, seen) : j <= i /\ walk[j] = walk[i]
  <1> DEFINE T == {j \in DOMAIN walk : walk[j] = walk[i]}
  <1>0. DOMAIN walk = 1..Len(walk) /\ Len(walk) \in Nat
    OBVIOUS
  <1>1. T \in SUBSET Nat /\ i \in T
    BY <1>0
  <1>2. PICK m \in T : \A l \in T : m <= l
    <2>1. Min(T) \in T /\ \A l \in T : Min(T) <= l
      <3> HIDE DEF T
      <3> QED BY <1>1, Smallest
    <2> QED BY <2>1
  <1>3. ASSUME NEW j \in 1..(m - 1) PROVE walk[j] # walk[m]
    <2>1. j \in DOMAIN walk /\ ~(m <= j)
      BY <1>0, <1>2
    <2> QED BY <1>2, <2>1
  <1>4. m \in Fresh(walk, seen)
    BY <1>2, <1>3 DEF Fresh
  <1> QED BY <1>1, <1>2, <1>4

Lesser(a, b) == IF a < b THEN a ELSE b

\* The ids at the positions P in their order, cut off after n.
Collected(walk, P, n) == [k \in 1..Lesser(Count(P, Len(walk)), n) |-> walk[Kth(P, k)]]

\* What the loops collect: the ids at the fresh positions.
LEMMA DistinctIs ==
    ASSUME NEW S, NEW walk \in Seq(S), NEW n \in Nat, NEW seen
    PROVE  Distinct(walk, n, seen) = Collected(walk, Fresh(walk, seen), n)
  <1> DEFINE P == Fresh(walk, seen)
             L == Len(walk)
             size(i) == Lesser(Count(P, i), n)
             take(i) == [k \in 1..size(i) |-> walk[Kth(P, k)]]
             step(found, i) == IF Len(found) < n /\ walk[i] \notin seen \cup ToSet(found)
                               THEN Append(found, walk[i]) ELSE found
             body(f) == [i \in 0..L |-> IF i = 0 THEN <<>> ELSE step(f[i - 1], i)]
             ids == CHOOSE f : f = body(f)
  <1>0. DOMAIN walk = 1..L /\ L \in Nat
    OBVIOUS
  <1>1. P \in SUBSET (Nat \ {0}) /\ P \subseteq 1..L
    BY <1>0 DEF Fresh
  <1>2. ASSUME NEW i \in Nat
        PROVE  /\ Count(P, i) \in Nat /\ size(i) \in Nat
               /\ take(i) \in Seq(S) /\ Len(take(i)) = size(i) /\ DOMAIN take(i) = 1..size(i)
    <2> HIDE DEF P
    <2>1. Count(P, i) \in Nat
      BY <1>1, CountSteps
    <2>2. size(i) \in Nat /\ size(i) <= Count(P, i)
      BY <2>1 DEF Lesser
    <2>3. ASSUME NEW k \in 1..size(i) PROVE walk[Kth(P, k)] \in S
      <3>1. k \in 1..Count(P, i)
        BY <2>1, <2>2
      <3>2. Kth(P, k) \in DOMAIN walk
        BY <1>0, <1>1, <3>1, KthIs
      <3> QED BY <3>2
    <2> HIDE DEF size
    <2>4. take(i) \in Seq(S) /\ Len(take(i)) = size(i)
      BY <2>2, <2>3
    <2> QED BY <2>1, <2>2, <2>4
  <1>3. take(0) = <<>>
    <2>1. size(0) = 0
      BY <1>1, CountSteps DEF Lesser
    <2> HIDE DEF size
    <2> QED BY <2>1
  <1>4. ASSUME NEW i \in 1..L PROVE step(take(i - 1), i) = take(i)
    <2> DEFINE d == take(i - 1)
    <2>0. i - 1 \in Nat /\ (i - 1) + 1 = i /\ i \in Nat /\ i \in DOMAIN walk
      BY <1>0
    <2>1. Count(P, i) = IF i \in P THEN Count(P, i - 1) + 1 ELSE Count(P, i - 1)
      <3> HIDE DEF P
      <3>1. Count(P, (i - 1) + 1) = IF (i - 1) + 1 \in P THEN Count(P, i - 1) + 1 ELSE Count(P, i - 1)
        BY <1>1, <2>0, CountSteps
      <3> QED BY <2>0, <3>1
    <2>2. /\ d \in Seq(S) /\ Len(d) = size(i - 1) /\ DOMAIN d = 1..size(i - 1)
          /\ Count(P, i - 1) \in Nat /\ size(i - 1) \in Nat
      BY <1>2, <2>0
    <2>3. ASSUME NEW k \in 1..size(i - 1)
          PROVE  Kth(P, k) \in P /\ Kth(P, k) <= i - 1 /\ d[k] = walk[Kth(P, k)]
      <3>1. k \in 1..Count(P, i - 1)
        BY <2>2 DEF Lesser
      <3> HIDE DEF P, size
      <3> QED BY <1>1, <2>0, <3>1, KthIs
    <2>4. CASE i \in P /\ Count(P, i - 1) < n
      <3>1. size(i - 1) = Count(P, i - 1) /\ size(i) = size(i - 1) + 1
        BY <2>1, <2>2, <2>4 DEF Lesser
      <3>2. walk[i] \notin seen
        BY <2>4 DEF Fresh
      <3>3. walk[i] \notin ToSet(d)
        <4> SUFFICES ASSUME NEW k \in 1..size(i - 1), walk[i] = d[k] PROVE FALSE
          BY <2>2 DEF ToSet
        <4>1. Kth(P, k) \in 1..(i - 1) /\ walk[Kth(P, k)] = walk[i]
          BY <1>1, <2>0, <2>3
        <4> HIDE DEF d
        <4> QED BY <2>4, <4>1 DEF Fresh
      <3>4. Kth(P, size(i)) = i
        BY <1>1, <2>1, <2>2, <2>4, <3>1, KthOfCount
      <3>5. step(d, i) = Append(d, walk[i])
        <4> HIDE DEF d, P, size
        <4> QED BY <2>2, <2>4, <3>1, <3>2, <3>3
      <3>6. Append(d, walk[i]) = take(i)
        <4> HIDE DEF P, size
        <4>1. /\ Append(d, walk[i]) \in Seq(S) /\ take(i) \in Seq(S)
              /\ Len(Append(d, walk[i])) = size(i - 1) + 1 /\ Len(take(i)) = size(i)
          BY <1>2, <2>0, <2>2
        <4>2. ASSUME NEW k \in 1..size(i) PROVE Append(d, walk[i])[k] = take(i)[k]
          <5>1. CASE k = size(i)
            BY <2>2, <3>1, <3>4, <5>1
          <5>2. CASE k # size(i)
            <6>1. k \in 1..size(i - 1)
              BY <2>2, <3>1, <5>2
            <6>2. d[k] = walk[Kth(P, k)] /\ take(i)[k] = walk[Kth(P, k)]
              BY <2>3, <6>1
            <6> HIDE DEF d
            <6> QED BY <2>2, <6>1, <6>2
          <5> QED BY <5>1, <5>2
        <4> HIDE DEF d, take
        <4> QED BY <3>1, <4>1, <4>2
      <3> QED BY <3>5, <3>6
    <2>5. CASE i \notin P /\ Count(P, i - 1) < n
      <3>1. size(i) = size(i - 1) /\ size(i - 1) = Count(P, i - 1)
        BY <2>1, <2>2, <2>5 DEF Lesser
      <3>2. take(i) = d
        <4> HIDE DEF size
        <4> QED BY <3>1
      <3>3. walk[i] \in seen \cup ToSet(d)
        <4> SUFFICES ASSUME walk[i] \notin seen PROVE walk[i] \in ToSet(d)
          OBVIOUS
        <4>1. PICK j \in P : j <= i /\ walk[j] = walk[i]
          <5> HIDE DEF take
          <5> QED BY <2>0, FirstMet
        <4>2. j <= i - 1 /\ j \in Nat
          BY <1>1, <2>0, <2>5, <4>1
        <4> HIDE DEF P, size
        <4>3. Kth(P, Count(P, j)) = j /\ Count(P, j) \in Nat \ {0} /\ Count(P, j) <= Count(P, i - 1)
          BY <1>1, <2>0, <4>2, KthOfCount, CountGrows
        <4>4. Count(P, j) \in 1..size(i - 1)
          BY <2>2, <3>1, <4>3
        <4>5. d[Count(P, j)] = walk[i]
          BY <2>3, <4>1, <4>3, <4>4
        <4> HIDE DEF d
        <4> QED BY <2>2, <4>4, <4>5 DEF ToSet
      <3> HIDE DEF d
      <3> QED BY <3>2, <3>3 DEF d
    <2>6. CASE n <= Count(P, i - 1)
      <3>1. size(i) = n /\ size(i - 1) = n
        BY <2>1, <2>2, <2>6 DEF Lesser
      <3>2. take(i) = d
        <4> HIDE DEF size
        <4> QED BY <3>1
      <3>3. step(d, i) = d
        <4> HIDE DEF d
        <4> QED BY <2>2, <3>1
      <3> QED BY <3>2, <3>3
    <2> QED BY <2>2, <2>4, <2>5, <2>6
  <1>5. Distinct(walk, n, seen) = ids[L]
    BY DEF Distinct
  <1> DEFINE g == [i \in 0..L |-> take(i)]
  <1>6. g = body(g)
    <2> HIDE DEF take, step
    <2>1. ASSUME NEW i \in 0..L PROVE g[i] = IF i = 0 THEN <<>> ELSE step(g[i - 1], i)
      <3>1. CASE i = 0
        BY <1>3, <3>1
      <3>2. CASE i # 0
        <4>1. i \in 1..L /\ i - 1 \in 0..L
          BY <1>0, <3>2
        <4> QED BY <1>4, <3>2, <4>1
      <3> QED BY <3>1, <3>2
    <2> QED BY <2>1
  <1>7. ids = body(ids)
    <2> HIDE DEF g, body
    <2> QED BY <1>6
  <1> HIDE DEF ids
  <1>8. \A i \in 0..L : ids[i] = take(i)
    <2> DEFINE T == {i \in 0..L : ids[i] # take(i)}
    <2> SUFFICES ASSUME T # {} PROVE FALSE
      OBVIOUS
    <2> HIDE DEF take, step
    <2>1. PICK m \in T : \A l \in T : m <= l
      <3>1. T \in SUBSET Nat
        BY <1>0
      <3>2. Min(T) \in T /\ \A l \in T : Min(T) <= l
        <4> HIDE DEF T
        <4> QED BY <3>1, Smallest
      <3> QED BY <3>2
    <2>2. m # 0
      BY <1>3, <1>7, <2>1
    <2>3. m \in 1..L /\ m - 1 \in 0..L /\ m - 1 \notin T
      BY <1>0, <2>1, <2>2
    <2>4. ids[m] = step(ids[m - 1], m)
      BY <1>7, <2>2, <2>3
    <2>5. ids[m - 1] = take(m - 1)
      BY <2>3
    <2> QED BY <1>4, <2>1, <2>3, <2>4, <2>5
  <1> HIDE DEF take
  <1>9. Distinct(walk, n, seen) = take(L)
    BY <1>0, <1>5, <1>8
  <1> QED BY <1>9 DEF take, Collected

\* The remainder of a number at most one turn away.
LEMMA ModWrap ==
    ASSUME NEW s \in Nat \ {0}, NEW a \in (-s)..(2 * s - 1)
    PROVE  a % s = IF a < 0 THEN a + s ELSE IF a < s THEN a ELSE a - s
  OBVIOUS

\* A bijection keeps the number of elements.
LEMMA SameSize ==
    ASSUME NEW A, NEW B, IsFiniteSet(A), NEW f \in [A -> B],
           \A x, y \in A : f[x] = f[y] => x = y, \A b \in B : \E a \in A : f[a] = b
    PROVE  IsFiniteSet(B) /\ Cardinality(B) = Cardinality(A)
  <1>1. f \in Bijection(A, B)
    BY DEF Bijection, Injection, IsInjective, Surjection
  <1>2. ExistsBijection(A, B)
    BY <1>1 DEF ExistsBijection
  <1> QED BY <1>2, FS_Bijection

\* The element of the slice that a walk is at after i - 1 steps, forwards and
\* backwards.
Ahead(from, i) == IF from + i - 1 <= Len(vnodes) THEN from + i - 1 ELSE from + i - 1 - Len(vnodes)
Back(from, i) == IF i <= from THEN from - i + 1 ELSE from - i + 1 + Len(vnodes)

\* A walk around the ring, either way, has a node id for each virtual node.
LEMMA WalkIs ==
    ASSUME IInv, NEW from \in DOMAIN vnodes
    PROVE  /\ Walk(vnodes, from, 1) \in Seq(Nodes) /\ Walk(vnodes, from, -1) \in Seq(Nodes)
           /\ Len(Walk(vnodes, from, 1)) = Len(vnodes) /\ Len(Walk(vnodes, from, -1)) = Len(vnodes)
           /\ DOMAIN Walk(vnodes, from, 1) = 1..Len(vnodes)
           /\ DOMAIN Walk(vnodes, from, -1) = 1..Len(vnodes)
           /\ \A i \in 1..Len(vnodes) :
                 /\ Ahead(from, i) \in DOMAIN vnodes /\ Back(from, i) \in DOMAIN vnodes
                 /\ Walk(vnodes, from, 1)[i] = vnodes[Ahead(from, i)].NodeID
                 /\ Walk(vnodes, from, -1)[i] = vnodes[Back(from, i)].NodeID
  <1> DEFINE L == Len(vnodes)
  <1>0. vnodes \in Seq(VNode)
    BY DEF IInv, TypeOK
  <1>1. L \in Nat /\ DOMAIN vnodes = 1..L /\ L # 0 /\ \A j \in DOMAIN vnodes : vnodes[j].NodeID \in Nodes
    BY <1>0, SeqFacts
  <1> HIDE DEF L
  <1>2. ASSUME NEW i \in 1..L
        PROVE  /\ Ahead(from, i) \in DOMAIN vnodes /\ Back(from, i) \in DOMAIN vnodes
               /\ ((from - 1 + 1 * (i - 1)) % L) + 1 = Ahead(from, i)
               /\ ((from - 1 + (-1) * (i - 1)) % L) + 1 = Back(from, i)
    <2>1. from - 1 + 1 * (i - 1) = from + i - 2 /\ from - 1 + (-1) * (i - 1) = from - i
      BY <1>1
    <2> DEFINE a == from + i - 2
               b == from - i
    <2>2. a \in (-L)..(2 * L - 1) /\ b \in (-L)..(2 * L - 1) /\ a >= 0 /\ b < L
      BY <1>1
    <2> HIDE DEF a, b
    <2>3. /\ a % L = IF a < L THEN a ELSE a - L
          /\ b % L = IF b < 0 THEN b + L ELSE b
      <3>1. a % L = IF a < 0 THEN a + L ELSE IF a < L THEN a ELSE a - L
        BY <1>1, <2>2, ModWrap
      <3>2. b % L = IF b < 0 THEN b + L ELSE IF b < L THEN b ELSE b - L
        BY <1>1, <2>2, ModWrap
      <3> QED BY <1>1, <2>2, <3>1, <3>2
    <2>4. Ahead(from, i) \in DOMAIN vnodes /\ Back(from, i) \in DOMAIN vnodes
      BY <1>1 DEF Ahead, Back, L
    <2>5. /\ (IF a < L THEN a ELSE a - L) + 1 = Ahead(from, i)
          /\ (IF b < 0 THEN b + L ELSE b) + 1 = Back(from, i)
      BY <1>1 DEF Ahead, Back, L, a, b
    <2>6. (a % L) + 1 = Ahead(from, i) /\ (b % L) + 1 = Back(from, i)
      BY <2>3, <2>5
    <2> QED BY <2>1, <2>4, <2>6 DEF a, b
  <1>3. /\ Walk(vnodes, from, 1) = [i \in 1..L |-> vnodes[Ahead(from, i)].NodeID]
        /\ Walk(vnodes, from, -1) = [i \in 1..L |-> vnodes[Back(from, i)].NodeID]
    BY <1>2 DEF Walk, L
  <1>4. Walk(vnodes, from, 1) \in [1..L -> Nodes] /\ Walk(vnodes, from, -1) \in [1..L -> Nodes]
    BY <1>1, <1>2, <1>3
  <1>5. /\ Walk(vnodes, from, 1) \in Seq(Nodes) /\ Walk(vnodes, from, -1) \in Seq(Nodes)
        /\ Len(Walk(vnodes, from, 1)) = L /\ Len(Walk(vnodes, from, -1)) = L
    BY <1>1, <1>4
  <1> QED BY <1>2, <1>3, <1>4, <1>5 DEF L

\* A walk forwards visits every element of the slice, once.
LEMMA AheadVisits ==
    ASSUME IInv, NEW from \in DOMAIN vnodes
    PROVE  /\ \A j \in DOMAIN vnodes : \E i \in 1..Len(vnodes) : Ahead(from, i) = j
           /\ \A i, k \in 1..Len(vnodes) : Ahead(from, i) = Ahead(from, k) => i = k
  <1>0. vnodes \in Seq(VNode)
    BY DEF IInv, TypeOK
  <1>1. Len(vnodes) \in Nat /\ DOMAIN vnodes = 1..Len(vnodes)
    BY <1>0, SeqFacts
  <1>2. ASSUME NEW j \in DOMAIN vnodes PROVE \E i \in 1..Len(vnodes) : Ahead(from, i) = j
    <2> DEFINE i == IF from <= j THEN j - from + 1 ELSE j - from + 1 + Len(vnodes)
    <2>1. i \in 1..Len(vnodes) /\ Ahead(from, i) = j
      BY <1>1 DEF Ahead
    <2> QED BY <2>1
  <1>3. ASSUME NEW i \in 1..Len(vnodes), NEW k \in 1..Len(vnodes), Ahead(from, i) = Ahead(from, k)
        PROVE  i = k
    BY <1>1, <1>3 DEF Ahead
  <1> QED BY <1>2, <1>3

\* How far clockwise from h the i-th element of the walk is.
Offset(h, i) == (vnodes[Ahead(StartIdx(vnodes, h), i)].Hash - h) % Space

\* The walk of GetNodes meets the tokens in the order of their distance.
LEMMA OffsetsGrow ==
    ASSUME IInv, vnodes # <<>>, NEW h \in Tokens
    PROVE  /\ \A i \in 1..Len(vnodes) : Offset(h, i) \in Nat
           /\ \A i, j \in 1..Len(vnodes) : i < j => Offset(h, i) < Offset(h, j)
  <1> DEFINE s == StartIdx(vnodes, h)
             tok(i) == vnodes[i].Hash
             L == Len(vnodes)
  <1>0. vnodes \in Seq(VNode) /\ h \in 0..(Space - 1) /\ Space \in Nat \ {0}
    BY SpacePositive DEF IInv, TypeOK, Tokens
  <1>1. L \in Nat /\ DOMAIN vnodes = 1..L /\ \A j \in DOMAIN vnodes : tok(j) \in 0..(Space - 1)
    BY <1>0, SeqFacts DEF Tokens
  <1>2. /\ s \in 1..L
        /\ \/ s = 1 /\ \A j \in DOMAIN vnodes : tok(j) < h
           \/ h <= tok(s) /\ \A j \in DOMAIN vnodes : j < s => tok(j) < h
    BY <1>1, StartIdxDoes
  <1>3. \A i, j \in 1..L : i < j => tok(i) < tok(j)
    BY <1>1 DEF IInv, Increasing
  <1>4. \A i \in 1..L : Ahead(s, i) \in 1..L
    BY <1>1, <1>2, WalkIs
  <1>5. \A i \in 1..L : Offset(h, i) = (tok(Ahead(s, i)) - h) % Space
    BY DEF Offset
  <1> HIDE DEF s, tok, L
  <1>6. ASSUME NEW i \in 1..L
        PROVE  (tok(i) - h) % Space = IF tok(i) < h THEN tok(i) - h + Space ELSE tok(i) - h
    <2>1. tok(i) \in 0..(Space - 1)
      BY <1>1
    <2>2. tok(i) - h \in (-Space)..(2 * Space - 1) /\ tok(i) - h < Space
      BY <1>0, <2>1
    <2>3. (tok(i) - h) % Space = IF tok(i) - h < 0 THEN tok(i) - h + Space ELSE tok(i) - h
      BY <1>0, <2>2, ModWrap
    <2> QED BY <1>0, <2>1, <2>3
  <1>7. ASSUME NEW i \in 1..L PROVE Offset(h, i) \in Nat
    <2>1. Ahead(s, i) \in 1..L /\ tok(Ahead(s, i)) \in 0..(Space - 1)
      BY <1>1, <1>4
    <2> QED BY <1>0, <1>5, <1>6, <2>1
  <1>8. ASSUME NEW i \in 1..L, NEW j \in 1..L, i < j PROVE Offset(h, i) < Offset(h, j)
    <2> DEFINE a == Ahead(s, i)
               b == Ahead(s, j)
    <2>1. /\ a \in 1..L /\ tok(a) \in 0..(Space - 1)
          /\ b \in 1..L /\ tok(b) \in 0..(Space - 1)
      BY <1>1, <1>4
    <2>2. \/ s <= a /\ a < b
          \/ b < s /\ s <= a
          \/ a < b /\ b < s
      BY <1>1, <1>2, <1>8 DEF Ahead, L
    <2>3. /\ Offset(h, i) = IF tok(a) < h THEN tok(a) - h + Space ELSE tok(a) - h
          /\ Offset(h, j) = IF tok(b) < h THEN tok(b) - h + Space ELSE tok(b) - h
      BY <1>5, <1>6, <2>1
    <2> HIDE DEF a, b
    <2>4. CASE s <= a /\ a < b
      <3>1. tok(a) < tok(b)
        BY <1>3, <2>1, <2>4
      <3>2. (tok(a) < h <=> tok(b) < h)
        <4>1. CASE s = 1 /\ \A l \in DOMAIN vnodes : tok(l) < h
          BY <1>1, <2>1, <4>1
        <4>2. CASE h <= tok(s)
          <5>1. tok(s) <= tok(a)
            BY <1>1, <1>2, <1>3, <2>1, <2>4
          <5> QED BY <1>0, <1>1, <1>2, <2>1, <3>1, <4>2, <5>1
        <4> QED BY <1>2, <4>1, <4>2
      <3> QED BY <1>0, <2>1, <2>3, <3>1, <3>2
    <2>5. CASE b < s /\ s <= a
      <3>1. h <= tok(s) /\ tok(b) < h
        BY <1>1, <1>2, <2>1, <2>5
      <3>2. tok(s) <= tok(a)
        BY <1>1, <1>2, <1>3, <2>1, <2>5
      <3> QED BY <1>0, <1>1, <1>2, <2>1, <2>3, <3>1, <3>2
    <2>6. CASE a < b /\ b < s
      <3>1. tok(a) < h /\ tok(b) < h /\ tok(a) < tok(b)
        BY <1>1, <1>2, <1>3, <2>1, <2>6
      <3> QED BY <1>0, <2>1, <2>3, <3>1
    <2> QED BY <2>2, <2>4, <2>5, <2>6
  <1> QED BY <1>7, <1>8 DEF L

\* The elements of the slice with the id m are the tokens of m.
LEMMA TokensOf ==
    ASSUME IInv
    PROVE  /\ virtualCount \in Nat \ {0} /\ nodeVNodes \subseteq Nodes
           /\ \A j \in DOMAIN vnodes :
                 /\ vnodes[j].NodeID \in nodeVNodes
                 /\ \E k \in 0..(virtualCount - 1) : vnodes[j].Hash = hash[vnodes[j].NodeID][k]
           /\ \A m \in nodeVNodes : \A k \in 0..(virtualCount - 1) :
                 /\ hash[m][k] \in Tokens
                 /\ \E j \in DOMAIN vnodes : vnodes[j].NodeID = m /\ vnodes[j].Hash = hash[m][k]
  <1>0. TypeOK /\ virtualCount \in Nat \ {0} /\ nodeVNodes \subseteq Nodes
    BY RingConstants DEF IInv, TypeOK
  <1>1. ASSUME NEW j \in DOMAIN vnodes
        PROVE  /\ vnodes[j].NodeID \in nodeVNodes
               /\ \E k \in 0..(virtualCount - 1) : vnodes[j].Hash = hash[vnodes[j].NodeID][k]
    <2>1. PICK m \in nodeVNodes : \E k \in 1..virtualCount : vnodes[j] = NewVNodes(m)[k]
      BY SliceIs
    <2>2. PICK k \in 1..virtualCount : vnodes[j] = NewVNodes(m)[k]
      BY <2>1
    <2>3. vnodes[j].NodeID = m /\ vnodes[j].Hash = hash[m][k - 1] /\ k - 1 \in 0..(virtualCount - 1)
      BY <1>0, <2>2, NewVNodesAre
    <2> QED BY <2>3
  <1>2. ASSUME NEW m \in nodeVNodes, NEW k \in 0..(virtualCount - 1)
        PROVE  /\ hash[m][k] \in Tokens
               /\ \E j \in DOMAIN vnodes : vnodes[j].NodeID = m /\ vnodes[j].Hash = hash[m][k]
    <2>1. m \in Nodes /\ hash[m][k] \in Tokens
      BY <1>0 DEF TypeOK
    <2>2. k + 1 \in 1..virtualCount /\ (k + 1) - 1 = k
      BY <1>0
    <2> DEFINE v == NewVNodes(m)[k + 1]
    <2>3. v.NodeID = m /\ v.Hash = hash[m][k]
      BY <1>0, <2>1, <2>2, NewVNodesAre
    <2>4. v \in ToSet(NewVNodes(m))
      <3>1. DOMAIN NewVNodes(m) = 1..virtualCount
        BY DEF NewVNodes
      <3> QED BY <2>2, <3>1 DEF ToSet
    <2> HIDE DEF v
    <2>5. v \in ToSet(vnodes)
      BY <2>4 DEF IInv, OfMembers
    <2> QED BY <2>1, <2>3, <2>5 DEF ToSet
  <1> QED BY <1>0, <1>1, <1>2

\* The walk of GetNodes, and where it meets ids for the first time.
KeyWalk(h) == Walk(vnodes, StartIdx(vnodes, h), 1)
Firsts(h) == Fresh(KeyWalk(h), {})

\* The walk of GetNodes, and the positions where it meets a node first.
LEMMA KeyWalkIs ==
    ASSUME IInv, vnodes # <<>>, NEW h \in Tokens
    PROVE  /\ KeyWalk(h) \in Seq(Nodes) /\ Len(KeyWalk(h)) = Len(vnodes)
           /\ Len(vnodes) \in Nat \ {0} /\ DOMAIN KeyWalk(h) = 1..Len(vnodes)
           /\ Firsts(h) \in SUBSET (Nat \ {0}) /\ Firsts(h) \subseteq 1..Len(vnodes)
           /\ StartIdx(vnodes, h) \in DOMAIN vnodes
           /\ \A i \in 1..Len(vnodes) :
                 /\ Ahead(StartIdx(vnodes, h), i) \in DOMAIN vnodes
                 /\ KeyWalk(h)[i] = vnodes[Ahead(StartIdx(vnodes, h), i)].NodeID
                 /\ KeyWalk(h)[i] \in nodeVNodes
  <1>0. vnodes \in Seq(VNode)
    BY DEF IInv, TypeOK
  <1>1. Len(vnodes) \in Nat \ {0} /\ StartIdx(vnodes, h) \in DOMAIN vnodes
    BY <1>0, StartIdxDoes
  <1>2. /\ KeyWalk(h) \in Seq(Nodes) /\ Len(KeyWalk(h)) = Len(vnodes)
        /\ DOMAIN KeyWalk(h) = 1..Len(vnodes)
        /\ \A i \in 1..Len(vnodes) :
              /\ Ahead(StartIdx(vnodes, h), i) \in DOMAIN vnodes
              /\ KeyWalk(h)[i] = vnodes[Ahead(StartIdx(vnodes, h), i)].NodeID
    BY <1>1, WalkIs DEF KeyWalk
  <1>3. Firsts(h) \subseteq 1..Len(vnodes)
    BY <1>2 DEF Firsts, Fresh
  <1>4. Firsts(h) \in SUBSET (Nat \ {0})
    BY <1>1, <1>3
  <1> QED BY <1>1, <1>2, <1>3, <1>4, TokensOf

\* The distance of a node is that of the place where the walk meets it first.
LEMMA DistanceIs ==
    ASSUME IInv, vnodes # <<>>, NEW h \in Tokens, NEW j \in Firsts(h)
    PROVE  KeyWalk(h)[j] \in nodeVNodes /\ Distance(h, KeyWalk(h)[j]) = Offset(h, j)
  <1> DEFINE s == StartIdx(vnodes, h)
             m == KeyWalk(h)[j]
             D == {(hash[m][k] - h) % Space : k \in 0..(virtualCount - 1)}
  <1>0. j \in 1..Len(vnodes) /\ Len(vnodes) \in Nat /\ m \in nodeVNodes
    BY KeyWalkIs
  <1>1. /\ s \in DOMAIN vnodes /\ Ahead(s, j) \in DOMAIN vnodes
        /\ m = vnodes[Ahead(s, j)].NodeID
    BY <1>0, KeyWalkIs
  <1>2. Offset(h, j) \in D
    <2>1. PICK k \in 0..(virtualCount - 1) : vnodes[Ahead(s, j)].Hash = hash[m][k]
      BY <1>1, TokensOf
    <2>2. Offset(h, j) = (hash[m][k] - h) % Space
      BY <2>1 DEF Offset
    <2> QED BY <2>2
  <1>3. ASSUME NEW k \in 0..(virtualCount - 1)
        PROVE  (hash[m][k] - h) % Space \in Nat /\ Offset(h, j) <= (hash[m][k] - h) % Space
    <2>1. PICK l \in DOMAIN vnodes : vnodes[l].NodeID = m /\ vnodes[l].Hash = hash[m][k]
      BY <1>0, TokensOf
    <2>2. PICK i \in 1..Len(vnodes) : Ahead(s, i) = l
      BY <1>1, AheadVisits
    <2>3. KeyWalk(h)[i] = m /\ Offset(h, i) = (hash[m][k] - h) % Space
      BY <2>1, <2>2, KeyWalkIs DEF Offset
    <2>4. j <= i
      <3> SUFFICES ASSUME ~(j <= i) PROVE FALSE
        OBVIOUS
      <3>1. i \in 1..(j - 1)
        BY <1>0
      <3>2. \A l1 \in 1..(j - 1) : KeyWalk(h)[l1] # KeyWalk(h)[j]
        BY DEF Firsts, Fresh
      <3> QED BY <2>3, <3>1, <3>2
    <2>5. /\ Offset(h, i) \in Nat /\ Offset(h, j) \in Nat
          /\ j < i => Offset(h, j) < Offset(h, i)
      BY <1>0, OffsetsGrow
    <2>6. j = i \/ j < i
      BY <1>0, <2>4
    <2> QED BY <2>3, <2>5, <2>6
  <1>4. Distance(h, m) = Min(D)
    BY DEF Distance
  <1>5. D \in SUBSET Nat
    BY <1>3
  <1>6. \A d \in D : Offset(h, j) <= d
    BY <1>3
  <1> HIDE DEF D, m
  <1>7. Min(D) \in D /\ \A d \in D : Min(D) <= d
    BY <1>2, <1>5, Smallest
  <1>8. Min(D) = Offset(h, j)
    <2>1. Min(D) \in Nat /\ Offset(h, j) \in Nat /\ Min(D) <= Offset(h, j) /\ Offset(h, j) <= Min(D)
      BY <1>2, <1>5, <1>6, <1>7
    <2> QED BY <2>1
  <1> QED BY <1>0, <1>4, <1>8 DEF m

\* First meetings and members are one to one.
LEMMA FirstsAreMembers ==
    ASSUME IInv, vnodes # <<>>, NEW h \in Tokens
    PROVE  /\ \A m \in nodeVNodes : \E j \in Firsts(h) : KeyWalk(h)[j] = m
           /\ \A i, j \in Firsts(h) : KeyWalk(h)[i] = KeyWalk(h)[j] => i = j
           /\ IsFiniteSet(nodeVNodes)
           /\ Count(Firsts(h), Len(vnodes)) = Cardinality(nodeVNodes)
           /\ Count(Firsts(h), Len(vnodes)) \in Nat
  <1> DEFINE P == Firsts(h)
             w == KeyWalk(h)
             L == Len(vnodes)
  <1>0. /\ w \in Seq(Nodes) /\ DOMAIN w = 1..L /\ L \in Nat \ {0} /\ P \subseteq 1..L
        /\ P \in SUBSET (Nat \ {0}) /\ StartIdx(vnodes, h) \in DOMAIN vnodes
        /\ \A i \in 1..L : w[i] \in nodeVNodes
    BY KeyWalkIs
  <1>1. ASSUME NEW m \in nodeVNodes PROVE \E j \in P : w[j] = m
    <2>1. 0 \in 0..(virtualCount - 1)
      BY TokensOf
    <2>2. PICK l \in DOMAIN vnodes : vnodes[l].NodeID = m
      BY <2>1, TokensOf
    <2>3. PICK i \in 1..L : Ahead(StartIdx(vnodes, h), i) = l
      BY <1>0, AheadVisits
    <2>4. w[i] = m /\ i \in DOMAIN w
      BY <1>0, <2>2, <2>3, KeyWalkIs
    <2>5. \E j \in Fresh(w, {}) : j <= i /\ w[j] = w[i]
      <3> HIDE DEF w
      <3> QED BY <1>0, <2>4, FirstMet
    <2> QED BY <2>4, <2>5 DEF Firsts
  <1>2. ASSUME NEW i \in P, NEW j \in P, w[i] = w[j] PROVE i = j
    <2>1. \A l \in 1..(j - 1) : w[l] # w[j]
      BY DEF Firsts, Fresh
    <2>2. \A l \in 1..(i - 1) : w[l] # w[i]
      BY DEF Firsts, Fresh
    <2>3. i \in Nat \ {0} /\ j \in Nat \ {0}
      BY <1>0
    <2> HIDE DEF w, P
    <2>4. ~(i < j) /\ ~(j < i)
      BY <1>2, <2>1, <2>2, <2>3
    <2> QED BY <2>3, <2>4
  <1> HIDE DEF w, P
  <1>3. IsFiniteSet(P)
    <2>1. IsFiniteSet(1..L)
      BY <1>0, FS_Interval
    <2> QED BY <1>0, <2>1, FS_Subset
  <1>4. Count(P, L) = Cardinality(P)
    <2>1. {j \in P : j <= L} = P
      <3>1. \A j \in P : j <= L
        BY <1>0
      <3> QED BY <3>1
    <2> QED BY <2>1 DEF Count
  <1>5. IsFiniteSet(nodeVNodes) /\ Cardinality(nodeVNodes) = Cardinality(P)
    <2> DEFINE f == [j \in P |-> w[j]]
    <2>1. f \in [P -> nodeVNodes]
      BY <1>0
    <2>2. \A x, y \in P : f[x] = f[y] => x = y
      BY <1>2
    <2>3. \A b \in nodeVNodes : \E a \in P : f[a] = b
      BY <1>1
    <2> HIDE DEF f
    <2> QED BY <1>3, <2>1, <2>2, <2>3, SameSize
  <1>6. Count(P, L) \in Nat
    BY <1>3, <1>4, FS_CardinalityType
  <1> QED BY <1>1, <1>2, <1>4, <1>5, <1>6 DEF w, P

\* How many members are nearer to h than m.
Nearer(h, m) == {k \in nodeVNodes : Distance(h, k) < Distance(h, m)}

\* The rank of a member is the number of members that the walk meets before it.
LEMMA RankIs ==
    ASSUME IInv, vnodes # <<>>, NEW h \in Tokens, NEW j \in Firsts(h)
    PROVE  Cardinality(Nearer(h, KeyWalk(h)[j])) = Count(Firsts(h), j) - 1
  <1> DEFINE P == Firsts(h)
             w == KeyWalk(h)
             A == {i \in P : i <= j - 1}
             B == Nearer(h, w[j])
             f == [i \in A |-> w[i]]
  <1>0. P \in SUBSET (Nat \ {0}) /\ P \subseteq 1..Len(vnodes) /\ Len(vnodes) \in Nat
    BY KeyWalkIs
  <1>1. /\ \A m \in nodeVNodes : \E i \in P : w[i] = m
        /\ \A i, k \in P : w[i] = w[k] => i = k
    BY FirstsAreMembers
  <1>2. \A i \in P : w[i] \in nodeVNodes /\ Distance(h, w[i]) = Offset(h, i)
    BY DistanceIs
  <1>3. ASSUME NEW i \in P
        PROVE  Distance(h, w[i]) < Distance(h, w[j]) <=> i <= j - 1
    <2>1. i \in 1..Len(vnodes) /\ j \in 1..Len(vnodes) /\ i \in Nat /\ j \in Nat
      BY <1>0
    <2>2. /\ Offset(h, i) \in Nat /\ Offset(h, j) \in Nat
          /\ i < j => Offset(h, i) < Offset(h, j)
          /\ j < i => Offset(h, j) < Offset(h, i)
      BY <2>1, OffsetsGrow
    <2>3. Offset(h, i) < Offset(h, j) <=> i <= j - 1
      BY <2>1, <2>2
    <2> QED BY <1>2, <2>3
  <1>4. f \in [A -> B]
    <2>1. \A i \in A : w[i] \in B
      BY <1>2, <1>3 DEF Nearer
    <2> HIDE DEF B
    <2> QED BY <2>1
  <1>5. \A x, y \in A : f[x] = f[y] => x = y
    BY <1>1
  <1>6. ASSUME NEW b \in B PROVE \E a \in A : f[a] = b
    <2>1. b \in nodeVNodes /\ Distance(h, b) < Distance(h, w[j])
      BY DEF Nearer
    <2>2. PICK i \in P : w[i] = b
      BY <1>1, <2>1
    <2>3. i \in A
      BY <1>3, <2>1, <2>2
    <2> QED BY <2>2, <2>3
  <1>7. j - 1 \in Nat /\ (j - 1) + 1 = j /\ j \in P
    BY <1>0
  <1>8. IsFiniteSet(A)
    <2>1. \A i \in A : i <= j - 1 /\ i \in Nat
      BY <1>0
    <2>2. A \in SUBSET Nat
      BY <2>1
    <2> HIDE DEF A
    <2> QED BY <1>7, <2>1, <2>2, FS_BoundedSetOfNaturals
  <1>9. Cardinality(B) = Cardinality(A)
    <2> HIDE DEF A, B, f
    <2> QED BY <1>4, <1>5, <1>6, <1>8, SameSize
  <1>10. Cardinality(A) = Count(P, j - 1)
    BY DEF Count
  <1> HIDE DEF P, A, B
  <1>11. Count(P, j - 1) \in Nat /\ Count(P, (j - 1) + 1) = Count(P, j - 1) + 1
    <2>1. (j - 1) + 1 \in P
      BY <1>7
    <2> HIDE DEF f
    <2>2. Count(P, (j - 1) + 1) = IF (j - 1) + 1 \in P THEN Count(P, j - 1) + 1 ELSE Count(P, j - 1)
      BY <1>0, <1>7, CountSteps
    <2>3. Count(P, j - 1) \in Nat
      BY <1>0, <1>7, CountSteps
    <2> QED BY <2>1, <2>2, <2>3
  <1>12. Count(P, j) = Count(P, j - 1) + 1
    BY <1>7, <1>11
  <1> QED BY <1>9, <1>10, <1>11, <1>12 DEF P, B

\* A ring without tokens has no members.
LEMMA EmptyRing ==
    ASSUME IInv, vnodes = <<>>
    PROVE  nodeVNodes = {}
  <1>1. DOMAIN vnodes = {}
    OBVIOUS
  <1>2. 0 \in 0..(virtualCount - 1)
    BY TokensOf
  <1> QED BY <1>1, <1>2, TokensOf

\* What GetNodes returns: the members at the first meetings, cut off after n.
LEMMA GetNodesIs ==
    ASSUME IInv, vnodes # <<>>, NEW h \in Tokens, NEW n \in Nat
    PROVE  LET list == GetNodes(vnodes, h, n)
               size == Lesser(Cardinality(nodeVNodes), n)
           IN  /\ list = [k \in 1..size |-> KeyWalk(h)[Kth(Firsts(h), k)]]
               /\ size \in Nat /\ list \in Seq(nodeVNodes) /\ Len(list) = size
               /\ \A k \in 1..size : /\ Kth(Firsts(h), k) \in Firsts(h)
                                     /\ Count(Firsts(h), Kth(Firsts(h), k)) = k
  <1> DEFINE P == Firsts(h)
             w == KeyWalk(h)
             list == GetNodes(vnodes, h, n)
             size == Lesser(Cardinality(nodeVNodes), n)
  <1>0. /\ w \in Seq(Nodes) /\ Len(w) = Len(vnodes) /\ Len(vnodes) \in Nat
        /\ P \in SUBSET (Nat \ {0}) /\ P \subseteq 1..Len(vnodes)
        /\ \A i \in 1..Len(vnodes) : w[i] \in nodeVNodes
    BY KeyWalkIs
  <1>1. Count(P, Len(vnodes)) = Cardinality(nodeVNodes) /\ Cardinality(nodeVNodes) \in Nat
    BY FirstsAreMembers
  <1>2. list = Distinct(w, n, {})
    BY DEF GetNodes, KeyWalk
  <1>3. Distinct(w, n, {}) = [k \in 1..Lesser(Count(P, Len(w)), n) |-> w[Kth(P, k)]]
    <2>1. Distinct(w, n, {}) = Collected(w, Fresh(w, {}), n)
      BY <1>0, DistinctIs
    <2> QED BY <2>1 DEF Collected, Firsts
  <1> HIDE DEF w, P, list
  <1>4. list = [k \in 1..size |-> w[Kth(P, k)]]
    BY <1>0, <1>1, <1>2, <1>3
  <1>5. size \in Nat /\ size <= Cardinality(nodeVNodes)
    BY <1>1 DEF Lesser
  <1> HIDE DEF size
  <1>6. ASSUME NEW k \in 1..size PROVE Kth(P, k) \in P /\ Count(P, Kth(P, k)) = k
    <2>1. k \in 1..Count(P, Len(vnodes))
      BY <1>1, <1>5
    <2> QED BY <1>0, <2>1, KthIs
  <1>7. \A k \in 1..size : w[Kth(P, k)] \in nodeVNodes
    BY <1>0, <1>6
  <1>8. list \in Seq(nodeVNodes) /\ Len(list) = size
    BY <1>4, <1>5, <1>7
  <1> QED BY <1>4, <1>5, <1>6, <1>8 DEF w, P, list, size

\* The preference list ranks the members by their distance from the key.
LEMMA ListRanked ==
    ASSUME IInv, NEW h \in Tokens, NEW n \in Nat
    PROVE  LET list == GetNodes(vnodes, h, n)
           IN  /\ IsFiniteSet(nodeVNodes) /\ Cardinality(nodeVNodes) \in Nat
               /\ list \in Seq(nodeVNodes) /\ Len(list) = Lesser(Cardinality(nodeVNodes), n)
               /\ \A i \in DOMAIN list : /\ list[i] \in nodeVNodes
                                         /\ Cardinality(Nearer(h, list[i])) = i - 1
  <1> DEFINE list == GetNodes(vnodes, h, n)
  <1>1. CASE vnodes = <<>>
    <2>1. nodeVNodes = {} /\ list = <<>>
      BY <1>1, EmptyRing DEF GetNodes
    <2>2. IsFiniteSet(nodeVNodes) /\ Cardinality(nodeVNodes) = 0
      BY <2>1, FS_EmptySet
    <2> HIDE DEF list
    <2> QED BY <2>1, <2>2 DEF Lesser, list
  <1>2. CASE vnodes # <<>>
    <2> DEFINE size == Lesser(Cardinality(nodeVNodes), n)
    <2>1. /\ list = [k \in 1..size |-> KeyWalk(h)[Kth(Firsts(h), k)]]
          /\ size \in Nat /\ list \in Seq(nodeVNodes) /\ Len(list) = size
          /\ \A k \in 1..size : /\ Kth(Firsts(h), k) \in Firsts(h)
                                /\ Count(Firsts(h), Kth(Firsts(h), k)) = k
      BY <1>2, GetNodesIs
    <2> HIDE DEF list, size
    <2>2. DOMAIN list = 1..size
      BY <2>1
    <2>3. ASSUME NEW i \in DOMAIN list
          PROVE  list[i] \in nodeVNodes /\ Cardinality(Nearer(h, list[i])) = i - 1
      <3>1. list[i] = KeyWalk(h)[Kth(Firsts(h), i)] /\ i \in 1..size /\ list[i] \in nodeVNodes
        BY <2>1, <2>2
      <3>2. Kth(Firsts(h), i) \in Firsts(h) /\ Count(Firsts(h), Kth(Firsts(h), i)) = i
        BY <2>1, <3>1
      <3>3. Cardinality(Nearer(h, KeyWalk(h)[Kth(Firsts(h), i)]))
              = Count(Firsts(h), Kth(Firsts(h), i)) - 1
        BY <1>2, <3>2, RankIs
      <3> QED BY <3>1, <3>2, <3>3
    <2>4. IsFiniteSet(nodeVNodes) /\ Cardinality(nodeVNodes) \in Nat
      BY <1>2, FirstsAreMembers
    <2> QED BY <2>1, <2>3, <2>4 DEF list, size
  <1> QED BY <1>1, <1>2

\* GetNodes is the preference list that Coordinator!PreferenceList takes it to be,
\* for every key and length: the members in the order of their distance from the
\* key, none twice and none left out, with the node of GetNode first.
THEOREM ListsExact == Spec => []PreferenceListExact
  <1>1. ASSUME IInv, NEW h \in Tokens, NEW n \in 1..Cardinality(Nodes)
        PROVE  LET list == GetNodes(vnodes, h, n)
                   rank(m) == Cardinality({k \in nodeVNodes : Distance(h, k) < Distance(h, m)})
               IN  /\ Len(list) = IF n < Cardinality(nodeVNodes) THEN n ELSE Cardinality(nodeVNodes)
                   /\ \A i \in DOMAIN list : list[i] \in nodeVNodes /\ rank(list[i]) = i - 1
                   /\ vnodes # <<>> => list[1] = GetNode(h)
    <2> DEFINE list == GetNodes(vnodes, h, n)
    <2>0. n \in Nat \ {0}
      OBVIOUS
    <2>1. /\ Cardinality(nodeVNodes) \in Nat
          /\ Len(list) = Lesser(Cardinality(nodeVNodes), n)
          /\ \A i \in DOMAIN list : /\ list[i] \in nodeVNodes
                                    /\ Cardinality(Nearer(h, list[i])) = i - 1
      BY <1>1, <2>0, ListRanked
    <2>2. Len(list) = IF n < Cardinality(nodeVNodes) THEN n ELSE Cardinality(nodeVNodes)
      BY <2>0, <2>1 DEF Lesser
    <2>3. ASSUME vnodes # <<>> PROVE list[1] = GetNode(h)
      <3> DEFINE P == Firsts(h)
                 w == KeyWalk(h)
                 s == StartIdx(vnodes, h)
      <3>0. /\ P \in SUBSET (Nat \ {0}) /\ DOMAIN w = 1..Len(vnodes) /\ Len(vnodes) \in Nat \ {0}
            /\ s \in DOMAIN vnodes /\ \A i \in 1..Len(vnodes) : w[i] = vnodes[Ahead(s, i)].NodeID
            /\ \A i \in 1..Len(vnodes) : w[i] \in nodeVNodes
        BY <1>1, <2>3, KeyWalkIs
      <3>1. 1 \in P
        BY <3>0 DEF Firsts, Fresh
      <3>2. Count(P, 1) = 1
        <4> HIDE DEF P
        <4>1. Count(P, 0 + 1) = Count(P, 0) + 1 /\ Count(P, 0) = 0
          BY <3>0, <3>1, CountSteps
        <4> QED BY <4>1
      <3>3. Kth(P, 1) = 1
        <4> HIDE DEF P
        <4> QED BY <3>0, <3>1, <3>2, KthOfCount
      <3>4. 1 \in 1..Lesser(Cardinality(nodeVNodes), n)
        <4>1. w[1] \in nodeVNodes
          BY <3>0
        <4>2. Cardinality(nodeVNodes) # 0
          BY <1>1, <2>3, <4>1, FirstsAreMembers, FS_EmptySet
        <4> QED BY <2>0, <2>1, <4>2 DEF Lesser
      <3>5. list[1] = w[1]
        <4>1. list = [k \in 1..Lesser(Cardinality(nodeVNodes), n) |-> w[Kth(P, k)]]
          BY <1>1, <2>0, <2>3, GetNodesIs
        <4> QED BY <3>3, <3>4, <4>1
      <3>6. Ahead(s, 1) = s
        <4>1. DOMAIN vnodes = 1..Len(vnodes)
          BY <1>1, SeqFacts DEF IInv, TypeOK
        <4> QED BY <3>0, <4>1 DEF Ahead
      <3>7. w[1] = vnodes[s].NodeID
        BY <3>0, <3>6
      <3> QED BY <3>5, <3>7 DEF GetNode
    <2> HIDE DEF list
    <2> QED BY <2>1, <2>2, <2>3 DEF Nearer, list
  <1>2. IInv => PreferenceListExact
    BY <1>1 DEF PreferenceListExact
  <1> QED BY <1>2, Invariance, PTL

-----------------------------------------------------------------------------
(***************************************************************************)
(* A node joins or leaves.                                                 *)
(***************************************************************************)

\* Sequences with the same elements are the same.
LEMMA SameElements ==
    ASSUME NEW S, NEW s \in Seq(S), NEW t \in Seq(S), Len(s) = Len(t), \A i \in 1..Len(s) : s[i] = t[i]
    PROVE  s = t
  OBVIOUS

\* The elements of a sequence that x was put into at k, cut off after c.
LEMMA InsertAtIs ==
    ASSUME NEW S, NEW s \in Seq(S), NEW k \in 1..(Len(s) + 1), NEW x \in S, NEW c \in 0..(Len(s) + 1)
    PROVE  /\ SubSeq(InsertAt(s, k, x), 1, c) \in Seq(S) /\ Len(SubSeq(InsertAt(s, k, x), 1, c)) = c
           /\ \A i \in 1..c : SubSeq(InsertAt(s, k, x), 1, c)[i]
                                = IF i < k THEN s[i] ELSE IF i = k THEN x ELSE s[i - 1]
  <1> DEFINE a == SubSeq(s, 1, k - 1)
             b == SubSeq(s, k, Len(s))
             p == a \o <<x>>
             t == p \o b
             u == SubSeq(t, 1, c)
  <1>0. Len(s) \in Nat
    OBVIOUS
  <1>1. a \in Seq(S) /\ Len(a) = k - 1 /\ \A i \in 1..(k - 1) : a[i] = s[i]
    BY <1>0
  <1>2. b \in Seq(S) /\ Len(b) = Len(s) + 1 - k /\ \A i \in 1..(Len(s) + 1 - k) : b[i] = s[k + i - 1]
    BY <1>0
  <1> HIDE DEF a, b
  <1>3. p \in Seq(S) /\ Len(p) = k /\ \A i \in 1..k : p[i] = IF i < k THEN s[i] ELSE x
    BY <1>0, <1>1
  <1> HIDE DEF p
  <1>4. t \in Seq(S) /\ Len(t) = Len(s) + 1
    BY <1>0, <1>2, <1>3
  <1>5. ASSUME NEW i \in 1..(Len(s) + 1)
        PROVE  t[i] = IF i < k THEN s[i] ELSE IF i = k THEN x ELSE s[i - 1]
    <2>1. CASE i <= k
      <3>1. i \in 1..k
        BY <1>0, <2>1
      <3>2. t[i] = p[i]
        BY <1>0, <1>2, <1>3, <3>1
      <3> QED BY <1>0, <1>3, <3>1, <3>2
    <2>2. CASE k < i
      <3>1. i - k \in 1..(Len(s) + 1 - k) /\ k + (i - k) - 1 = i - 1
        BY <1>0, <2>2
      <3>2. t[i] = b[i - k]
        BY <1>0, <1>2, <1>3, <2>2
      <3>3. b[i - k] = s[i - 1]
        BY <1>2, <3>1
      <3>4. ~(i < k) /\ i # k
        BY <1>0, <2>2
      <3> HIDE DEF t
      <3> QED BY <3>2, <3>3, <3>4
    <2>3. i <= k \/ k < i
      BY <1>0
    <2> HIDE DEF t
    <2> QED BY <2>1, <2>2, <2>3
  <1>6. InsertAt(s, k, x) = t
    BY DEF InsertAt, a, b, p
  <1> HIDE DEF t
  <1>7. u \in Seq(S) /\ Len(u) = c /\ \A i \in 1..c : u[i] = t[i]
    BY <1>0, <1>4
  <1>8. \A i \in 1..c : i \in 1..(Len(s) + 1)
    BY <1>0
  <1> HIDE DEF u
  <1>9. \A i \in 1..c : u[i] = IF i < k THEN s[i] ELSE IF i = k THEN x ELSE s[i - 1]
    BY <1>5, <1>7, <1>8
  <1> QED BY <1>6, <1>7, <1>9 DEF u

Closer(D, S, m) == {k \in S : D[k] < D[m]}

\* Of two lists that rank the members by their distance, one with x and one
\* without it, the first is the second with x put in.
LEMMA JoinedLists ==
    ASSUME NEW M, IsFiniteSet(M), NEW x, x \notin M, NEW D \in [M \cup {x} -> Nat],
           \A a, b \in M \cup {x} : D[a] = D[b] => a = b, NEW D0, \A m \in M : D0[m] = D[m],
           NEW n \in Nat \ {0}, NEW old \in Seq(M), NEW new \in Seq(M \cup {x}),
           Len(old) = Lesser(Cardinality(M), n), Len(new) = Lesser(Cardinality(M \cup {x}), n),
           \A i \in DOMAIN old : Cardinality(Closer(D0, M, old[i])) = i - 1,
           \A i \in DOMAIN new : Cardinality(Closer(D, M \cup {x}, new[i])) = i - 1
    PROVE  new \in Joined(old, x, n)
  <1> DEFINE X == M \cup {x}
             N1(m) == {k \in M : D[k] < D[m]}
             N2(m) == {k \in X : D[k] < D[m]}
             r == Cardinality(N1(x))
             c == Cardinality(M)
  <1>0. /\ c \in Nat /\ IsFiniteSet(X) /\ Cardinality(X) = c + 1
        /\ \A m \in X : D[m] \in Nat
    BY FS_CardinalityType, FS_AddElement
  <1>1. ASSUME NEW m \in X
        PROVE  /\ N1(m) \in SUBSET M /\ N2(m) \in SUBSET X
               /\ IsFiniteSet(N1(m)) /\ IsFiniteSet(N2(m))
               /\ Cardinality(N1(m)) \in Nat /\ Cardinality(N2(m)) \in Nat /\ Cardinality(N1(m)) <= c
    <2>1. N1(m) \in SUBSET M /\ N2(m) \in SUBSET X
      OBVIOUS
    <2> HIDE DEF N1, N2, X
    <2>2. IsFiniteSet(N1(m)) /\ IsFiniteSet(N2(m)) /\ Cardinality(N1(m)) <= c
      BY <1>0, <2>1, FS_Subset
    <2> QED BY <2>1, <2>2, FS_CardinalityType
  <1>2. x \in X /\ r \in Nat /\ r <= c
    BY <1>1
  <1>3. ASSUME NEW a \in X, NEW b \in X, D[a] < D[b]
        PROVE  /\ Cardinality(N1(a)) <= Cardinality(N1(b))
               /\ Cardinality(N2(a)) < Cardinality(N2(b))
               /\ a \in M => Cardinality(N1(a)) < Cardinality(N1(b))
    <2>1. \A k \in X : D[k] < D[a] => D[k] < D[b]
      BY <1>0, <1>3
    <2>2. N1(a) \subseteq N1(b) /\ N2(a) \subseteq N2(b)
      BY <2>1
    <2>3. a \in N2(b) /\ a \notin N2(a) /\ (a \in M => a \in N1(b) /\ a \notin N1(a))
      BY <1>0, <1>3
    <2> HIDE DEF N1, N2
    <2>4. /\ Cardinality(N1(a)) <= Cardinality(N1(b))
          /\ Cardinality(N2(a)) <= Cardinality(N2(b))
          /\ Cardinality(N1(b)) = Cardinality(N1(a)) => N1(b) = N1(a)
          /\ Cardinality(N2(b)) = Cardinality(N2(a)) => N2(b) = N2(a)
      BY <1>1, <2>2, FS_Subset
    <2> QED BY <1>1, <2>3, <2>4
  <1>4. ASSUME NEW a \in X, NEW b \in X, Cardinality(N2(a)) = Cardinality(N2(b)) PROVE a = b
    <2> HIDE DEF N1, N2
    <2>1. ~(D[a] < D[b]) /\ ~(D[b] < D[a])
      BY <1>1, <1>3, <1>4
    <2>2. D[a] = D[b]
      BY <1>0, <2>1
    <2> QED BY <2>2
  <1>5. Cardinality(N2(x)) = r
    <2>1. ~(D[x] < D[x])
      BY <1>0, <1>2
    <2>2. N2(x) = N1(x)
      BY <2>1
    <2> QED BY <2>2
  <1>6. ASSUME NEW m \in M, Cardinality(N1(m)) < r PROVE Cardinality(N2(m)) = Cardinality(N1(m))
    <2>1. ~(D[x] < D[m])
      <3>1. m \in X
        OBVIOUS
      <3> HIDE DEF N1, N2, X, r
      <3>2. D[x] < D[m] => r <= Cardinality(N1(m))
        BY <1>2, <1>3, <3>1 DEF r
      <3> QED BY <1>1, <1>2, <1>6, <3>1, <3>2
    <2>2. N2(m) = N1(m)
      BY <2>1
    <2> QED BY <2>2
  <1>7. ASSUME NEW m \in M, r <= Cardinality(N1(m)) PROVE Cardinality(N2(m)) = Cardinality(N1(m)) + 1
    <2>1. D[x] < D[m]
      <3> HIDE DEF N1, N2
      <3>1. ~(D[m] < D[x])
        BY <1>1, <1>2, <1>3, <1>7
      <3>2. D[m] # D[x]
        BY <1>2
      <3> QED BY <1>0, <1>2, <3>1, <3>2
    <2>2. N2(m) = N1(m) \cup {x} /\ x \notin N1(m)
      BY <2>1
    <2> HIDE DEF N1, N2
    <2> QED BY <1>1, <2>2, FS_AddElement
  <1>8. /\ \A i \in DOMAIN old : old[i] \in M /\ Cardinality(N1(old[i])) = i - 1
        /\ \A i \in DOMAIN new : new[i] \in X /\ Cardinality(N2(new[i])) = i - 1
    <2>1. (\A m \in M : Closer(D0, M, m) = N1(m)) /\ (\A m : Closer(D, M \cup {x}, m) = N2(m))
      BY DEF Closer
    <2>2. (\A i \in DOMAIN old : old[i] \in M) /\ (\A i \in DOMAIN new : new[i] \in X)
      OBVIOUS
    <2> HIDE DEF N1, N2, X
    <2> QED BY <2>1, <2>2
  <1>9. /\ DOMAIN old = 1..Len(old) /\ DOMAIN new = 1..Len(new)
        /\ Len(old) = (IF c < n THEN c ELSE n) /\ Len(new) = (IF c + 1 < n THEN c + 1 ELSE n)
        /\ old \in Seq(X) /\ new \in Seq(X) /\ Len(new) \in Nat /\ Len(old) \in Nat
    BY <1>0 DEF Lesser
  <1> HIDE DEF N1, N2, X, r, c
  <1>10. ASSUME NEW i \in 1..Len(new)
         PROVE  new[i] = IF i <= r THEN old[i] ELSE IF i = r + 1 THEN x ELSE old[i - 1]
    <2>0. i \in Nat \ {0} /\ new[i] \in X /\ Cardinality(N2(new[i])) = i - 1
      <3>1. i \in DOMAIN new /\ i \in Nat \ {0}
        BY <1>9
      <3> QED BY <1>8, <3>1
    <2>1. CASE i <= r
      <3>1. i \in DOMAIN old
        BY <1>0, <1>2, <1>9, <2>1
      <3>2. old[i] \in M /\ Cardinality(N1(old[i])) = i - 1
        BY <1>8, <3>1
      <3>3. Cardinality(N2(old[i])) = i - 1
        BY <1>2, <1>6, <2>0, <2>1, <3>2
      <3>4. old[i] \in X
        BY <3>2 DEF X
      <3> QED BY <1>4, <2>0, <2>1, <3>3, <3>4
    <2>2. CASE i = r + 1
      BY <1>2, <1>4, <1>5, <2>0, <2>2
    <2>3. CASE i > r + 1
      <3>1. i - 1 \in DOMAIN old
        BY <1>0, <1>2, <1>9, <2>0, <2>3
      <3>2. old[i - 1] \in M /\ Cardinality(N1(old[i - 1])) = i - 2
        BY <1>8, <3>1
      <3>3. Cardinality(N2(old[i - 1])) = i - 1
        BY <1>2, <1>7, <2>0, <2>3, <3>2
      <3>4. old[i - 1] \in X
        BY <3>2 DEF X
      <3> QED BY <1>2, <1>4, <2>0, <2>3, <3>3, <3>4
    <2> QED BY <1>2, <2>0, <2>1, <2>2, <2>3
  <1> DEFINE k == Lesser(r, Len(old)) + 1
             size == IF Len(old) < n THEN Len(old) + 1 ELSE n
             u == SubSeq(InsertAt(old, k, x), 1, size)
  <1>11. k \in 1..(Len(old) + 1) /\ size \in 0..(Len(old) + 1) /\ size = Len(new) /\ Len(old) \in Nat
    BY <1>0, <1>2, <1>9 DEF Lesser
  <1>12. k = r + 1 \/ (Len(new) < k /\ Len(new) <= r)
    BY <1>0, <1>2, <1>9 DEF Lesser
  <1> HIDE DEF k, size, u
  <1>13. /\ u \in Seq(X) /\ Len(u) = size
         /\ \A i \in 1..size : u[i] = IF i < k THEN old[i] ELSE IF i = k THEN x ELSE old[i - 1]
    <2>1. x \in X /\ old \in Seq(X) /\ k \in 1..(Len(old) + 1) /\ size \in 0..(Len(old) + 1)
      BY <1>2, <1>9, <1>11
    <2>2. u \in Seq(X)
      BY <2>1, InsertAtIs DEF u
    <2>3. Len(u) = size
      BY <2>1, InsertAtIs DEF u
    <2>4. \A i \in 1..size : u[i] = IF i < k THEN old[i] ELSE IF i = k THEN x ELSE old[i - 1]
      BY <2>1, InsertAtIs DEF u
    <2> QED BY <2>2, <2>3, <2>4
  <1>14. ASSUME NEW i \in 1..Len(new) PROVE new[i] = u[i]
    <2>1. i \in 1..size
      BY <1>11
    <2>2. u[i] = IF i < k THEN old[i] ELSE IF i = k THEN x ELSE old[i - 1]
      BY <1>13, <2>1
    <2>3. (i < k <=> i <= r) /\ (i = k => i = r + 1) /\ (i = r + 1 => i = k)
      BY <1>2, <1>9, <1>11, <1>12
    <2> QED BY <1>10, <2>2, <2>3
  <1>15. new = u
    <2>1. Len(new) = Len(u)
      BY <1>11, <1>13
    <2> QED BY <1>9, <1>13, <1>14, <2>1, SameElements, Zenon
  <1> QED BY <1>11, <1>15 DEF Joined, u, size

\* What is known of the preference lists of a ring, whatever its history.
Distances(h) == [m \in nodeVNodes |-> Distance(h, m)]

ListsRanked ==
    \A h \in Tokens, n \in Nat :
        /\ IsFiniteSet(nodeVNodes)
        /\ Distances(h) \in [nodeVNodes -> Nat]
        /\ \A a, b \in nodeVNodes : Distances(h)[a] = Distances(h)[b] => a = b
        /\ GetNodes(vnodes, h, n) \in Seq(nodeVNodes)
        /\ Len(GetNodes(vnodes, h, n)) = Lesser(Cardinality(nodeVNodes), n)
        /\ \A i \in DOMAIN GetNodes(vnodes, h, n) :
              Cardinality(Closer(Distances(h), nodeVNodes, GetNodes(vnodes, h, n)[i])) = i - 1

\* In every ring, the preference lists are ordered by distance.
LEMMA RingRanks == IInv => ListsRanked
  <1> SUFFICES ASSUME IInv, NEW h \in Tokens, NEW n \in Nat
               PROVE  /\ IsFiniteSet(nodeVNodes)
                      /\ Distances(h) \in [nodeVNodes -> Nat]
                      /\ \A a, b \in nodeVNodes : Distances(h)[a] = Distances(h)[b] => a = b
                      /\ GetNodes(vnodes, h, n) \in Seq(nodeVNodes)
                      /\ Len(GetNodes(vnodes, h, n)) = Lesser(Cardinality(nodeVNodes), n)
                      /\ \A i \in DOMAIN GetNodes(vnodes, h, n) :
                            Cardinality(Closer(Distances(h), nodeVNodes, GetNodes(vnodes, h, n)[i])) = i - 1
    BY DEF ListsRanked
  <1>1. \A m \in nodeVNodes : Closer(Distances(h), nodeVNodes, m) = Nearer(h, m)
    BY DEF Closer, Distances, Nearer
  <1> DEFINE list == GetNodes(vnodes, h, n)
  <1>2. /\ IsFiniteSet(nodeVNodes) /\ list \in Seq(nodeVNodes)
        /\ Len(list) = Lesser(Cardinality(nodeVNodes), n)
        /\ \A i \in DOMAIN list : list[i] \in nodeVNodes /\ Cardinality(Nearer(h, list[i])) = i - 1
    BY ListRanked
  <1>3. \A m \in nodeVNodes : Distances(h)[m] = Distance(h, m)
    BY DEF Distances
  <1>4. /\ \A m \in nodeVNodes : Distance(h, m) \in Nat
        /\ \A a, b \in nodeVNodes : Distance(h, a) = Distance(h, b) => a = b
    <2>1. CASE vnodes = <<>>
      BY <2>1, EmptyRing
    <2>2. CASE vnodes # <<>>
      <3>1. ASSUME NEW m \in nodeVNodes
            PROVE  \E j \in 1..Len(vnodes) : KeyWalk(h)[j] = m /\ Distance(h, m) = Offset(h, j)
        <4>1. PICK j \in Firsts(h) : KeyWalk(h)[j] = m
          BY <2>2, FirstsAreMembers
        <4>2. j \in 1..Len(vnodes) /\ Distance(h, m) = Offset(h, j)
          BY <2>2, <4>1, KeyWalkIs, DistanceIs
        <4> QED BY <4>1, <4>2
      <3>2. /\ \A j \in 1..Len(vnodes) : Offset(h, j) \in Nat
            /\ \A i, j \in 1..Len(vnodes) : i < j => Offset(h, i) < Offset(h, j)
            /\ Len(vnodes) \in Nat
        BY <2>2, OffsetsGrow, KeyWalkIs
      <3>3. \A i, j \in 1..Len(vnodes) : Offset(h, i) = Offset(h, j) => i = j
        BY <3>2
      <3> QED BY <3>1, <3>2, <3>3
    <2> QED BY <2>1, <2>2
  <1>5. Distances(h) \in [nodeVNodes -> Nat]
    BY <1>4 DEF Distances
  <1> HIDE DEF list
  <1> QED BY <1>1, <1>2, <1>3, <1>4, <1>5 DEF list

\* Consistent hashing, for every ring, key and length: a join puts the node into a
\* preference list at one place and a leave takes it out from there; the order
\* of the others stays, so that at most one replica of a key moves.
THEOREM OneReplicaMoves == Spec => OnlyOneReplicaMoves
  <1> DEFINE Q == \A x \in Nodes, h \in Tokens, n \in 1..Cardinality(Nodes) :
                    LET Old == GetNodes(vnodes, h, n)
                        New == GetNodes(vnodes', h, n)
                    IN  /\ x \notin nodeVNodes /\ nodeVNodes' = nodeVNodes \cup {x}
                              => New \in Joined(Old, x, n)
                        /\ x \in nodeVNodes /\ nodeVNodes' = nodeVNodes \ {x}
                              => Old \in Joined(New, x, n)
  <1>1. ASSUME ListsRanked, ListsRanked', Next PROVE Q
    <2> SUFFICES ASSUME NEW x \in Nodes, NEW h \in Tokens, NEW n \in 1..Cardinality(Nodes)
                 PROVE  /\ x \notin nodeVNodes /\ nodeVNodes' = nodeVNodes \cup {x}
                              => GetNodes(vnodes', h, n) \in Joined(GetNodes(vnodes, h, n), x, n)
                        /\ x \in nodeVNodes /\ nodeVNodes' = nodeVNodes \ {x}
                              => GetNodes(vnodes, h, n) \in Joined(GetNodes(vnodes', h, n), x, n)
      OBVIOUS
    <2> DEFINE M1 == nodeVNodes
               M2 == nodeVNodes'
               D1 == Distances(h)
               D2 == Distances(h)'
               l1 == GetNodes(vnodes, h, n)
               l2 == GetNodes(vnodes', h, n)
    <2>0. n \in Nat \ {0} /\ n \in Nat
      OBVIOUS
    <2>1. UNCHANGED <<hash, virtualCount>>
      BY <1>1 DEF Next, AddNode, RemoveNode
    <2>2. \A m \in M1 \cap M2 : D1[m] = D2[m]
      <3>1. \A m : Distance(h, m)' = Distance(h, m)
        BY <2>1 DEF Distance
      <3> QED BY <3>1 DEF Distances
    <2>3. /\ IsFiniteSet(M1) /\ D1 \in [M1 -> Nat]
          /\ \A a, b \in M1 : D1[a] = D1[b] => a = b
          /\ l1 \in Seq(M1) /\ Len(l1) = Lesser(Cardinality(M1), n)
          /\ \A i \in DOMAIN l1 : Cardinality(Closer(D1, M1, l1[i])) = i - 1
      BY <1>1, <2>0 DEF ListsRanked
    <2>4. /\ IsFiniteSet(M2) /\ D2 \in [M2 -> Nat]
          /\ \A a, b \in M2 : D2[a] = D2[b] => a = b
          /\ l2 \in Seq(M2) /\ Len(l2) = Lesser(Cardinality(M2), n)
          /\ \A i \in DOMAIN l2 : Cardinality(Closer(D2, M2, l2[i])) = i - 1
      BY <1>1, <2>0 DEF ListsRanked
    <2> HIDE DEF l1, l2, D1, D2, M1, M2
    <2>5. CASE x \notin M1 /\ M2 = M1 \cup {x}
      <3>1. \A m \in M1 : D1[m] = D2[m]
        BY <2>2, <2>5
      <3>2. /\ D2 \in [M1 \cup {x} -> Nat] /\ \A a, b \in M1 \cup {x} : D2[a] = D2[b] => a = b
            /\ l2 \in Seq(M1 \cup {x}) /\ Len(l2) = Lesser(Cardinality(M1 \cup {x}), n)
            /\ \A i \in DOMAIN l2 : Cardinality(Closer(D2, M1 \cup {x}, l2[i])) = i - 1
        BY <2>4, <2>5
      <3>3. l2 \in Joined(l1, x, n)
        BY <2>0, <2>3, <2>5, <3>1, <3>2, JoinedLists
      <3> QED BY <2>5, <3>3 DEF l1, l2, M1, M2
    <2>6. CASE x \in M1 /\ M2 = M1 \ {x}
      <3>0. M1 = M2 \cup {x} /\ x \notin M2
        BY <2>6
      <3>1. \A m \in M2 : D2[m] = D1[m]
        BY <2>2, <3>0
      <3>2. /\ D1 \in [M2 \cup {x} -> Nat] /\ \A a, b \in M2 \cup {x} : D1[a] = D1[b] => a = b
            /\ l1 \in Seq(M2 \cup {x}) /\ Len(l1) = Lesser(Cardinality(M2 \cup {x}), n)
            /\ \A i \in DOMAIN l1 : Cardinality(Closer(D1, M2 \cup {x}, l1[i])) = i - 1
        BY <2>3, <3>0
      <3>3. l1 \in Joined(l2, x, n)
        BY <2>0, <2>4, <3>0, <3>1, <3>2, JoinedLists
      <3> QED BY <2>6, <3>3 DEF l1, l2, M1, M2
    <2> QED BY <2>5, <2>6 DEF M1, M2
  <1>2. ListsRanked /\ ListsRanked' /\ [Next]_vars => [Q]_vars
    BY <1>1
  <1>3. Spec => [][Q]_vars
    <2> HIDE DEF Q
    <2> QED BY <1>2, Invariance, RingRanks, PTL DEF Spec
  <1> QED BY <1>3 DEF OnlyOneReplicaMoves

-----------------------------------------------------------------------------
(***************************************************************************)
(* Neighbours.                                                             *)
(***************************************************************************)

\* Leaving out the id a walk starts with, and one place less, leaves out the
\* first of the ids that are collected.
LEMMA LeaveOutFirst ==
    ASSUME NEW S, NEW walk \in Seq(S), walk # <<>>, NEW n \in Nat
    PROVE  Distinct(walk, n + 1, {}) = <<walk[1]>> \o Distinct(walk, n, {walk[1]})
  <1> DEFINE p == walk[1]
             L == Len(walk)
             P == Fresh(walk, {})
             R == Fresh(walk, {p})
             c == Count(R, L)
             d == Distinct(walk, n, {p})
             e == Distinct(walk, n + 1, {})
  <1>0. L \in Nat \ {0} /\ DOMAIN walk = 1..L /\ p \in S
    OBVIOUS
  <1>1. P \in SUBSET (Nat \ {0}) /\ R \in SUBSET (Nat \ {0}) /\ P \subseteq 1..L /\ R \subseteq 1..L
    BY <1>0 DEF Fresh
  <1>2. 1 \in P /\ 1 \notin R
    BY <1>0 DEF Fresh
  <1>3. ASSUME NEW j \in P, j # 1 PROVE j \in R
    <2>1. j \in DOMAIN walk /\ \A l \in 1..(j - 1) : walk[l] # walk[j]
      BY DEF Fresh
    <2>2. 1 \in 1..(j - 1)
      BY <1>0, <1>3, <2>1
    <2> QED BY <2>1, <2>2 DEF Fresh
  <1>4. R \subseteq P
    BY DEF Fresh
  <1> HIDE DEF P, R, p
  <1>5. ASSUME NEW i \in Nat \ {0} PROVE Count(P, i) = Count(R, i) + 1
    <2> DEFINE U == {j \in R : j <= i}
    <2>1. {j \in P : j <= i} = U \cup {1} /\ 1 \notin U
      <3>1. 1 <= i
        OBVIOUS
      <3> QED BY <1>2, <1>3, <1>4, <3>1, Zenon
    <2>2. IsFiniteSet(U)
      <3>1. \A j \in U : j <= i /\ j \in Nat
        BY <1>1
      <3>2. U \in SUBSET Nat
        BY <3>1
      <3> HIDE DEF U
      <3> QED BY <3>1, <3>2, FS_BoundedSetOfNaturals
    <2>3. Cardinality(U \cup {1}) = Cardinality(U) + 1
      <3> HIDE DEF U
      <3> QED BY <2>1, <2>2, FS_AddElement
    <2> QED BY <2>1, <2>3 DEF Count
  <1>6. c \in Nat /\ Count(P, L) = c + 1
    <2>1. L \in Nat /\ L \in Nat \ {0}
      BY <1>0
    <2> HIDE DEF L
    <2>2. c \in Nat
      BY <1>1, <2>1, CountSteps
    <2> QED BY <1>5, <2>1, <2>2
  <1>7. d = [k \in 1..Lesser(c, n) |-> walk[Kth(R, k)]]
    <2>1. d = Collected(walk, R, n)
      BY DistinctIs DEF R
    <2> QED BY <2>1 DEF Collected
  <1>8. e = [k \in 1..Lesser(c + 1, n + 1) |-> walk[Kth(P, k)]]
    <2>1. n + 1 \in Nat
      OBVIOUS
    <2>2. e = [k \in 1..Lesser(Count(P, L), n + 1) |-> walk[Kth(P, k)]]
      <3>1. e = Collected(walk, P, n + 1)
        BY <2>1, DistinctIs DEF P
      <3> QED BY <3>1 DEF Collected
    <2> QED BY <1>6, <2>2
  <1> HIDE DEF c, d, e
  <1> DEFINE size == Lesser(c, n)
  <1>9. size \in Nat /\ size <= c /\ Lesser(c + 1, n + 1) = size + 1
    BY <1>6 DEF Lesser
  <1> HIDE DEF size
  <1>10. Kth(P, 1) = 1
    <2>1. Count(P, 0 + 1) = Count(P, 0) + 1 /\ Count(P, 0) = 0
      BY <1>1, <1>2, CountSteps
    <2>2. Count(P, 1) = 1
      BY <2>1
    <2> QED BY <1>1, <1>2, <2>2, KthOfCount
  <1>11. ASSUME NEW k \in 1..size
         PROVE  Kth(R, k) \in R /\ Kth(P, k + 1) = Kth(R, k)
    <2> DEFINE j == Kth(R, k)
    <2>1. k \in 1..Count(R, L)
      BY <1>6, <1>9 DEF c
    <2>2. j \in R /\ Count(R, j) = k
      BY <1>0, <1>1, <2>1, KthIs
    <2>3. Count(P, j) = k + 1
      BY <1>1, <1>5, <2>2
    <2>4. j \in P
      BY <1>4, <2>2
    <2> HIDE DEF j
    <2>5. Kth(P, k + 1) = j
      BY <1>1, <2>3, <2>4, KthOfCount
    <2> QED BY <2>2, <2>5 DEF j
  <1>12. d \in Seq(S) /\ Len(d) = size /\ \A k \in 1..size : d[k] = walk[Kth(R, k)]
    <2>1. \A k \in 1..size : walk[Kth(R, k)] \in S
      <3>1. \A k \in 1..size : Kth(R, k) \in DOMAIN walk
        BY <1>0, <1>1, <1>11
      <3> QED BY <3>1
    <2>2. d = [k \in 1..size |-> walk[Kth(R, k)]]
      BY <1>7 DEF size
    <2> QED BY <1>9, <2>1, <2>2
  <1>13. ASSUME NEW k \in 1..(size + 1)
         PROVE  walk[Kth(P, k)] = IF k = 1 THEN p ELSE d[k - 1]
    <2>1. CASE k = 1
      BY <1>10, <2>1 DEF p
    <2>2. CASE k # 1
      <3>1. k - 1 \in 1..size /\ (k - 1) + 1 = k
        BY <1>9, <2>2
      <3>2. Kth(P, (k - 1) + 1) = Kth(R, k - 1)
        BY <1>11, <3>1
      <3> QED BY <1>12, <2>2, <3>1, <3>2
    <2> QED BY <2>1, <2>2
  <1> DEFINE t == <<p>> \o d
  <1>14. /\ t \in Seq(S) /\ Len(t) = size + 1
         /\ \A k \in 1..(size + 1) : t[k] = IF k = 1 THEN p ELSE d[k - 1]
    <2>1. t \in Seq(S) /\ Len(t) = size + 1
      BY <1>0, <1>9, <1>12
    <2>2. ASSUME NEW k \in 1..(size + 1) PROVE t[k] = IF k = 1 THEN p ELSE d[k - 1]
      BY <1>0, <1>9, <1>12
    <2> QED BY <2>1, <2>2
  <1> HIDE DEF t
  <1>15. /\ e = [k \in 1..(size + 1) |-> walk[Kth(P, k)]]
         /\ t = [k \in 1..(size + 1) |-> t[k]]
    <2>1. DOMAIN t = 1..(size + 1)
      BY <1>14
    <2> QED BY <1>8, <1>9, <1>14, <2>1
  <1>16. \A k \in 1..(size + 1) : walk[Kth(P, k)] = t[k]
    BY <1>13, <1>14
  <1>17. e = t
    BY <1>15, <1>16
  <1> QED BY <1>17 DEF e, t, d, p

\* On a walk that meets no id twice, the i-th id after the first is i places on.
LEMMA StraightOn ==
    ASSUME NEW S, NEW walk \in Seq(S), \A i, j \in DOMAIN walk : walk[i] = walk[j] => i = j,
           NEW i \in 1..(Len(walk) - 1)
    PROVE  Distinct(walk, i, {walk[1]})[i] = walk[i + 1]
  <1> DEFINE L == Len(walk)
             R == Fresh(walk, {walk[1]})
  <1>0. L \in Nat \ {0} /\ DOMAIN walk = 1..L /\ i \in Nat \ {0} /\ i + 1 \in 1..L
    OBVIOUS
  <1>1. R = 2..L
    <2>1. ASSUME NEW j \in 2..L PROVE j \in R
      <3>1. j \in 1..L /\ 1 \in 1..L /\ j # 1
        BY <1>0
      <3>2. ASSUME NEW l \in 1..(j - 1) PROVE walk[l] # walk[j]
        <4>1. l \in 1..L /\ l # j
          BY <1>0
        <4> QED BY <1>0, <3>1, <4>1
      <3>3. walk[j] # walk[1]
        BY <1>0, <3>1
      <3> QED BY <1>0, <3>1, <3>2, <3>3 DEF Fresh
    <2>2. ASSUME NEW j \in R PROVE j \in 2..L
      <3>1. j \in 1..L /\ walk[j] # walk[1]
        BY <1>0 DEF Fresh
      <3> QED BY <1>0, <3>1
    <2> HIDE DEF R
    <2> QED BY <2>1, <2>2
  <1> HIDE DEF R
  <1>2. ASSUME NEW j \in 1..L PROVE Count(R, j) = j - 1
    <2>1. \A l \in 2..L : l <= j <=> l \in 2..j
      BY <1>0
    <2>2. \A l \in 2..j : l \in 2..L
      BY <1>0
    <2>3. {l \in 2..L : l <= j} = 2..j
      BY <2>1, <2>2
    <2>4. Cardinality(2..j) = j - 1
      <3>1. 2 \in Int /\ j \in Int /\ j >= 1
        BY <1>0
      <3>2. Cardinality(2..j) = IF 2 > j THEN 0 ELSE j - 2 + 1
        BY <3>1, FS_Interval
      <3> QED BY <3>1, <3>2
    <2> QED BY <1>1, <2>3, <2>4 DEF Count
  <1>3. R \in SUBSET (Nat \ {0}) /\ i + 1 \in R
    BY <1>0, <1>1
  <1>4. Count(R, i + 1) = i /\ Count(R, L) = L - 1
    BY <1>0, <1>2
  <1>5. Kth(R, i) = i + 1
    BY <1>3, <1>4, KthOfCount
  <1>6. Distinct(walk, i, {walk[1]}) = [k \in 1..Lesser(L - 1, i) |-> walk[Kth(R, k)]]
    <2>1. i \in Nat
      BY <1>0
    <2>2. Distinct(walk, i, {walk[1]}) = [k \in 1..Lesser(Count(R, L), i) |-> walk[Kth(R, k)]]
      <3>1. Distinct(walk, i, {walk[1]}) = Collected(walk, R, i)
        BY <2>1, DistinctIs DEF R
      <3> QED BY <3>1 DEF Collected
    <2> QED BY <1>4, <2>2
  <1>7. i \in 1..Lesser(L - 1, i)
    BY <1>0 DEF Lesser
  <1> QED BY <1>5, <1>6, <1>7

\* FirstToken finds a virtual node of the node.
LEMMA FirstTokenIs ==
    ASSUME IInv, NEW p \in nodeVNodes
    PROVE  FirstToken(p) \in DOMAIN vnodes /\ vnodes[FirstToken(p)].NodeID = p
  <1> DEFINE T == {i \in DOMAIN vnodes : vnodes[i].NodeID = p}
  <1>1. 0 \in 0..(virtualCount - 1)
    BY TokensOf
  <1>2. T # {}
    BY <1>1, TokensOf
  <1>3. T \in SUBSET Nat
    BY SeqFacts DEF IInv, TypeOK
  <1>4. FirstToken(p) = Min(T)
    BY DEF FirstToken
  <1>5. Min(T) \in T
    <2> HIDE DEF T
    <2> QED BY <1>2, <1>3, Smallest
  <1> QED BY <1>4, <1>5

\* The search for a token of the ring finds it.
LEMMA StartAtToken ==
    ASSUME IInv, NEW i \in DOMAIN vnodes
    PROVE  StartIdx(vnodes, vnodes[i].Hash) = i /\ vnodes[i].Hash \in Tokens
  <1> DEFINE h == vnodes[i].Hash
             s == StartIdx(vnodes, h)
  <1>0. vnodes \in Seq(VNode)
    BY DEF IInv, TypeOK
  <1>1. /\ DOMAIN vnodes = 1..Len(vnodes) /\ Len(vnodes) \in Nat /\ h \in Tokens
        /\ \A j \in DOMAIN vnodes : vnodes[j].Hash \in Int
    BY <1>0, SeqFacts
  <1>2. vnodes # <<>>
    BY <1>0, <1>1
  <1>3. \A j, k \in DOMAIN vnodes : j < k => vnodes[j].Hash < vnodes[k].Hash
    BY DEF IInv, Increasing
  <1>4. /\ s \in DOMAIN vnodes
        /\ \/ s = 1 /\ \A j \in DOMAIN vnodes : vnodes[j].Hash < h
           \/ h <= vnodes[s].Hash /\ \A j \in DOMAIN vnodes : j < s => vnodes[j].Hash < h
    BY <1>1, <1>2, StartIdxDoes
  <1> HIDE DEF s
  <1>5. ~(i < s) /\ ~(s < i)
    BY <1>1, <1>3, <1>4
  <1>6. s = i
    BY <1>1, <1>4, <1>5
  <1> QED BY <1>1, <1>6 DEF s

\* With one token per node the slice has each member once.
LEMMA OneTokenEach ==
    ASSUME IInv, virtualCount = 1
    PROVE  /\ \A i, j \in DOMAIN vnodes : vnodes[i].NodeID = vnodes[j].NodeID => i = j
           /\ Cardinality(nodeVNodes) = Len(vnodes)
  <1>0. vnodes \in Seq(VNode)
    BY DEF IInv, TypeOK
  <1>1. /\ DOMAIN vnodes = 1..Len(vnodes) /\ Len(vnodes) \in Nat
        /\ IsFiniteSet(DOMAIN vnodes) /\ Cardinality(DOMAIN vnodes) = Len(vnodes)
        /\ \A j \in DOMAIN vnodes : vnodes[j].Hash \in Int
    BY <1>0, SeqFacts
  <1>2. 0..(virtualCount - 1) = {0}
    OBVIOUS
  <1>3. /\ \A j \in DOMAIN vnodes : vnodes[j].NodeID \in nodeVNodes
        /\ \A j \in DOMAIN vnodes : vnodes[j].Hash = hash[vnodes[j].NodeID][0]
        /\ \A m \in nodeVNodes : \E j \in DOMAIN vnodes : vnodes[j].NodeID = m
    BY <1>2, TokensOf
  <1>4. ASSUME NEW i \in DOMAIN vnodes, NEW j \in DOMAIN vnodes, vnodes[i].NodeID = vnodes[j].NodeID
        PROVE  i = j
    <2>1. vnodes[i].Hash = vnodes[j].Hash
      BY <1>3, <1>4
    <2>2. \A a, b \in DOMAIN vnodes : a < b => vnodes[a].Hash < vnodes[b].Hash
      BY DEF IInv, Increasing
    <2> QED BY <1>1, <2>1, <2>2
  <1>5. Cardinality(nodeVNodes) = Cardinality(DOMAIN vnodes)
    <2> DEFINE f == [j \in DOMAIN vnodes |-> vnodes[j].NodeID]
    <2>1. f \in [DOMAIN vnodes -> nodeVNodes]
      BY <1>3
    <2>2. \A x, y \in DOMAIN vnodes : f[x] = f[y] => x = y
      BY <1>4
    <2>3. \A b \in nodeVNodes : \E a \in DOMAIN vnodes : f[a] = b
      BY <1>3
    <2> HIDE DEF f
    <2> QED BY <1>1, <2>1, <2>2, <2>3, SameSize
  <1> QED BY <1>1, <1>4, <1>5

\* GetSuccessorNodes gives the other replicas of the first token of a node, and
\* GetPredecessorNodes is its converse on rings with one token per node.
THEOREM NeighboursAre == Spec => []NeighboursAgree
  <1>1. ASSUME IInv, NEW p \in nodeVNodes, NEW n \in 0..(Cardinality(Nodes) - 1)
        PROVE  GetNodes(vnodes, vnodes[FirstToken(p)].Hash, n + 1) = <<p>> \o GetSuccessorNodes(p, n)
    <2> DEFINE f == FirstToken(p)
               w == Walk(vnodes, f, 1)
    <2>0. n \in Nat
      OBVIOUS
    <2>1. f \in DOMAIN vnodes /\ vnodes[f].NodeID = p
      BY <1>1, FirstTokenIs
    <2>2. StartIdx(vnodes, vnodes[f].Hash) = f
      BY <1>1, <2>1, StartAtToken
    <2>3. vnodes \in Seq(VNode) /\ vnodes # <<>> /\ DOMAIN vnodes = 1..Len(vnodes) /\ Len(vnodes) \in Nat \ {0}
      BY <1>1, <2>1 DEF IInv, TypeOK
    <2> HIDE DEF f
    <2>4. /\ w \in Seq(Nodes) /\ Len(w) = Len(vnodes) /\ 1 \in 1..Len(vnodes)
          /\ w[1] = vnodes[Ahead(f, 1)].NodeID
      <3>1. 1 \in 1..Len(vnodes)
        BY <2>3
      <3>2. w \in Seq(Nodes) /\ Len(w) = Len(vnodes)
        BY <1>1, <2>1, WalkIs
      <3>3. w[1] = vnodes[Ahead(f, 1)].NodeID
        BY <1>1, <2>1, <3>1, WalkIs
      <3> QED BY <3>1, <3>2, <3>3
    <2>5. Ahead(f, 1) = f
      BY <2>1, <2>3 DEF Ahead
    <2>6. w[1] = p /\ w # <<>>
      BY <2>1, <2>3, <2>4, <2>5
    <2>7. GetNodes(vnodes, vnodes[f].Hash, n + 1) = Distinct(w, n + 1, {})
      BY <2>2, <2>3 DEF GetNodes
    <2>8. GetSuccessorNodes(p, n) = Distinct(w, n, {p})
      BY DEF GetSuccessorNodes, f
    <2> HIDE DEF w
    <2>9. Distinct(w, n + 1, {}) = <<w[1]>> \o Distinct(w, n, {w[1]})
      BY <2>0, <2>4, <2>6, LeaveOutFirst
    <2> QED BY <2>6, <2>7, <2>8, <2>9 DEF f
  <1>2. ASSUME IInv, virtualCount = 1, NEW p \in nodeVNodes, NEW q \in nodeVNodes,
               NEW i \in 1..(Cardinality(nodeVNodes) - 1)
        PROVE  GetSuccessorNodes(p, i)[i] = q <=> GetPredecessorNodes(q, i)[i] = p
    <2> DEFINE L == Len(vnodes)
               fp == FirstToken(p)
               fq == FirstToken(q)
               wp == Walk(vnodes, fp, 1)
               wq == Walk(vnodes, fq, -1)
    <2>0. vnodes \in Seq(VNode)
      BY <1>2 DEF IInv, TypeOK
    <2>1. /\ \A a, b \in DOMAIN vnodes : vnodes[a].NodeID = vnodes[b].NodeID => a = b
          /\ L \in Nat /\ DOMAIN vnodes = 1..L /\ i \in 1..(L - 1)
      BY <1>2, <2>0, OneTokenEach, SeqFacts
    <2>2. /\ fp \in 1..L /\ vnodes[fp].NodeID = p
          /\ fq \in 1..L /\ vnodes[fq].NodeID = q
      BY <1>2, <2>1, FirstTokenIs
    <2> HIDE DEF fp, fq
    <2>3. /\ wp \in Seq(Nodes) /\ Len(wp) = L /\ DOMAIN wp = 1..L
          /\ wq \in Seq(Nodes) /\ Len(wq) = L /\ DOMAIN wq = 1..L
          /\ \A k \in 1..L : Ahead(fp, k) \in 1..L /\ wp[k] = vnodes[Ahead(fp, k)].NodeID
          /\ \A k \in 1..L : Back(fq, k) \in 1..L /\ wq[k] = vnodes[Back(fq, k)].NodeID
      BY <1>2, <2>1, <2>2, WalkIs
    <2>4. \A a, b \in 1..L : (Ahead(fp, a) = Ahead(fp, b) => a = b) /\ (Back(fq, a) = Back(fq, b) => a = b)
      BY <2>1, <2>2 DEF Ahead, Back
    <2>5. GetSuccessorNodes(p, i) = Distinct(wp, i, {p}) /\ GetPredecessorNodes(q, i) = Distinct(wq, i, {q})
      BY DEF GetSuccessorNodes, GetPredecessorNodes, fp, fq
    <2> HIDE DEF wp, wq
    <2>6. \A a, b \in 1..L : (wp[a] = wp[b] => a = b) /\ (wq[a] = wq[b] => a = b)
      <3> SUFFICES ASSUME NEW a \in 1..L, NEW b \in 1..L
                   PROVE  (wp[a] = wp[b] => a = b) /\ (wq[a] = wq[b] => a = b)
        OBVIOUS
      <3>1. /\ Ahead(fp, a) \in 1..L /\ wp[a] = vnodes[Ahead(fp, a)].NodeID
            /\ Ahead(fp, b) \in 1..L /\ wp[b] = vnodes[Ahead(fp, b)].NodeID
            /\ Back(fq, a) \in 1..L /\ wq[a] = vnodes[Back(fq, a)].NodeID
            /\ Back(fq, b) \in 1..L /\ wq[b] = vnodes[Back(fq, b)].NodeID
        BY <2>3
      <3>2. wp[a] = wp[b] => Ahead(fp, a) = Ahead(fp, b)
        BY <2>1, <3>1
      <3>3. wq[a] = wq[b] => Back(fq, a) = Back(fq, b)
        BY <2>1, <3>1
      <3> QED BY <2>4, <3>2, <3>3
    <2>7. wp[1] = p /\ wq[1] = q
      <3>1. Ahead(fp, 1) = fp /\ Back(fq, 1) = fq /\ 1 \in 1..L
        BY <2>1, <2>2 DEF Ahead, Back
      <3> QED BY <2>2, <2>3, <3>1
    <2>8. Distinct(wp, i, {wp[1]})[i] = wp[i + 1] /\ Distinct(wq, i, {wq[1]})[i] = wq[i + 1]
      <3>1. \A a, b \in DOMAIN wp : wp[a] = wp[b] => a = b
        BY <2>3, <2>6
      <3>2. \A a, b \in DOMAIN wq : wq[a] = wq[b] => a = b
        BY <2>3, <2>6
      <3>3. i \in 1..(Len(wp) - 1) /\ i \in 1..(Len(wq) - 1)
        BY <2>1, <2>3
      <3>4. Distinct(wp, i, {wp[1]})[i] = wp[i + 1]
        BY <2>3, <3>1, <3>3, StraightOn
      <3>5. Distinct(wq, i, {wq[1]})[i] = wq[i + 1]
        BY <2>3, <3>2, <3>3, StraightOn
      <3> QED BY <3>4, <3>5
    <2>9. i + 1 \in 1..L
      BY <2>1
    <2>10. /\ wp[i + 1] = q <=> Ahead(fp, i + 1) = fq
           /\ wq[i + 1] = p <=> Back(fq, i + 1) = fp
      <3>1. /\ Ahead(fp, i + 1) \in 1..L /\ wp[i + 1] = vnodes[Ahead(fp, i + 1)].NodeID
            /\ Back(fq, i + 1) \in 1..L /\ wq[i + 1] = vnodes[Back(fq, i + 1)].NodeID
        BY <2>3, <2>9
      <3> QED BY <2>1, <2>2, <3>1
    <2>11. Ahead(fp, i + 1) = fq <=> Back(fq, i + 1) = fp
      BY <2>1, <2>2 DEF Ahead, Back
    <2> QED BY <2>5, <2>7, <2>8, <2>10, <2>11
  <1>3. IInv => NeighboursAgree
    BY <1>1, <1>2 DEF NeighboursAgree
  <1> QED BY <1>3, Invariance, PTL

-----------------------------------------------------------------------------
(***************************************************************************)
(* Load.                                                                   *)
(***************************************************************************)

\* The positions of the virtual nodes of n in the slice.
Mine(n) == {i \in DOMAIN vnodes : vnodes[i].NodeID = n}

\* The sum over the ranges of a node is what any function computes that adds one
\* range after the other.
LEMMA NodeLoadIs ==
    ASSUME IInv, NEW n, NEW G \in [SUBSET Mine(n) -> Nat], G[{}] = 0,
           \A s \in SUBSET Mine(n) : \A x \in s : G[s] = RangeSize(GetTokenRanges[x]) + G[s \ {x}]
    PROVE  NodeLoad(n) = G[Mine(n)] % Space
  <1> DEFINE S == Mine(n)
             one(s) == CHOOSE x \in s : TRUE
             body(f) == [s \in SUBSET S |->
                           IF s = {} THEN 0 ELSE RangeSize(GetTokenRanges[one(s)]) + f[s \ {one(s)}]]
             iter == CHOOSE f : f = body(f)
  <1>1. NodeLoad(n) = iter[S] % Space
    BY DEF NodeLoad, MapThenSumSet, MapThenFoldSet, Mine
  <1>2. \A s \in SUBSET S : s # {} => one(s) \in s
    OBVIOUS
  <1> HIDE DEF S, one
  <1>3. G = body(G)
    <2>1. ASSUME NEW s \in SUBSET S
          PROVE  G[s] = IF s = {} THEN 0 ELSE RangeSize(GetTokenRanges[one(s)]) + G[s \ {one(s)}]
      <3>1. CASE s = {}
        BY <3>1
      <3>2. CASE s # {}
        BY <1>2, <3>2 DEF S
      <3> QED BY <3>1, <3>2
    <2>2. G = [s \in SUBSET S |-> G[s]]
      BY DEF S
    <2> QED BY <2>1, <2>2
  <1>4. iter = body(iter)
    <2> HIDE DEF body
    <2> QED BY <1>3
  <1> HIDE DEF iter
  <1>5. IsFiniteSet(S)
    <2>1. IsFiniteSet(DOMAIN vnodes)
      BY SeqFacts DEF IInv, TypeOK
    <2> QED BY <2>1, FS_Subset DEF S, Mine
  <1>6. \A s \in SUBSET S : IsFiniteSet(s) /\ Cardinality(s) \in Nat
    BY <1>5, FS_Subset, FS_CardinalityType
  <1>7. ASSUME NEW s0 \in SUBSET S, iter[s0] # G[s0] PROVE FALSE
    <2> DEFINE T == {Cardinality(s) : s \in {u \in SUBSET S : iter[u] # G[u]}}
    <2>1. T \in SUBSET Nat /\ T # {}
      BY <1>6, <1>7
    <2>2. PICK m \in T : \A k \in T : m <= k
      <3>1. Min(T) \in T /\ \A k \in T : Min(T) <= k
        <4> HIDE DEF T
        <4> QED BY <2>1, Smallest
      <3> QED BY <3>1
    <2>3. PICK s \in SUBSET S : iter[s] # G[s] /\ Cardinality(s) = m
      BY <2>2
    <2>4. CASE s = {}
      BY <1>3, <1>4, <2>3, <2>4
    <2>5. CASE s # {}
      <3> DEFINE x == one(s)
                 u == s \ {x}
      <3>1. x \in s /\ u \in SUBSET S
        BY <1>2, <2>5
      <3>2. Cardinality(u) = Cardinality(s) - 1
        <4> HIDE DEF x
        <4> QED BY <1>6, <3>1, FS_RemoveElement
      <3>3. Cardinality(u) \notin T
        <4>1. Cardinality(s) \in Nat /\ ~(Cardinality(s) <= Cardinality(s) - 1)
          BY <1>6
        <4> HIDE DEF u, T
        <4> QED BY <2>2, <2>3, <3>2, <4>1
      <3>4. iter[u] = G[u]
        <4> HIDE DEF u
        <4> QED BY <3>1, <3>3
      <3>5. iter[s] = RangeSize(GetTokenRanges[x]) + iter[u] /\ G[s] = RangeSize(GetTokenRanges[x]) + G[u]
        BY <1>3, <1>4, <2>5
      <3> QED BY <2>3, <3>4, <3>5
    <2> QED BY <2>4, <2>5
  <1>8. iter[S] = G[S]
    BY <1>7
  <1> QED BY <1>1, <1>8 DEF S

\* The tokens whose search ends at a position of s.
Owned(s) == {t \in Tokens : StartIdx(vnodes, t) \in s}

\* The size of a range is the number of its tokens, unless it is all of them, which
\* a uint64 cannot hold.
LEMMA RangeSizeIs ==
    ASSUME IInv, NEW j \in DOMAIN vnodes
    PROVE  RangeSize(GetTokenRanges[j]) = IF Len(vnodes) = 1 THEN 0 ELSE Cardinality(Owned({j}))
  <1> DEFINE k == IF j = 1 THEN Len(vnodes) ELSE j - 1
             a == vnodes[k].Hash
             b == vnodes[j].Hash
             r == GetTokenRanges[j]
             L == Len(vnodes)
  <1>0. vnodes \in Seq(VNode)
    BY DEF IInv, TypeOK
  <1>1. DOMAIN vnodes = 1..L /\ L \in Nat /\ vnodes # <<>>
    BY <1>0, SeqFacts
  <1>2. k \in DOMAIN vnodes
    BY <1>1
  <1>3. a \in 0..(Space - 1) /\ b \in 0..(Space - 1) /\ Space \in Nat \ {0}
    <2>1. a \in Tokens /\ b \in Tokens
      BY <1>0, <1>2, SeqFacts
    <2> QED BY <2>1, SpacePositive DEF Tokens
  <1>4. r.start = (a + 1) % Space /\ r.end = b
    BY DEF GetTokenRanges
  <1>5. IF L = 1 THEN a = b ELSE IF j = 1 THEN b < a ELSE a < b
    <2>1. \A l, m \in DOMAIN vnodes : l < m => vnodes[l].Hash < vnodes[m].Hash
      BY DEF IInv, Increasing
    <2>2. (L = 1 => k = j) /\ (L # 1 /\ j = 1 => j < k) /\ (j # 1 => k < j)
      BY <1>1
    <2>3. (j < k => b < a) /\ (k < j => a < b) /\ (j # 1 => L # 1)
      BY <1>1, <1>2, <2>1
    <2> QED BY <2>2, <2>3
  <1>6. r.start = IF a = Space - 1 THEN 0 ELSE a + 1
    <2>1. a + 1 \in 0..Space
      BY <1>3
    <2> HIDE DEF a
    <2>2. (a + 1) % Space = IF a + 1 = Space THEN 0 ELSE a + 1
      BY <1>3, <2>1, ModFacts
    <2> QED BY <1>3, <1>4, <2>2
  <1>7. \A t \in Tokens : t \in Owned({j}) <=>
           IF j = 1 THEN t <= b \/ a < t ELSE a < t /\ t <= b
    <2> SUFFICES ASSUME NEW t \in Tokens
                 PROVE  t \in Owned({j}) <=> IF j = 1 THEN t <= b \/ a < t ELSE a < t /\ t <= b
      OBVIOUS
    <2>1. t \in Owned({j}) <=> InRange(t, GetTokenRanges[j])
      BY <1>1, RangeOfToken DEF Owned
    <2> QED BY <2>1, RangeHolds
  <1>8. Owned({j}) \subseteq Tokens
    BY DEF Owned
  <1> HIDE DEF a, b, r, k, L
  <1>9. CASE L = 1
    <2>1. a = b
      BY <1>5, <1>9
    <2>2. RangeSize(r) = 0
      <3>1. CASE a = Space - 1
        <4>1. RangeSize(r) = Space % Space
          <5>1. b - 0 + 1 = Space /\ b >= 0
            BY <1>3, <2>1, <3>1
          <5> QED BY <1>4, <1>6, <3>1, <5>1 DEF RangeSize
        <4> QED BY <1>3, <4>1
      <3>2. CASE a # Space - 1
        <4>1. RangeSize(r) = Space % Space
          <5>1. (Space - 1 - (a + 1)) + b + 2 = Space /\ ~(b >= a + 1)
            BY <1>3, <2>1
          <5> QED BY <1>4, <1>6, <3>2, <5>1 DEF RangeSize
        <4> QED BY <1>3, <4>1
      <3> QED BY <3>1, <3>2
    <2> QED BY <1>9, <2>2 DEF r, L
  <1>10. CASE L # 1 /\ j # 1
    <2>1. a < b
      BY <1>5, <1>10
    <2>2. RangeSize(r) = b - a
      <3>1. a # Space - 1 /\ b >= a + 1 /\ b - (a + 1) + 1 = b - a /\ b - a \in 0..Space /\ b - a # Space
        BY <1>3, <2>1
      <3>2. RangeSize(r) = (b - a) % Space
        BY <1>4, <1>6, <3>1 DEF RangeSize
      <3>3. (b - a) % Space = IF b - a = Space THEN 0 ELSE b - a
        BY <1>3, <3>1, ModFacts
      <3> QED BY <3>1, <3>2, <3>3
    <2>3. Owned({j}) = (a + 1)..b
      <3>1. \A t \in Tokens : t \in Owned({j}) <=> t \in (a + 1)..b
        <4>1. \A t \in Tokens : a < t /\ t <= b <=> t \in (a + 1)..b
          BY <1>3 DEF Tokens
        <4> QED BY <1>7, <1>10, <4>1
      <3>2. (a + 1)..b \subseteq Tokens
        BY <1>3 DEF Tokens
      <3> QED BY <1>8, <3>1, <3>2
    <2>4. Cardinality((a + 1)..b) = b - a
      <3>1. Cardinality((a + 1)..b) = IF a + 1 > b THEN 0 ELSE b - (a + 1) + 1
        BY <1>3, FS_Interval
      <3> QED BY <1>3, <2>1, <3>1
    <2> QED BY <1>10, <2>2, <2>3, <2>4 DEF r, L
  <1>11. CASE L # 1 /\ j = 1
    <2>1. b < a
      BY <1>5, <1>11
    <2> DEFINE c == Space - a + b
    <2>2. c \in 0..Space /\ c # Space /\ c \in Nat
      BY <1>3, <2>1
    <2>3. RangeSize(r) = c
      <3>1. c % Space = IF c = Space THEN 0 ELSE c
        <4> HIDE DEF c
        <4> QED BY <1>3, <2>2, ModFacts
      <3>2. CASE a = Space - 1
        <4>1. b - 0 + 1 = c /\ b >= 0
          BY <1>3, <3>2
        <4>2. RangeSize(r) = c % Space
          BY <1>4, <1>6, <3>2, <4>1 DEF RangeSize
        <4> QED BY <2>2, <3>1, <4>2
      <3>3. CASE a # Space - 1
        <4>1. (Space - 1 - (a + 1)) + b + 2 = c /\ ~(b >= a + 1)
          BY <1>3, <2>1
        <4>2. RangeSize(r) = c % Space
          BY <1>4, <1>6, <3>3, <4>1 DEF RangeSize
        <4> QED BY <2>2, <3>1, <4>2
      <3> QED BY <3>2, <3>3
    <2> DEFINE lo == 0..b
               hi == (a + 1)..(Space - 1)
    <2>4. Owned({j}) = lo \cup hi
      <3>1. \A t \in Tokens : t \in Owned({j}) <=> t \in lo \cup hi
        <4>1. \A t \in Tokens : t <= b \/ a < t <=> t \in lo \cup hi
          BY <1>3 DEF Tokens
        <4> QED BY <1>7, <1>11, <4>1
      <3>2. lo \cup hi \subseteq Tokens
        BY <1>3 DEF Tokens
      <3> QED BY <1>8, <3>1, <3>2
    <2>5. lo \cap hi = {}
      BY <1>3, <2>1
    <2>6. /\ IsFiniteSet(lo) /\ Cardinality(lo) = b + 1
          /\ IsFiniteSet(hi) /\ Cardinality(hi) = Space - 1 - a
      <3>1. IsFiniteSet(lo) /\ Cardinality(lo) = IF 0 > b THEN 0 ELSE b - 0 + 1
        BY <1>3, FS_Interval
      <3>2. IsFiniteSet(hi) /\ Cardinality(hi) = IF a + 1 > Space - 1 THEN 0 ELSE (Space - 1) - (a + 1) + 1
        BY <1>3, FS_Interval
      <3> QED BY <1>3, <3>1, <3>2
    <2> HIDE DEF lo, hi, c
    <2>7. Cardinality(lo \cup hi) = Cardinality(lo) + Cardinality(hi) - Cardinality(lo \cap hi)
      BY <2>6, FS_Union
    <2>8. Cardinality(lo \cup hi) = c
      BY <1>3, <2>5, <2>6, <2>7, FS_EmptySet DEF c
    <2> QED BY <1>11, <2>3, <2>4, <2>8 DEF r, L
  <1> QED BY <1>9, <1>10, <1>11

\* Two finite sets without a common member count together what they count apart.
LEMMA CardinalityOfParts ==
    ASSUME NEW X, NEW Y, IsFiniteSet(X), IsFiniteSet(Y), X \cap Y = {}
    PROVE  Cardinality(X \cup Y) = Cardinality(X) + Cardinality(Y)
  <1> DEFINE a == Cardinality(X)
             b == Cardinality(Y)
             c == Cardinality(X \cup Y)
             d == Cardinality(X \cap Y)
  <1>1. a \in Nat /\ b \in Nat
    BY FS_CardinalityType
  <1>2. c = a + b - d
    BY FS_Union
  <1>3. d = 0
    BY FS_EmptySet
  <1> HIDE DEF a, b, c, d
  <1>4. c = a + b
    BY <1>1, <1>2, <1>3
  <1> QED BY <1>4 DEF a, b, c

\* CalculateLoadDistribution counts the tokens of every node, on every ring: ranges
\* that wrap around included, and the whole space modulo 2^Width.
THEOREM LoadsCounted == Spec => []LoadCountsTokens
  <1>1. ASSUME IInv, vnodes # <<>>, NEW n \in nodeVNodes
        PROVE  NodeLoad(n) = Cardinality({t \in Tokens : GetNode(t) = n}) % Space
    <2> DEFINE S == Mine(n)
    <2>0. vnodes \in Seq(VNode)
      BY <1>1 DEF IInv, TypeOK
    <2>1. DOMAIN vnodes = 1..Len(vnodes) /\ Len(vnodes) \in Nat \ {0}
      BY <1>1, <2>0
    <2>2. \A t \in Tokens : StartIdx(vnodes, t) \in DOMAIN vnodes
      BY <1>1, StartIdxDoes
    <2>3. {t \in Tokens : GetNode(t) = n} = Owned(S)
      BY <2>2 DEF Owned, Mine, GetNode
    <2>4. S \subseteq DOMAIN vnodes
      BY DEF Mine
    <2>5. IsFiniteSet(Tokens) /\ Cardinality(Tokens) = Space /\ Space \in Nat \ {0}
      <3>1. Space \in Nat \ {0} /\ 0 \in Int /\ Space - 1 \in Int
        BY SpacePositive
      <3>2. IsFiniteSet(Tokens) /\ Cardinality(Tokens) = IF 0 > Space - 1 THEN 0 ELSE (Space - 1) - 0 + 1
        BY <3>1, FS_Interval DEF Tokens
      <3> QED BY <3>1, <3>2
    <2>6. \A s : IsFiniteSet(Owned(s)) /\ Cardinality(Owned(s)) \in Nat
      <3> SUFFICES ASSUME NEW s PROVE IsFiniteSet(Owned(s)) /\ Cardinality(Owned(s)) \in Nat
        OBVIOUS
      <3>1. Owned(s) \in SUBSET Tokens
        BY DEF Owned
      <3> QED BY <2>5, <3>1, FS_Subset, FS_CardinalityType
    <2> HIDE DEF S
    <2>7. CASE Len(vnodes) = 1
      <3> DEFINE G == [s \in SUBSET S |-> 0]
      <3>1. G \in [SUBSET S -> Nat] /\ G[{}] = 0
        OBVIOUS
      <3>2. \A s \in SUBSET S : \A x \in s : G[s] = RangeSize(GetTokenRanges[x]) + G[s \ {x}]
        <4> SUFFICES ASSUME NEW s \in SUBSET S, NEW x \in s
                     PROVE  G[s] = RangeSize(GetTokenRanges[x]) + G[s \ {x}]
          OBVIOUS
        <4>1. x \in DOMAIN vnodes /\ s \ {x} \in SUBSET S
          BY <2>4
        <4>2. RangeSize(GetTokenRanges[x]) = 0
          BY <1>1, <2>7, <4>1, RangeSizeIs
        <4> QED BY <4>1, <4>2
      <3>3. G[S] = 0
        OBVIOUS
      <3> HIDE DEF G
      <3>4. NodeLoad(n) = 0 % Space
        BY <1>1, <3>1, <3>2, <3>3, NodeLoadIs DEF S
      <3>5. Owned(S) = Tokens
        <4>1. \A j \in DOMAIN vnodes : vnodes[j].NodeID = n
          <5>1. 0 \in 0..(virtualCount - 1)
            BY <1>1, TokensOf
          <5>2. PICK i \in DOMAIN vnodes : vnodes[i].NodeID = n
            BY <1>1, <5>1, TokensOf
          <5> QED BY <2>1, <2>7, <5>2
        <4> QED BY <2>2, <4>1 DEF Owned, S, Mine
      <3>6. 0 % Space = Space % Space
        BY <2>5
      <3> QED BY <2>3, <2>5, <3>4, <3>5, <3>6
    <2>8. CASE Len(vnodes) # 1
      <3> DEFINE G == [s \in SUBSET S |-> Cardinality(Owned(s))]
      <3>1. G \in [SUBSET S -> Nat]
        BY <2>6
      <3>2. G[{}] = 0
        <4>1. Owned({}) = {}
          BY DEF Owned
        <4> QED BY <4>1, FS_EmptySet
      <3>3. \A s \in SUBSET S : \A x \in s : G[s] = RangeSize(GetTokenRanges[x]) + G[s \ {x}]
        <4> SUFFICES ASSUME NEW s \in SUBSET S, NEW x \in s
                     PROVE  G[s] = RangeSize(GetTokenRanges[x]) + G[s \ {x}]
          OBVIOUS
        <4> DEFINE u == s \ {x}
        <4>1. x \in DOMAIN vnodes /\ u \in SUBSET S
          BY <2>4
        <4>2. Owned(s) = Owned({x}) \cup Owned(u) /\ Owned({x}) \cap Owned(u) = {}
          BY DEF Owned
        <4>3. RangeSize(GetTokenRanges[x]) = Cardinality(Owned({x}))
          BY <1>1, <2>8, <4>1, RangeSizeIs
        <4> HIDE DEF u
        <4>4. IsFiniteSet(Owned({x})) /\ IsFiniteSet(Owned(u))
          BY <2>6
        <4>5. Cardinality(Owned(s)) = Cardinality(Owned({x})) + Cardinality(Owned(u))
          BY <4>2, <4>4, CardinalityOfParts
        <4>6. G[s] = Cardinality(Owned(s)) /\ G[u] = Cardinality(Owned(u))
          BY <4>1
        <4> QED BY <4>3, <4>5, <4>6 DEF u
      <3>4. G[S] = Cardinality(Owned(S))
        OBVIOUS
      <3> HIDE DEF G
      <3>5. NodeLoad(n) = G[S] % Space
        BY <1>1, <3>1, <3>2, <3>3, NodeLoadIs DEF S
      <3> QED BY <2>3, <3>4, <3>5
    <2> QED BY <2>7, <2>8
  <1>2. IInv => LoadCountsTokens
    BY <1>1 DEF LoadCountsTokens
  <1> QED BY <1>2, Invariance, PTL

=============================================================================
