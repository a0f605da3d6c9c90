---------------------------- MODULE GossipProofs ----------------------------
(***************************************************************************)
(* Proofs about membership, failure detection and gossip, for every set of *)
(* nodes, seeds and timeouts: type correctness, that a node keeps serving  *)
(* itself, that heartbeats only advance and, for prompt loops, that dead   *)
(* nodes are off the ring.                                                 *)
(***************************************************************************)
EXTENDS Gossip, TLAPS

-----------------------------------------------------------------------------
(***************************************************************************)
(* The inductive invariant.                                                *)
(***************************************************************************)

DetType ==
    [pc : {"idle", "pick", "switch", "set", "compare", "notify", "call"},
     todo : SUBSET Nodes, elapsed : [Nodes -> Ages], cur : Nodes,
     old : States, new : States]

RcvType ==
    [pc : {"idle", "record", "revive", "reset", "again", "call", "merge"},
     from : Nodes, old : States, members : Lists]

\* The detection loop only works on members of the list, never on the node
\* itself.
DetOK(n) ==
    /\ \A m \in det[n].todo : m # n /\ members[n][m] # Unknown
    /\ det[n].pc \in {"idle", "pick"} \/ det[n].cur \in det[n].todo

\* The sender whose heartbeat is being recorded is a member of the list.
RcvOK(n) ==
    rcv[n].pc \in {"record", "revive", "reset", "again", "call"} => members[n][rcv[n].from] # Unknown

IInv ==
    /\ TypeOK
    /\ SelfServes
    /\ \A n \in Nodes : DetOK(n) /\ RcvOK(n)

\* Members stay members, and a heartbeat that is replaced is replaced by one as
\* recent.
Advances(list, next) ==
    \A m \in Nodes : list[m] # Unknown => next[m] # Unknown /\ next[m].age <= list[m].age

-----------------------------------------------------------------------------
(***************************************************************************)
(* Entries of lists.                                                       *)
(***************************************************************************)

LEMMA CapNat == Cap \in Nat /\ 0 \in Ages
  BY GossipConstants DEF Cap, Ages

LEMMA EntryFacts ==
    ASSUME NEW e \in Member \cup {Unknown}
    PROVE  /\ e = Unknown <=> e.state = "unknown"
           /\ e # Unknown => e \in Member /\ e.state \in States /\ e.age \in Ages
           /\ e.age \in Ages
  BY CapNat DEF Member, Unknown, States

\* What the two methods that set an entry do to it.
LEMMA UpdateStateDoes ==
    ASSUME TypeOK, NEW n \in Nodes, NEW m \in Nodes, NEW s \in States,
           members[n][m] # Unknown, UpdateState(n, m, s)
    PROVE  /\ members' \in [Nodes -> Lists]
           /\ members'[n][m] # Unknown /\ members'[n][m].state = s
           /\ \A j, k \in Nodes : j # n \/ k # m => members'[j][k] = members[j][k]
           /\ \A j \in Nodes : Advances(members[j], members'[j])
  <1> DEFINE e == [state |-> s, age |-> IF s = "alive" THEN 0 ELSE members[n][m].age]
  <1>1. members \in [Nodes -> Lists] /\ members[n] \in Lists /\ members[n][m] \in Member \cup {Unknown}
    BY DEF TypeOK, Lists
  <1>2. e \in Member /\ e # Unknown /\ e.age <= members[n][m].age
    <2>1. members[n][m].age \in Ages
      BY <1>1, EntryFacts
    <2>2. e \in Member /\ e.age <= members[n][m].age
      BY <2>1, CapNat DEF Member, Ages
    <2> QED BY <2>2 DEF Unknown, States
  <1>3. members' = [members EXCEPT ![n][m] = e]
    BY DEF UpdateState
  <1> HIDE DEF e
  <1>4. members' \in [Nodes -> Lists]
    BY <1>1, <1>2, <1>3 DEF Lists
  <1>5. members'[n][m] = e
    BY <1>1, <1>3 DEF Lists
  <1>6. \A j, k \in Nodes : j # n \/ k # m => members'[j][k] = members[j][k]
    BY <1>1, <1>3 DEF Lists
  <1>7. \A j \in Nodes : Advances(members[j], members'[j])
    <2> SUFFICES ASSUME NEW j \in Nodes, NEW k \in Nodes, members[j][k] # Unknown
                 PROVE  members'[j][k] # Unknown /\ members'[j][k].age <= members[j][k].age
      BY DEF Advances
    <2>1. members[j][k].age \in Nat
      <3>1. members[j][k] \in Member \cup {Unknown}
        BY DEF TypeOK, Lists
      <3> QED BY <3>1, EntryFacts, CapNat DEF Ages
    <2> QED BY <2>1, <1>2, <1>5, <1>6
  <1> QED BY <1>4, <1>5, <1>6, <1>7, <1>2 DEF e

LEMMA RecordHeartbeatDoes ==
    ASSUME TypeOK, NEW n \in Nodes, NEW m \in Nodes, members[n][m] # Unknown,
           RecordHeartbeat(n, m)
    PROVE  /\ members' \in [Nodes -> Lists]
           /\ members'[n][m] # Unknown /\ members'[n][m].state = "alive"
           /\ \A j, k \in Nodes : j # n \/ k # m => members'[j][k] = members[j][k]
           /\ \A j \in Nodes : Advances(members[j], members'[j])
  <1>1. UpdateState(n, m, "alive")
    BY DEF RecordHeartbeat, UpdateState, TypeOK, Lists
  <1> QED BY <1>1, UpdateStateDoes DEF States

\* Merge adds members and takes newer heartbeats; the node itself it leaves alone.
LEMMA MergedDoes ==
    ASSUME NEW n \in Nodes, NEW list \in Lists, NEW other \in Lists
    PROVE  /\ Merged(n, list, other) \in Lists
           /\ Merged(n, list, other)[n] = list[n]
           /\ Advances(list, Merged(n, list, other))
  <1> DEFINE new == Merged(n, list, other)
  <1>1. ASSUME NEW m \in Nodes
        PROVE  /\ new[m] \in Member \cup {Unknown}
               /\ list[m] # Unknown => new[m] # Unknown /\ new[m].age <= list[m].age
    <2>1. list[m] \in Member \cup {Unknown} /\ other[m] \in Member \cup {Unknown}
      BY DEF Lists
    <2>2. list[m].age \in Nat /\ other[m].age \in Nat /\ list[m].age \in Ages /\ other[m].age \in Ages
      BY <2>1, EntryFacts, CapNat DEF Ages
    <2>3. CASE m = n \/ other[m] = Unknown
      BY <2>1, <2>2, <2>3 DEF Merged
    <2>4. CASE ~(m = n \/ other[m] = Unknown) /\ list[m] = Unknown
      BY <2>1, <2>2, <2>4 DEF Merged
    <2>5. CASE ~(m = n \/ other[m] = Unknown) /\ list[m] # Unknown
      <3> DEFINE a == IF other[m].age < list[m].age THEN other[m].age ELSE list[m].age
      <3>1. new[m] = [list[m] EXCEPT !.age = a]
        BY <2>5 DEF Merged
      <3>2. list[m] \in Member /\ a \in Ages /\ a <= list[m].age
        BY <2>1, <2>2, <2>5
      <3> HIDE DEF a
      <3>3. [list[m] EXCEPT !.age = a] \in Member /\ [list[m] EXCEPT !.age = a].age = a
        BY <3>2 DEF Member
      <3>4. \A e \in Member : e # Unknown
        BY DEF Member, Unknown, States
      <3> QED BY <3>1, <3>2, <3>3, <3>4
    <2> QED BY <2>3, <2>4, <2>5
  <1>2. new \in Lists
    BY <1>1 DEF Lists, Merged
  <1>3. new[n] = list[n]
    BY DEF Merged
  <1> QED BY <1>1, <1>2, <1>3 DEF Advances

\* Time changes ages only.
LEMMA AgedDoes ==
    ASSUME NEW list \in Lists
    PROVE  /\ Aged(list) \in Lists
           /\ \A m \in Nodes : /\ Aged(list)[m] = Unknown <=> list[m] = Unknown
                               /\ Aged(list)[m].state = list[m].state
  <1>1. ASSUME NEW m \in Nodes
        PROVE  /\ Aged(list)[m] \in Member \cup {Unknown}
               /\ Aged(list)[m] = Unknown <=> list[m] = Unknown
               /\ Aged(list)[m].state = list[m].state
    <2>1. list[m] \in Member \cup {Unknown}
      BY DEF Lists
    <2>2. CASE list[m] = Unknown
      BY <2>2 DEF Aged
    <2>3. CASE list[m] # Unknown
      <3> DEFINE a == IF list[m].age < Cap THEN list[m].age + 1 ELSE list[m].age
      <3>1. Aged(list)[m] = [list[m] EXCEPT !.age = a]
        BY <2>3 DEF Aged
      <3>2. list[m] \in Member /\ a \in Ages
        BY <2>1, <2>3, CapNat, EntryFacts DEF Ages
      <3> HIDE DEF a
      <3>3. [list[m] EXCEPT !.age = a] \in Member /\ [list[m] EXCEPT !.age = a].state = list[m].state
        BY <3>2 DEF Member
      <3>4. \A e \in Member : e # Unknown
        BY DEF Member, Unknown, States
      <3> QED BY <3>1, <3>2, <3>3, <3>4, <2>3
    <2> QED BY <2>2, <2>3
  <1> QED BY <1>1 DEF Lists, Aged

-----------------------------------------------------------------------------
(***************************************************************************)
(* Steps of the detection loop.                                            *)
(***************************************************************************)

LEMMA TypeFacts ==
    ASSUME TypeOK, NEW n \in Nodes
    PROVE  /\ det \in [Nodes -> DetType] /\ det[n] \in DetType
           /\ rcv \in [Nodes -> RcvType] /\ rcv[n] \in RcvType
           /\ members[n] \in Lists /\ \A m \in Nodes : members[n][m] \in Member \cup {Unknown}
           /\ Sleeping \in DetType /\ Listening \in RcvType
  <1>1. Sleeping \in DetType
    BY CapNat DEF Sleeping, DetType, States
  <1>2. Listening \in RcvType
    BY DEF Listening, RcvType, States, Lists
  <1> QED BY <1>1, <1>2 DEF TypeOK, DetType, RcvType, Lists

\* A step that only moves the detection loop of n, to d.
LEMMA DetMoves ==
    ASSUME IInv, NEW n \in Nodes, NEW d \in DetType, det' = [det EXCEPT ![n] = d],
           UNCHANGED <<up, peers, members, ring, removed, rcv, net>>,
           ticked' \in [Nodes -> BOOLEAN],
           \A m \in d.todo : m # n /\ members[n][m] # Unknown,
           d.pc \in {"idle", "pick"} \/ d.cur \in d.todo
    PROVE  IInv'
  <1>0. TypeOK /\ det \in [Nodes -> DetType]
    BY TypeFacts DEF IInv
  <1>1. det' \in [Nodes -> DetType] /\ det'[n] = d /\ \A j \in Nodes : j # n => det'[j] = det[j]
    BY <1>0
  <1>2. TypeOK'
    BY <1>0, <1>1 DEF TypeOK, DetType
  <1>3. SelfServes'
    BY DEF IInv, SelfServes
  <1>4. ASSUME NEW j \in Nodes PROVE (DetOK(j) /\ RcvOK(j))'
    <2>1. DetOK(j) /\ RcvOK(j)
      BY DEF IInv
    <2>2. RcvOK(j)'
      BY <2>1 DEF RcvOK
    <2>3. CASE j = n
      BY <2>2, <2>3, <1>1 DEF DetOK
    <2>4. CASE j # n
      BY <2>1, <2>2, <2>4, <1>1 DEF DetOK
    <2> QED BY <2>3, <2>4
  <1> QED BY <1>2, <1>3, <1>4 DEF IInv

LEMMA CheckMembersKeeps == ASSUME IInv, NEW n \in Nodes, CheckMembers(n) PROVE IInv'
  <1>0. TypeOK /\ det[n] \in DetType /\ det \in [Nodes -> DetType] /\ DetOK(n)
        /\ \A m \in Nodes : members[n][m] \in Member \cup {Unknown}
    BY TypeFacts DEF IInv
  <1> DEFINE elapsed == [m \in Nodes |-> IF m \in Snapshot(n) THEN members[n][m].age ELSE 0]
             d == [[[det[n] EXCEPT !.pc = "pick"] EXCEPT !.todo = Snapshot(n)] EXCEPT !.elapsed = elapsed]
  <1>1. Snapshot(n) \subseteq Nodes /\ \A m \in Snapshot(n) : m # n /\ members[n][m] # Unknown
    BY DEF Snapshot, Known, Unknown
  <1>2. elapsed \in [Nodes -> Ages]
    BY <1>0, EntryFacts, CapNat
  <1>3. ticked' \in [Nodes -> BOOLEAN]
    BY <1>0 DEF CheckMembers, TypeOK
  <1>4. CASE Snapshot(n) = {}
    <2>1. det' = [det EXCEPT ![n] = det[n]]
      BY <1>0, <1>4 DEF CheckMembers
    <2> QED BY <2>1, <1>0, <1>3, DetMoves DEF CheckMembers, DetOK
  <1>5. CASE Snapshot(n) # {}
    <2>1. det' = [det EXCEPT ![n] = d]
      <3> HIDE DEF elapsed
      <3> QED BY <1>0, <1>5, Zenon DEF CheckMembers, elapsed
    <2> HIDE DEF elapsed
    <2>2. d \in DetType /\ d.todo = Snapshot(n) /\ d.pc = "pick"
      BY <1>0, <1>1, <1>2 DEF DetType
    <2> HIDE DEF d
    <2> QED BY <2>1, <2>2, <1>1, <1>3, DetMoves DEF CheckMembers
  <1> QED BY <1>4, <1>5

LEMMA ReadOldStateKeeps ==
    ASSUME IInv, NEW n \in Nodes, NEW m \in Nodes, ReadOldState(n, m) PROVE IInv'
  <1>0. TypeOK /\ det[n] \in DetType /\ det \in [Nodes -> DetType] /\ DetOK(n)
        /\ members[n][m] \in Member \cup {Unknown}
    BY TypeFacts DEF IInv
  <1> DEFINE d == [[[det[n] EXCEPT !.pc = "switch"] EXCEPT !.cur = m] EXCEPT !.old = members[n][m].state]
  <1>1. det' = [det EXCEPT ![n] = d]
    BY <1>0, Zenon DEF ReadOldState
  <1>2. m \in det[n].todo /\ members[n][m] # Unknown
    BY <1>0 DEF ReadOldState, DetOK
  <1>3. members[n][m].state \in States
    BY <1>0, <1>2, EntryFacts
  <1>4. d \in DetType /\ d.todo = det[n].todo /\ d.cur = m
    BY <1>0, <1>3 DEF DetType
  <1>5. ticked' \in [Nodes -> BOOLEAN] /\ UNCHANGED <<up, peers, members, ring, removed, rcv, net>>
    BY <1>0 DEF ReadOldState, TypeOK
  <1> HIDE DEF d
  <1> QED BY <1>0, <1>1, <1>2, <1>4, <1>5, DetMoves DEF DetOK

LEMMA SwitchKeeps == ASSUME IInv, NEW n \in Nodes, Switch(n) PROVE IInv'
  <1>0. TypeOK /\ det[n] \in DetType /\ det \in [Nodes -> DetType] /\ DetOK(n)
    BY TypeFacts DEF IInv
  <1>1. det[n].cur \in det[n].todo
    BY <1>0 DEF Switch, DetOK
  <1>2. \/ det' = [det EXCEPT ![n] = [[det[n] EXCEPT !.pc = "set"] EXCEPT !.new = "suspect"]]
        \/ det' = [det EXCEPT ![n] = [[det[n] EXCEPT !.pc = "set"] EXCEPT !.new = "dead"]]
        \/ det' = [det EXCEPT ![n] = [det[n] EXCEPT !.pc = "compare"]]
    BY <1>0, Zenon DEF Switch
  <1>3. ticked' \in [Nodes -> BOOLEAN] /\ UNCHANGED <<up, peers, members, ring, removed, rcv, net>>
    BY <1>0 DEF Switch, TypeOK
  <1>4. ASSUME NEW s \in States, NEW pc \in {"set", "compare"},
               det' = [det EXCEPT ![n] = [[det[n] EXCEPT !.pc = pc] EXCEPT !.new = s]]
        PROVE  IInv'
    <2> DEFINE d == [[det[n] EXCEPT !.pc = pc] EXCEPT !.new = s]
    <2>1. d \in DetType /\ d.todo = det[n].todo /\ d.cur = det[n].cur
      BY <1>0, <1>4 DEF DetType
    <2> HIDE DEF d
    <2>2. det' = [det EXCEPT ![n] = d]
      BY <1>4 DEF d
    <2> QED BY <2>1, <2>2, <1>0, <1>1, <1>3, DetMoves DEF DetOK
  <1>5. ASSUME det' = [det EXCEPT ![n] = [det[n] EXCEPT !.pc = "compare"]] PROVE IInv'
    <2>1. [det[n] EXCEPT !.pc = "compare"] = [[det[n] EXCEPT !.pc = "compare"] EXCEPT !.new = det[n].new]
      BY <1>0 DEF DetType
    <2>2. det[n].new \in States
      BY <1>0 DEF DetType
    <2> QED BY <1>4, <1>5, <2>1, <2>2
  <1> QED BY <1>2, <1>4, <1>5 DEF States

LEMMA NextMemberDoes ==
    ASSUME IInv, NEW n \in Nodes
    PROVE  /\ NextMember(n) \in DetType
           /\ NextMember(n).todo \subseteq det[n].todo
           /\ NextMember(n).pc \in {"idle", "pick"}
  <1>0. TypeOK /\ det[n] \in DetType /\ Sleeping \in DetType
    BY TypeFacts DEF IInv
  <1>1. CASE det[n].todo = {det[n].cur}
    BY <1>0, <1>1 DEF NextMember, Sleeping
  <1>2. CASE det[n].todo # {det[n].cur}
    <2> DEFINE el == [det[n].elapsed EXCEPT ![det[n].cur] = 0]
               rest == det[n].todo \ {det[n].cur}
               z == Sleeping
    <2>1. el \in [Nodes -> Ages] /\ rest \subseteq Nodes
      BY <1>0, CapNat DEF DetType
    <2>2. NextMember(n) = [[[z EXCEPT !.pc = "pick"] EXCEPT !.todo = rest] EXCEPT !.elapsed = el]
      BY <1>2, Zenon DEF NextMember
    <2> HIDE DEF z
    <2>3. z \in DetType
      BY <1>0 DEF z
    <2> HIDE DEF el, rest
    <2>4. /\ NextMember(n) \in DetType
          /\ NextMember(n).todo = rest
          /\ NextMember(n).pc = "pick"
      BY <2>1, <2>2, <2>3 DEF DetType
    <2> QED BY <2>4 DEF rest
  <1> QED BY <1>1, <1>2

LEMMA CompareKeeps == ASSUME IInv, NEW n \in Nodes, Compare(n) PROVE IInv'
  <1>0. TypeOK /\ det[n] \in DetType /\ det \in [Nodes -> DetType] /\ DetOK(n)
    BY TypeFacts DEF IInv
  <1>1. det[n].cur \in det[n].todo
    BY <1>0 DEF Compare, DetOK
  <1>2. ticked' \in [Nodes -> BOOLEAN] /\ UNCHANGED <<up, peers, members, ring, removed, rcv, net>>
    BY <1>0 DEF Compare, TypeOK
  <1>3. CASE det' = [det EXCEPT ![n] = [det[n] EXCEPT !.pc = "notify"]]
    <2> DEFINE d == [det[n] EXCEPT !.pc = "notify"]
    <2>1. d \in DetType /\ d.todo = det[n].todo /\ d.cur = det[n].cur
      BY <1>0 DEF DetType
    <2> HIDE DEF d
    <2>2. det' = [det EXCEPT ![n] = d]
      BY <1>3 DEF d
    <2> QED BY <2>1, <2>2, <1>0, <1>1, <1>2, DetMoves DEF DetOK
  <1>4. CASE det' = [det EXCEPT ![n] = NextMember(n)]
    BY <1>0, <1>2, <1>4, NextMemberDoes, DetMoves DEF DetOK
  <1> QED BY <1>0, <1>3, <1>4, Zenon DEF Compare

LEMMA NotifyKeeps == ASSUME IInv, NEW n \in Nodes, Notify(n) PROVE IInv'
  <1>0. TypeOK /\ det[n] \in DetType /\ det \in [Nodes -> DetType] /\ DetOK(n)
        /\ \A m \in Nodes : members[n][m] \in Member \cup {Unknown}
    BY TypeFacts DEF IInv
  <1>1. det[n].cur \in det[n].todo /\ det[n].cur \in Nodes
    BY <1>0 DEF Notify, DetOK, DetType
  <1> DEFINE d == [[det[n] EXCEPT !.pc = "call"] EXCEPT !.new = members[n][det[n].cur].state]
  <1>2. det' = [det EXCEPT ![n] = d]
    BY <1>0, Zenon DEF Notify
  <1>3. members[n][det[n].cur].state \in States
    BY <1>0, <1>1, EntryFacts DEF DetOK
  <1>4. d \in DetType /\ d.todo = det[n].todo /\ d.cur = det[n].cur
    BY <1>0, <1>3 DEF DetType
  <1>5. ticked' \in [Nodes -> BOOLEAN] /\ UNCHANGED <<up, peers, members, ring, removed, rcv, net>>
    BY <1>0 DEF Notify, TypeOK
  <1> HIDE DEF d
  <1> QED BY <1>0, <1>1, <1>2, <1>4, <1>5, DetMoves DEF DetOK

\* A step that keeps the members of every list, and leaves each loop where its
\* own part of the invariant still holds.
LEMMA MembersStay ==
    ASSUME IInv, TypeOK', SelfServes',
           \A j, m \in Nodes : members[j][m] # Unknown => members'[j][m] # Unknown,
           \A j \in Nodes :
              \/ det'[j] = det[j]
              \/ /\ det'[j].todo \subseteq det[j].todo
                 /\ det'[j].pc \in {"idle", "pick"} \/ det'[j].cur \in det'[j].todo,
           \A j \in Nodes :
              \/ rcv'[j].pc \notin {"record", "revive", "reset", "again", "call"}
              \/ members'[j][rcv'[j].from] # Unknown
              \/ rcv'[j].from = rcv[j].from /\ rcv[j].pc \in {"record", "revive", "reset", "again", "call"}
    PROVE  IInv'
  <1> SUFFICES ASSUME NEW j \in Nodes PROVE DetOK(j)' /\ RcvOK(j)'
    BY DEF IInv
  <1>1. DetOK(j) /\ RcvOK(j) /\ det[j] \in DetType /\ rcv[j] \in RcvType
    BY TypeFacts DEF IInv
  <1>2. det[j].todo \subseteq Nodes /\ rcv[j].from \in Nodes
    BY <1>1 DEF DetType, RcvType
  <1>3. DetOK(j)'
    <2>1. det'[j].todo \subseteq det[j].todo
      OBVIOUS
    <2>2. \A m \in det'[j].todo : m # j /\ members'[j][m] # Unknown
      BY <2>1, <1>1, <1>2 DEF DetOK
    <2>3. det'[j].pc \in {"idle", "pick"} \/ det'[j].cur \in det'[j].todo
      BY <1>1 DEF DetOK
    <2> QED BY <2>2, <2>3 DEF DetOK
  <1>4. RcvOK(j)'
    BY <1>1, <1>2 DEF RcvOK
  <1> QED BY <1>3, <1>4

LEMMA TransitionToKeeps ==
    ASSUME IInv, NEW n \in Nodes, TransitionTo(n)
    PROVE  IInv' /\ \A j \in Nodes : Advances(members[j], members'[j])
  <1>0. TypeOK /\ SelfServes /\ det[n] \in DetType /\ det \in [Nodes -> DetType] /\ DetOK(n)
    BY TypeFacts DEF IInv
  <1> DEFINE c == det[n].cur
             d == [det[n] EXCEPT !.pc = "compare"]
  <1>1. c \in det[n].todo /\ c \in Nodes /\ det[n].new \in States /\ c # n /\ members[n][c] # Unknown
    BY <1>0 DEF TransitionTo, DetOK, DetType
  <1>2. /\ members' \in [Nodes -> Lists]
        /\ members'[n][c] # Unknown
        /\ \A j, k \in Nodes : j # n \/ k # c => members'[j][k] = members[j][k]
        /\ \A j \in Nodes : Advances(members[j], members'[j])
    BY <1>0, <1>1, UpdateStateDoes DEF TransitionTo
  <1>3. det' = [det EXCEPT ![n] = d]
    BY <1>0, Zenon DEF TransitionTo
  <1>4. d \in DetType /\ d.todo = det[n].todo /\ d.cur = c
    BY <1>0 DEF DetType
  <1> HIDE DEF d
  <1>5. det' \in [Nodes -> DetType] /\ det'[n] = d /\ \A j \in Nodes : j # n => det'[j] = det[j]
    BY <1>0, <1>3, <1>4
  <1>6. TypeOK'
    BY <1>0, <1>2, <1>5 DEF TransitionTo, TypeOK, DetType
  <1>7. SelfServes'
    <2>1. \A j \in Nodes : members'[j][j] = members[j][j]
      BY <1>1, <1>2
    <2> QED BY <1>0, <2>1 DEF SelfServes, TransitionTo
  <1>8. \A j \in Nodes : \/ det'[j] = det[j]
                         \/ det'[j].todo \subseteq det[j].todo /\ det'[j].cur \in det'[j].todo
    BY <1>1, <1>4, <1>5
  <1>9. \A j, m \in Nodes : members[j][m] # Unknown => members'[j][m] # Unknown
    BY <1>2
  <1>10. rcv' = rcv
    BY DEF TransitionTo
  <1>11. \A j \in Nodes : RcvOK(j)
    BY DEF IInv
  <1> QED BY <1>2, <1>6, <1>7, <1>8, <1>9, <1>10, <1>11, MembersStay DEF RcvOK

\* The callback takes no node off its own ring that it is not told is dead.
LEMMA OnStateChangeDoes ==
    ASSUME TypeOK, NEW n \in Nodes, NEW m \in Nodes, NEW old \in States, NEW new \in States,
           OnStateChange(n, m, old, new)
    PROVE  /\ ring' \in [Nodes -> SUBSET Nodes] /\ removed' \in [Nodes -> SUBSET Nodes]
           /\ \A j \in Nodes : j \in ring[j] /\ (m # n \/ new # "dead") => j \in ring'[j]
  <1>0. ring \in [Nodes -> SUBSET Nodes] /\ removed \in [Nodes -> SUBSET Nodes]
    BY DEF TypeOK
  <1>1. CASE new = "dead"
    <2>1. ring' = [ring EXCEPT ![n] = @ \ {m}] /\ removed' = [removed EXCEPT ![n] = @ \cup {m}]
      BY <1>1 DEF OnStateChange
    <2>2. ASSUME NEW j \in Nodes, j \in ring[j], m # n PROVE j \in ring'[j]
      BY <1>0, <2>1, <2>2
    <2> QED BY <1>0, <1>1, <2>1, <2>2
  <1>2. CASE new # "dead" /\ new = "alive" /\ old = "dead"
    <2>1. ring' = [ring EXCEPT ![n] = @ \cup {m}] /\ removed' = [removed EXCEPT ![n] = @ \ {m}]
      BY <1>2 DEF OnStateChange
    <2> QED BY <1>0, <2>1
  <1>3. CASE new # "dead" /\ ~(new = "alive" /\ old = "dead")
    <2>1. ring' = ring /\ removed' = removed
      BY <1>3 DEF OnStateChange
    <2> QED BY <1>0, <2>1
  <1> QED BY <1>1, <1>2, <1>3

LEMMA CallbackKeeps == ASSUME IInv, NEW n \in Nodes, Callback(n) PROVE IInv'
  <1>0. TypeOK /\ SelfServes /\ det[n] \in DetType /\ det \in [Nodes -> DetType] /\ DetOK(n)
    BY TypeFacts DEF IInv
  <1>1. /\ det[n].cur \in Nodes /\ det[n].cur # n
        /\ det[n].old \in States /\ det[n].new \in States
    BY <1>0 DEF Callback, DetOK, DetType
  <1>2. /\ ring' \in [Nodes -> SUBSET Nodes] /\ removed' \in [Nodes -> SUBSET Nodes]
        /\ \A j \in Nodes : j \in ring[j] => j \in ring'[j]
    BY <1>0, <1>1, OnStateChangeDoes DEF Callback
  <1> DEFINE d == NextMember(n)
  <1>3. d \in DetType /\ d.todo \subseteq det[n].todo /\ d.pc \in {"idle", "pick"}
    BY NextMemberDoes
  <1> HIDE DEF d
  <1>4. det' = [det EXCEPT ![n] = d]
    BY DEF Callback, d
  <1>5. det' \in [Nodes -> DetType] /\ det'[n] = d /\ \A j \in Nodes : j # n => det'[j] = det[j]
    BY <1>0, <1>3, <1>4
  <1>6. TypeOK'
    BY <1>0, <1>2, <1>5 DEF Callback, TypeOK, DetType
  <1>7. SelfServes'
    BY <1>0, <1>2 DEF Callback, SelfServes
  <1>8. \A j \in Nodes : \/ det'[j] = det[j]
                         \/ det'[j].todo \subseteq det[j].todo /\ det'[j].pc \in {"idle", "pick"}
    BY <1>3, <1>5
  <1>9. members' = members /\ rcv' = rcv
    BY DEF Callback
  <1>10. \A j \in Nodes : RcvOK(j)
    BY DEF IInv
  <1> QED BY <1>6, <1>7, <1>8, <1>9, <1>10, MembersStay DEF RcvOK

-----------------------------------------------------------------------------
(***************************************************************************)
(* Steps of the receive loop.                                              *)
(***************************************************************************)

\* A step that moves the receive loop of n to r, and may change lists, rings
\* and the network.
LEMMA RcvMoves ==
    ASSUME IInv, NEW n \in Nodes, NEW r \in RcvType, rcv' = [rcv EXCEPT ![n] = r],
           UNCHANGED <<up, peers, ticked, det>>,
           net' \subseteq Datagrams, members' \in [Nodes -> Lists],
           ring' \in [Nodes -> SUBSET Nodes], removed' \in [Nodes -> SUBSET Nodes],
           \A j, m \in Nodes : members[j][m] # Unknown => members'[j][m] # Unknown,
           \A j \in Nodes : j \in ring[j] => j \in ring'[j],
           \A j \in Nodes : members[j][j].state = "alive" => members'[j][j].state = "alive",
           r.pc \in {"record", "revive", "reset", "again", "call"} => members'[n][r.from] # Unknown
    PROVE  IInv'
  <1>0. TypeOK /\ SelfServes /\ rcv \in [Nodes -> RcvType]
    BY TypeFacts DEF IInv
  <1>1. rcv' \in [Nodes -> RcvType] /\ rcv'[n] = r /\ \A j \in Nodes : j # n => rcv'[j] = rcv[j]
    BY <1>0
  <1>2. TypeOK'
    BY <1>0, <1>1 DEF TypeOK, RcvType
  <1>3. SelfServes'
    BY <1>0 DEF SelfServes
  <1>4. ASSUME NEW j \in Nodes
        PROVE  \/ rcv'[j].pc \notin {"record", "revive", "reset", "again", "call"}
               \/ members'[j][rcv'[j].from] # Unknown
               \/ rcv'[j].from = rcv[j].from /\ rcv[j].pc \in {"record", "revive", "reset", "again", "call"}
    BY <1>1
  <1>5. \A j \in Nodes : det'[j] = det[j]
    OBVIOUS
  <1> QED BY <1>2, <1>3, <1>4, <1>5, MembersStay

LEMMA ReceiveKeeps ==
    ASSUME IInv, NEW n \in Nodes, NEW dg \in net, Receive(n, dg) PROVE IInv'
  <1>0. TypeOK /\ rcv \in [Nodes -> RcvType] /\ dg \in Datagrams
    BY TypeFacts DEF IInv, TypeOK
  <1>1. dg.from \in Nodes /\ dg.members \in Lists
    BY <1>0 DEF Datagrams
  <1>2. members[n][dg.from] \in Member \cup {Unknown}
    BY <1>0, <1>1, TypeFacts
  <1> DEFINE r == [pc |-> IF members[n][dg.from] = Unknown THEN "merge" ELSE "record",
                   from |-> dg.from,
                   old |-> IF members[n][dg.from] = Unknown THEN "alive"
                           ELSE members[n][dg.from].state,
                   members |-> dg.members]
  <1>3. r \in RcvType /\ r.from = dg.from /\ (r.pc = "record" => members[n][dg.from] # Unknown)
        /\ r.pc \in {"record", "merge"}
    <2>1. members[n][dg.from] # Unknown => members[n][dg.from].state \in States
      BY <1>2, EntryFacts
    <2> QED BY <1>1, <2>1 DEF RcvType, States
  <1>4. rcv' = [rcv EXCEPT ![n] = r]
    BY DEF Receive
  <1> HIDE DEF r
  <1>5. net' \subseteq Datagrams
    BY <1>0 DEF Receive, TypeOK
  <1>6. UNCHANGED <<up, peers, members, ring, removed, ticked, det>>
    BY DEF Receive
  <1> QED BY <1>0, <1>3, <1>4, <1>5, <1>6, RcvMoves DEF TypeOK

LEMMA RecordKeeps ==
    ASSUME IInv, NEW n \in Nodes, Record(n)
    PROVE  IInv' /\ \A j \in Nodes : Advances(members[j], members'[j])
  <1>0. TypeOK /\ rcv[n] \in RcvType /\ rcv \in [Nodes -> RcvType] /\ RcvOK(n)
    BY TypeFacts DEF IInv
  <1> DEFINE f == rcv[n].from
             r == [rcv[n] EXCEPT !.pc = IF rcv[n].old # "alive" THEN "revive" ELSE "merge"]
  <1>1. f \in Nodes /\ members[n][f] # Unknown
    BY <1>0 DEF Record, RcvOK, RcvType
  <1>2. /\ members' \in [Nodes -> Lists]
        /\ members'[n][f] # Unknown /\ members'[n][f].state = "alive"
        /\ \A j, k \in Nodes : j # n \/ k # f => members'[j][k] = members[j][k]
        /\ \A j \in Nodes : Advances(members[j], members'[j])
    BY <1>0, <1>1, RecordHeartbeatDoes DEF Record
  <1>3. rcv' = [rcv EXCEPT ![n] = r]
    BY <1>0, Zenon DEF Record
  <1>4. r \in RcvType /\ r.from = f
    BY <1>0 DEF RcvType
  <1> HIDE DEF r
  <1>5. \A j, m \in Nodes : members[j][m] # Unknown => members'[j][m] # Unknown
    BY <1>2
  <1>6. \A j \in Nodes : members[j][j].state = "alive" => members'[j][j].state = "alive"
    BY <1>2
  <1>7. UNCHANGED <<up, peers, ring, removed, ticked, det, net>>
    BY DEF Record
  <1> QED BY <1>0, <1>2, <1>3, <1>4, <1>5, <1>6, <1>7, RcvMoves DEF TypeOK

LEMMA ReviveReadsKeeps == ASSUME IInv, NEW n \in Nodes, ReviveReads(n) PROVE IInv'
  <1>0. TypeOK /\ rcv[n] \in RcvType /\ rcv \in [Nodes -> RcvType] /\ RcvOK(n)
        /\ \A m \in Nodes : members[n][m] \in Member \cup {Unknown}
    BY TypeFacts DEF IInv
  <1> DEFINE f == rcv[n].from
             s == members[n][f].state
             r == [[rcv[n] EXCEPT !.pc = IF s = "alive" THEN "merge" ELSE "reset"] EXCEPT !.old = s]
  <1>1. f \in Nodes /\ members[n][f] # Unknown
    BY <1>0 DEF ReviveReads, RcvOK, RcvType
  <1>2. s \in States
    BY <1>0, <1>1, EntryFacts
  <1>3. rcv' = [rcv EXCEPT ![n] = r]
    BY <1>0, Zenon DEF ReviveReads
  <1> HIDE DEF s
  <1>4. r \in RcvType /\ r.from = f
    BY <1>0, <1>2 DEF RcvType
  <1> HIDE DEF r
  <1>5. UNCHANGED <<up, peers, members, ring, removed, ticked, det, net>>
    BY DEF ReviveReads
  <1> QED BY <1>0, <1>1, <1>3, <1>4, <1>5, RcvMoves DEF TypeOK

LEMMA ReviveSetsKeeps ==
    ASSUME IInv, NEW n \in Nodes, ReviveSets(n)
    PROVE  IInv' /\ \A j \in Nodes : Advances(members[j], members'[j])
  <1>0. TypeOK /\ rcv[n] \in RcvType /\ rcv \in [Nodes -> RcvType] /\ RcvOK(n)
    BY TypeFacts DEF IInv
  <1> DEFINE f == rcv[n].from
             r == [rcv[n] EXCEPT !.pc = "again"]
  <1>1. f \in Nodes /\ members[n][f] # Unknown
    BY <1>0 DEF ReviveSets, RcvOK, RcvType
  <1>2. /\ members' \in [Nodes -> Lists]
        /\ members'[n][f] # Unknown /\ members'[n][f].state = "alive"
        /\ \A j, k \in Nodes : j # n \/ k # f => members'[j][k] = members[j][k]
        /\ \A j \in Nodes : Advances(members[j], members'[j])
    BY <1>0, <1>1, UpdateStateDoes DEF ReviveSets, States
  <1>3. rcv' = [rcv EXCEPT ![n] = r]
    BY <1>0, Zenon DEF ReviveSets
  <1>4. r \in RcvType /\ r.from = f
    BY <1>0 DEF RcvType
  <1> HIDE DEF r
  <1>5. \A j, m \in Nodes : members[j][m] # Unknown => members'[j][m] # Unknown
    BY <1>2
  <1>6. \A j \in Nodes : members[j][j].state = "alive" => members'[j][j].state = "alive"
    BY <1>2
  <1>7. UNCHANGED <<up, peers, ring, removed, ticked, det, net>>
    BY DEF ReviveSets
  <1> QED BY <1>0, <1>2, <1>3, <1>4, <1>5, <1>6, <1>7, RcvMoves DEF TypeOK

LEMMA ReviveRecordsKeeps ==
    ASSUME IInv, NEW n \in Nodes, ReviveRecords(n)
    PROVE  IInv' /\ \A j \in Nodes : Advances(members[j], members'[j])
  <1>0. TypeOK /\ rcv[n] \in RcvType /\ rcv \in [Nodes -> RcvType] /\ RcvOK(n)
    BY TypeFacts DEF IInv
  <1> DEFINE f == rcv[n].from
             r == [rcv[n] EXCEPT !.pc = "call"]
  <1>1. f \in Nodes /\ members[n][f] # Unknown
    BY <1>0 DEF ReviveRecords, RcvOK, RcvType
  <1>2. /\ members' \in [Nodes -> Lists]
        /\ members'[n][f] # Unknown /\ members'[n][f].state = "alive"
        /\ \A j, k \in Nodes : j # n \/ k # f => members'[j][k] = members[j][k]
        /\ \A j \in Nodes : Advances(members[j], members'[j])
    BY <1>0, <1>1, RecordHeartbeatDoes DEF ReviveRecords
  <1>3. rcv' = [rcv EXCEPT ![n] = r]
    BY <1>0, Zenon DEF ReviveRecords
  <1>4. r \in RcvType /\ r.from = f
    BY <1>0 DEF RcvType
  <1> HIDE DEF r
  <1>5. \A j, m \in Nodes : members[j][m] # Unknown => members'[j][m] # Unknown
    BY <1>2
  <1>6. \A j \in Nodes : members[j][j].state = "alive" => members'[j][j].state = "alive"
    BY <1>2
  <1>7. UNCHANGED <<up, peers, ring, removed, ticked, det, net>>
    BY DEF ReviveRecords
  <1> QED BY <1>0, <1>2, <1>3, <1>4, <1>5, <1>6, <1>7, RcvMoves DEF TypeOK

LEMMA ReviveCallbackKeeps == ASSUME IInv, NEW n \in Nodes, ReviveCallback(n) PROVE IInv'
  <1>0. TypeOK /\ rcv[n] \in RcvType /\ rcv \in [Nodes -> RcvType] /\ RcvOK(n)
    BY TypeFacts DEF IInv
  <1> DEFINE f == rcv[n].from
             r == [rcv[n] EXCEPT !.pc = "merge"]
  <1>1. f \in Nodes /\ rcv[n].old \in States
    BY <1>0 DEF RcvType
  <1>2. /\ ring' \in [Nodes -> SUBSET Nodes] /\ removed' \in [Nodes -> SUBSET Nodes]
        /\ \A j \in Nodes : j \in ring[j] => j \in ring'[j]
    BY <1>0, <1>1, OnStateChangeDoes DEF ReviveCallback, States
  <1>3. rcv' = [rcv EXCEPT ![n] = r]
    BY <1>0, Zenon DEF ReviveCallback
  <1>4. r \in RcvType /\ r.pc = "merge"
    BY <1>0 DEF RcvType
  <1> HIDE DEF r
  <1>5. UNCHANGED <<up, peers, members, ticked, det, net>>
    BY DEF ReviveCallback
  <1> QED BY <1>0, <1>2, <1>3, <1>4, <1>5, RcvMoves DEF TypeOK

LEMMA MergeKeeps ==
    ASSUME IInv, NEW n \in Nodes, Merge(n)
    PROVE  IInv' /\ \A j \in Nodes : Advances(members[j], members'[j])
  <1>0. /\ TypeOK /\ rcv[n] \in RcvType /\ rcv \in [Nodes -> RcvType] /\ Listening \in RcvType
        /\ members \in [Nodes -> Lists] /\ members[n] \in Lists
    BY TypeFacts DEF IInv, TypeOK
  <1> DEFINE new == Merged(n, members[n], rcv[n].members)
  <1>1. rcv[n].members \in Lists
    BY <1>0 DEF RcvType
  <1>2. new \in Lists /\ new[n] = members[n][n] /\ Advances(members[n], new)
    BY <1>0, <1>1, MergedDoes
  <1>3. members' = [members EXCEPT ![n] = new] /\ rcv' = [rcv EXCEPT ![n] = Listening]
    BY DEF Merge
  <1> HIDE DEF new
  <1>4. /\ members' \in [Nodes -> Lists]
        /\ members'[n] = new /\ \A j \in Nodes : j # n => members'[j] = members[j]
    BY <1>0, <1>2, <1>3
  <1>5. \A j \in Nodes : Advances(members[j], members'[j])
    <2> SUFFICES ASSUME NEW j \in Nodes, j # n PROVE Advances(members[j], members[j])
      BY <1>2, <1>4
    <2>1. \A m \in Nodes : members[j][m] \in Member \cup {Unknown}
      BY <1>0, TypeFacts
    <2>2. ASSUME NEW m \in Nodes PROVE members[j][m].age \in Nat
      <3>1. members[j][m].age \in Ages
        BY <2>1, EntryFacts
      <3> QED BY <3>1, CapNat DEF Ages
    <2> QED BY <2>2 DEF Advances
  <1>6. \A j, m \in Nodes : members[j][m] # Unknown => members'[j][m] # Unknown
    BY <1>5 DEF Advances
  <1>7. \A j \in Nodes : members[j][j].state = "alive" => members'[j][j].state = "alive"
    BY <1>2, <1>4
  <1>8. UNCHANGED <<up, peers, ring, removed, ticked, det, net>>
    BY DEF Merge
  <1>9. Listening.pc \notin {"record", "revive", "reset", "again", "call"}
    BY DEF Listening
  <1>10. /\ net' \subseteq Datagrams
         /\ ring' \in [Nodes -> SUBSET Nodes] /\ removed' \in [Nodes -> SUBSET Nodes]
         /\ \A j \in Nodes : j \in ring[j] => j \in ring'[j]
    BY <1>0, <1>8 DEF TypeOK
  <1>11. IInv'
    BY <1>0, <1>3, <1>4, <1>6, <1>7, <1>8, <1>9, <1>10, RcvMoves
  <1> QED BY <1>5, <1>11

-----------------------------------------------------------------------------
(***************************************************************************)
(* The network, the processes and time.                                    *)
(***************************************************************************)

\* A step that leaves everything alone but the network.
LEMMA NetMoves ==
    ASSUME IInv, net' \subseteq Datagrams,
           UNCHANGED <<up, peers, members, ring, removed, ticked, det, rcv>>
    PROVE  IInv'
  <1>1. TypeOK'
    BY DEF IInv, TypeOK
  <1>2. SelfServes'
    BY DEF IInv, SelfServes
  <1>3. ASSUME NEW j \in Nodes PROVE DetOK(j)' /\ RcvOK(j)'
    BY DEF IInv, DetOK, RcvOK
  <1> QED BY <1>1, <1>2, <1>3 DEF IInv

LEMMA GossipToKeeps ==
    ASSUME IInv, NEW n \in Nodes, NEW p \in Nodes, GossipTo(n, p) PROVE IInv'
  <1>1. members[n] \in Lists
    BY TypeFacts DEF IInv
  <1>2. [from |-> n, to |-> p, members |-> members[n]] \in Datagrams
    BY <1>1 DEF Datagrams
  <1>3. net' \subseteq Datagrams
    BY <1>2 DEF GossipTo, IInv, TypeOK
  <1> QED BY <1>3, NetMoves DEF GossipTo

LEMMA LoseKeeps ==
    ASSUME IInv, NEW n \in Nodes, NEW p \in Nodes, Lose(n, p) PROVE IInv'
  <1>1. net' \subseteq Datagrams
    BY DEF Lose, IInv, TypeOK
  <1> QED BY <1>1, NetMoves DEF Lose

LEMMA StartKeeps == ASSUME IInv, NEW n \in Nodes, Start(n) PROVE IInv'
  <1>0. TypeOK /\ SelfServes /\ members \in [Nodes -> Lists] /\ ring \in [Nodes -> SUBSET Nodes]
        /\ up \in [Nodes -> BOOLEAN] /\ peers \in [Nodes -> SUBSET Nodes]
    BY DEF IInv, TypeOK
  <1> DEFINE e == [state |-> "alive", age |-> 0]
  <1>1. e \in Member /\ e # Unknown /\ e.state = "alive"
    BY CapNat DEF Member, States, Unknown
  <1>2. members' = [members EXCEPT ![n][n] = e]
    BY DEF Start
  <1> HIDE DEF e
  <1>3. /\ members' \in [Nodes -> Lists]
        /\ members'[n][n] = e
        /\ \A j, k \in Nodes : j # n \/ k # n => members'[j][k] = members[j][k]
    BY <1>0, <1>1, <1>2 DEF Lists
  <1>4. PICK q \in SUBSET Seeds[n] : peers' = [peers EXCEPT ![n] = q]
    BY DEF Start
  <1>5. peers' \in [Nodes -> SUBSET Nodes]
    BY <1>0, <1>4, GossipConstants
  <1>6. ring' = [ring EXCEPT ![n] = {n}] /\ up' = [up EXCEPT ![n] = TRUE]
    BY DEF Start
  <1>7. UNCHANGED <<removed, ticked, det, rcv, net>>
    BY DEF Start
  <1>8. TypeOK'
    BY <1>0, <1>3, <1>5, <1>6, <1>7 DEF TypeOK
  <1>9. SelfServes'
    <2> SUFFICES ASSUME NEW j \in Nodes, up'[j]
                 PROVE  j \in ring'[j] /\ members'[j][j].state = "alive"
      BY DEF SelfServes
    <2>1. CASE j = n
      BY <2>1, <1>0, <1>1, <1>3, <1>6
    <2>2. CASE j # n
      <3>1. up[j] /\ ring'[j] = ring[j] /\ members'[j][j] = members[j][j]
        BY <2>2, <1>0, <1>3, <1>6
      <3> QED BY <3>1, <1>0 DEF SelfServes
    <2> QED BY <2>1, <2>2
  <1>10. \A j, m \in Nodes : members[j][m] # Unknown => members'[j][m] # Unknown
    BY <1>1, <1>3
  <1>11. \A j \in Nodes : RcvOK(j)
    BY DEF IInv
  <1> QED BY <1>7, <1>8, <1>9, <1>10, <1>11, MembersStay DEF RcvOK

LEMMA CrashKeeps == ASSUME IInv, NEW n \in Nodes, Crash(n) PROVE IInv'
  <1>0. /\ TypeOK /\ det \in [Nodes -> DetType] /\ rcv \in [Nodes -> RcvType]
        /\ Sleeping \in DetType /\ Listening \in RcvType /\ members \in [Nodes -> Lists]
    BY TypeFacts DEF IInv, TypeOK
  <1> DEFINE empty == [m \in Nodes |-> Unknown]
  <1>1. empty \in Lists
    BY DEF Lists
  <1>2. members' = [members EXCEPT ![n] = empty] /\ det' = [det EXCEPT ![n] = Sleeping]
        /\ rcv' = [rcv EXCEPT ![n] = Listening] /\ net' = net
        /\ up' = [up EXCEPT ![n] = FALSE] /\ ring' = [ring EXCEPT ![n] = {}]
    BY DEF Crash
  <1> HIDE DEF empty
  <1>3. /\ members' \in [Nodes -> Lists]
        /\ det' \in [Nodes -> DetType] /\ rcv' \in [Nodes -> RcvType]
        /\ det'[n] = Sleeping /\ rcv'[n] = Listening
        /\ \A j \in Nodes : j # n => members'[j] = members[j] /\ det'[j] = det[j] /\ rcv'[j] = rcv[j]
    BY <1>0, <1>1, <1>2
  <1>4. /\ up' \in [Nodes -> BOOLEAN] /\ ~up'[n]
        /\ ring' \in [Nodes -> SUBSET Nodes]
        /\ \A j \in Nodes : j # n => up'[j] = up[j] /\ ring'[j] = ring[j]
    BY <1>0, <1>2 DEF TypeOK
  <1>5. peers' \in [Nodes -> SUBSET Nodes] /\ removed' \in [Nodes -> SUBSET Nodes]
        /\ ticked' \in [Nodes -> BOOLEAN]
    BY <1>0 DEF Crash, TypeOK
  <1>6. TypeOK'
    BY <1>0, <1>2, <1>3, <1>4, <1>5 DEF TypeOK, DetType, RcvType
  <1>7. SelfServes'
    BY <1>3, <1>4 DEF SelfServes, IInv
  <1>8. ASSUME NEW j \in Nodes PROVE DetOK(j)' /\ RcvOK(j)'
    <2>1. CASE j = n
      BY <2>1, <1>3 DEF DetOK, RcvOK, Sleeping, Listening
    <2>2. CASE j # n
      <3>1. members'[j] = members[j] /\ det'[j] = det[j] /\ rcv'[j] = rcv[j]
        BY <2>2, <1>3
      <3>2. DetOK(j) /\ RcvOK(j)
        BY DEF IInv
      <3> QED BY <3>1, <3>2 DEF DetOK, RcvOK
    <2> QED BY <2>1, <2>2
  <1> QED BY <1>6, <1>7, <1>8 DEF IInv

LEMMA TickKeeps == ASSUME IInv, Tick PROVE IInv'
  <1>0. /\ TypeOK /\ SelfServes /\ members \in [Nodes -> Lists] /\ rcv \in [Nodes -> RcvType]
        /\ net \subseteq Datagrams
    BY DEF IInv, TypeOK, RcvType
  <1>1. /\ members' = [n \in Nodes |-> Aged(members[n])]
        /\ rcv' = [n \in Nodes |-> [rcv[n] EXCEPT !.members = Aged(@)]]
        /\ net' = {[d EXCEPT !.members = Aged(@)] : d \in net}
        /\ ticked' = [n \in Nodes |-> up[n]]
        /\ UNCHANGED <<up, peers, ring, removed, det>>
    BY Zenon DEF Tick
  <1>2. ASSUME NEW j \in Nodes
        PROVE  /\ members'[j] \in Lists
               /\ \A m \in Nodes : /\ members'[j][m] = Unknown <=> members[j][m] = Unknown
                                   /\ members'[j][m].state = members[j][m].state
    BY <1>0, <1>1, AgedDoes
  <1>3. ASSUME NEW j \in Nodes
        PROVE  rcv'[j] \in RcvType /\ rcv'[j].pc = rcv[j].pc /\ rcv'[j].from = rcv[j].from
    <2> DEFINE l == Aged(rcv[j].members)
    <2>1. rcv[j] \in RcvType /\ rcv[j].members \in Lists
      BY <1>0 DEF RcvType
    <2>2. l \in Lists
      BY <2>1, AgedDoes
    <2>3. rcv'[j] = [rcv[j] EXCEPT !.members = l]
      BY <1>1
    <2> HIDE DEF l
    <2> QED BY <2>1, <2>2, <2>3 DEF RcvType
  <1>4. net' \subseteq Datagrams
    <2> SUFFICES ASSUME NEW d \in net PROVE [d EXCEPT !.members = Aged(d.members)] \in Datagrams
      BY <1>1
    <2> DEFINE l == Aged(d.members)
    <2>1. d \in Datagrams /\ d.members \in Lists
      BY <1>0 DEF Datagrams
    <2>2. l \in Lists
      BY <2>1, AgedDoes
    <2> HIDE DEF l
    <2>3. [d EXCEPT !.members = l] \in Datagrams
      BY <2>1, <2>2 DEF Datagrams
    <2> QED BY <2>3 DEF l
  <1>5. members' \in [Nodes -> Lists]
    BY <1>1, <1>2
  <1>6. rcv' \in [Nodes -> RcvType]
    <2>1. rcv' = [j \in Nodes |-> rcv'[j]]
      BY <1>1
    <2> QED BY <2>1, <1>3
  <1>7. ticked' \in [Nodes -> BOOLEAN]
    BY <1>0, <1>1 DEF TypeOK
  <1>8. TypeOK'
    BY <1>0, <1>1, <1>4, <1>5, <1>6, <1>7 DEF TypeOK, RcvType
  <1>9. SelfServes'
    BY <1>0, <1>1, <1>2 DEF SelfServes
  <1>10. \A j, m \in Nodes : members[j][m] # Unknown => members'[j][m] # Unknown
    BY <1>2
  <1>11. \A j \in Nodes :
            \/ rcv'[j].pc \notin {"record", "revive", "reset", "again", "call"}
            \/ rcv'[j].from = rcv[j].from /\ rcv[j].pc \in {"record", "revive", "reset", "again", "call"}
    BY <1>3
  <1>12. \A j \in Nodes : det'[j] = det[j]
    BY <1>1
  <1> QED BY <1>8, <1>9, <1>10, <1>11, <1>12, MembersStay

-----------------------------------------------------------------------------
(***************************************************************************)
(* The theorems.                                                           *)
(***************************************************************************)

LEMMA InitOK == Init => IInv
  <1> SUFFICES ASSUME Init PROVE IInv
    OBVIOUS
  <1> DEFINE empty == [m \in Nodes |-> Unknown]
  <1>1. empty \in Lists
    BY DEF Lists
  <1>2. ASSUME NEW j \in Nodes
        PROVE  Sleeping \in DetType /\ Sleeping.todo = {} /\ Sleeping.pc = "idle"
    BY CapNat DEF Sleeping, DetType, States
  <1>3. ASSUME NEW j \in Nodes PROVE Listening \in RcvType /\ Listening.pc = "idle"
    BY <1>1 DEF Listening, RcvType, States
  <1>4. TypeOK
    BY <1>1, <1>2, <1>3 DEF Init, TypeOK, DetType, RcvType
  <1>5. SelfServes
    BY DEF Init, SelfServes
  <1>6. ASSUME NEW j \in Nodes PROVE DetOK(j) /\ RcvOK(j)
    BY <1>2, <1>3 DEF Init, DetOK, RcvOK
  <1> QED BY <1>4, <1>5, <1>6 DEF IInv

LEMMA Inductive == IInv /\ [Next]_vars => IInv'
  <1> SUFFICES ASSUME IInv, [Next]_vars PROVE IInv'
    OBVIOUS
  <1>1. CASE Next
    <2>1. ASSUME NEW n \in Nodes, CheckMembers(n) PROVE IInv'
      BY <2>1, CheckMembersKeeps
    <2>2. ASSUME NEW n \in Nodes, DetectorStep(n) PROVE IInv'
      BY <2>2, ReadOldStateKeeps, SwitchKeeps, TransitionToKeeps, CompareKeeps,
         NotifyKeeps, CallbackKeeps DEF DetectorStep
    <2>3. ASSUME NEW n \in Nodes, ReceiverStep(n) PROVE IInv'
      BY <2>3, RecordKeeps, ReviveReadsKeeps, ReviveSetsKeeps, ReviveRecordsKeeps,
         ReviveCallbackKeeps, MergeKeeps DEF ReceiverStep
    <2>4. ASSUME NEW n \in Nodes, Start(n) \/ Crash(n) PROVE IInv'
      BY <2>4, StartKeeps, CrashKeeps
    <2>5. ASSUME NEW n \in Nodes, NEW d \in net, Receive(n, d) PROVE IInv'
      BY <2>5, ReceiveKeeps
    <2>6. ASSUME NEW n \in Nodes, NEW p \in Nodes, GossipTo(n, p) \/ Lose(n, p) PROVE IInv'
      BY <2>6, GossipToKeeps, LoseKeeps
    <2>7. ASSUME Tick PROVE IInv'
      BY <2>7, TickKeeps
    <2> QED BY <1>1, <2>1, <2>2, <2>3, <2>4, <2>5, <2>6, <2>7 DEF Next
  <1>2. CASE UNCHANGED vars
    <2>1. net' \subseteq Datagrams
      BY <1>2 DEF vars, IInv, TypeOK
    <2> QED BY <1>2, <2>1, NetMoves DEF vars
  <1> QED BY <1>1, <1>2

\* What a step does to the lists: only time makes a heartbeat older.
LEMMA StepAdvances ==
    ASSUME IInv, [Next]_vars, ~Tick, NEW n \in Nodes, up[n], up'[n]
    PROVE  Advances(members[n], members'[n])
  <1>1. CASE members'[n] = members[n]
    <2>1. ASSUME NEW m \in Nodes PROVE members[n][m].age <= members[n][m].age
      <3>1. members[n][m] \in Member \cup {Unknown}
        BY TypeFacts DEF IInv
      <3>2. members[n][m].age \in Ages
        BY <3>1, EntryFacts
      <3> QED BY <3>2, CapNat DEF Ages
    <2> QED BY <1>1, <2>1 DEF Advances
  <1>2. ASSUME NEW j \in Nodes, Start(j) \/ Crash(j) PROVE members'[n] = members[n]
    <2>1. members \in [Nodes -> Lists] /\ up \in [Nodes -> BOOLEAN]
      BY DEF IInv, TypeOK
    <2>2. j # n
      BY <1>2, <2>1 DEF Start, Crash
    <2> QED BY <1>2, <2>1, <2>2 DEF Start, Crash
  <1>3. ASSUME NEW j \in Nodes, CheckMembers(j) \/ DetectorStep(j)
        PROVE  Advances(members[n], members'[n]) \/ members'[n] = members[n]
    BY <1>3, TransitionToKeeps
       DEF CheckMembers, DetectorStep, ReadOldState, Switch, Compare, Notify, Callback
  <1>4. ASSUME NEW j \in Nodes, ReceiverStep(j)
        PROVE  Advances(members[n], members'[n]) \/ members'[n] = members[n]
    BY <1>4, RecordKeeps, ReviveSetsKeeps, ReviveRecordsKeeps, MergeKeeps
       DEF ReceiverStep, ReviveReads, ReviveCallback
  <1>5. ASSUME NEW j \in Nodes, NEW d \in net, Receive(j, d) PROVE members'[n] = members[n]
    BY <1>5 DEF Receive
  <1>6. ASSUME NEW j \in Nodes, NEW p \in Nodes, GossipTo(j, p) \/ Lose(j, p)
        PROVE  members'[n] = members[n]
    BY <1>6 DEF GossipTo, Lose
  <1>7. CASE UNCHANGED vars
    BY <1>1, <1>7 DEF vars
  <1> QED BY <1>1, <1>2, <1>3, <1>4, <1>5, <1>6, <1>7 DEF Next

LEMMA Invariance == Spec => []IInv
  BY InitOK, Inductive, PTL DEF Spec

\* Every variable keeps its type: in particular no loop ever works on a node
\* that is not in the list.
THEOREM TypeCorrect == Spec => []TypeOK
  <1>1. IInv => TypeOK
    BY DEF IInv
  <1> QED BY <1>1, Invariance, PTL

\* A running node is alive in its own list and on its own ring, whatever it is
\* told and however long it runs: checkMembers and Merge skip the node itself,
\* and nothing else can declare it dead.
THEOREM NodesServe == Spec => []SelfServes
  <1>1. IInv => SelfServes
    BY DEF IInv
  <1> QED BY <1>1, Invariance, PTL

\* No datagram, however late or often it arrives, and no step of the detector
\* turns a heartbeat time back or forgets a member.
THEOREM HeartbeatsOnlyAdvance == Spec => HeartbeatsAdvance
  <1>1. ASSUME IInv, [Next]_vars
        PROVE  [~Tick => \A n, m \in Nodes :
                   (up[n] /\ up'[n] /\ members[n][m] # Unknown)
                     => members'[n][m] # Unknown /\ members'[n][m].age <= members[n][m].age]_vars
    BY <1>1, StepAdvances DEF Advances
  <1> QED BY <1>1, Invariance, PTL DEF Spec, HeartbeatsAdvance

-----------------------------------------------------------------------------
(***************************************************************************)
(* Dead nodes are off the ring, if the loops are prompt.                   *)
(***************************************************************************)

\* The pass of the current tick has set the state of m for the last time.
Past(n, m) ==
    /\ ~ticked[n]
    /\ \/ det[n].pc = "idle"
       \/ m \notin det[n].todo
       \/ det[n].cur = m /\ det[n].pc \in {"compare", "notify", "call"}

\* Between the accesses of the detection loop to a state only a heartbeat
\* changes it, so a node is declared dead only if it was suspect at first, and
\* one reported alive is alive.
Deciding(n) ==
    /\ det[n].pc \in {"switch", "set"} => members[n][det[n].cur].state \in {det[n].old, "alive"}
    /\ det[n].pc = "set" /\ det[n].new = "dead" => det[n].old = "suspect"
    /\ det[n].pc = "call" /\ det[n].new = "alive" => members[n][det[n].cur].state = "alive"

\* There is one pass per tick.  Revive finds a dead node only if the pass that
\* declared it dead ran since the heartbeat was recorded, so that no pass can
\* do it again before the callback.
OnePass(n) ==
    /\ det[n].pc # "idle" => ~ticked[n]
    /\ rcv[n].pc = "revive" /\ members[n][rcv[n].from].state = "dead" => Past(n, rcv[n].from)
    /\ rcv[n].pc \in {"reset", "again", "call"} /\ rcv[n].old = "dead" => Past(n, rcv[n].from)
    /\ rcv[n].pc = "call" /\ rcv[n].old = "dead" => members[n][rcv[n].from].state = "alive"

\* Only members are on the ring, and a dead one only until the pass that
\* declared it dead has reported it.
OnRing(n) ==
    \A m \in ring[n] :
        /\ members[n][m] # Unknown
        /\ members[n][m].state = "dead" =>
             /\ det[n].cur = m
             /\ det[n].old # "dead"
             /\ \/ det[n].pc \in {"compare", "notify"}
                \/ det[n].pc = "call" /\ det[n].new = "dead"

NodeInv(n) == Deciding(n) /\ OnePass(n) /\ OnRing(n)

RingInv == \A n \in Nodes : NodeInv(n)

\* A step leaves node j alone.
Same(j) ==
    /\ ticked'[j] = ticked[j] /\ det'[j] = det[j] /\ rcv'[j] = rcv[j]
    /\ members'[j] = members[j] /\ ring'[j] = ring[j]

LEMMA SameKeeps == ASSUME NEW j \in Nodes, NodeInv(j), Same(j) PROVE NodeInv(j)'
  <1>1. Deciding(j)'
    BY DEF NodeInv, Same, Deciding
  <1>2. OnePass(j)'
    BY DEF NodeInv, Same, OnePass, Past
  <1>3. OnRing(j)'
    BY DEF NodeInv, Same, OnRing
  <1> QED BY <1>1, <1>2, <1>3 DEF NodeInv

LEMMA Facts ==
    ASSUME IInv, NEW n \in Nodes
    PROVE  /\ det \in [Nodes -> DetType] /\ det[n] \in DetType
           /\ rcv \in [Nodes -> RcvType] /\ rcv[n] \in RcvType
           /\ members \in [Nodes -> Lists] /\ ring \in [Nodes -> SUBSET Nodes]
           /\ ticked \in [Nodes -> BOOLEAN]
           /\ \A m \in Nodes : members[n][m] \in Member \cup {Unknown}
           /\ DetOK(n) /\ RcvOK(n) /\ TypeOK
           /\ det[n].cur \in Nodes /\ rcv[n].from \in Nodes
           /\ det[n].todo \subseteq Nodes /\ ring[n] \subseteq Nodes
  <1>1. TypeOK /\ DetOK(n) /\ RcvOK(n)
    BY DEF IInv
  <1>2. members \in [Nodes -> Lists] /\ ring \in [Nodes -> SUBSET Nodes] /\ ticked \in [Nodes -> BOOLEAN]
    BY <1>1 DEF TypeOK
  <1> QED BY <1>1, <1>2, TypeFacts DEF DetType, RcvType

\* The steps of the detection loop that change nothing else.
LEMMA CheckMembersNode ==
    ASSUME IInv, NEW n \in Nodes, NodeInv(n), CheckMembers(n) PROVE NodeInv(n)'
  <1>0. det \in [Nodes -> DetType] /\ det[n] \in DetType /\ ticked \in [Nodes -> BOOLEAN]
    BY Facts
  <1>1. det[n].pc = "idle" /\ ticked[n] /\ UNCHANGED <<members, ring, rcv>>
    BY DEF CheckMembers
  <1>2. ticked'[n] = FALSE
    BY <1>0 DEF CheckMembers
  <1>3. det'[n].pc \in {"idle", "pick"}
    <2> DEFINE el == [m \in Nodes |-> IF m \in Snapshot(n) THEN members[n][m].age ELSE 0]
    <2>1. det' = det \/ det' = [det EXCEPT ![n].pc = "pick", ![n].todo = Snapshot(n), ![n].elapsed = el]
      BY Zenon DEF CheckMembers
    <2> HIDE DEF el
    <2> QED BY <2>1, <1>0, <1>1 DEF DetType
  <1>4. \A m \in Nodes : ~Past(n, m)
    BY <1>1 DEF Past
  <1>5. rcv[n].from \in Nodes
    BY Facts
  <1>6. Deciding(n)'
    BY <1>3 DEF Deciding
  <1>7. OnePass(n)'
    <2>1. /\ ~(rcv[n].pc = "revive" /\ members[n][rcv[n].from].state = "dead")
          /\ ~(rcv[n].pc \in {"reset", "again", "call"} /\ rcv[n].old = "dead")
      BY <1>4, <1>5 DEF NodeInv, OnePass
    <2> QED BY <1>1, <1>2, <2>1 DEF OnePass
  <1>8. OnRing(n)'
    BY <1>1 DEF NodeInv, OnRing
  <1> QED BY <1>6, <1>7, <1>8 DEF NodeInv

LEMMA ReadOldStateNode ==
    ASSUME IInv, NEW n \in Nodes, NEW m \in Nodes, NodeInv(n), ReadOldState(n, m) PROVE NodeInv(n)'
  <1>0. det \in [Nodes -> DetType] /\ det[n] \in DetType
    BY Facts
  <1>1. det[n].pc = "pick" /\ m \in det[n].todo /\ UNCHANGED <<members, ring, rcv, ticked>>
    BY DEF ReadOldState
  <1>2. /\ det'[n].pc = "switch" /\ det'[n].cur = m /\ det'[n].old = members[n][m].state
        /\ det'[n].todo = det[n].todo
    BY <1>0 DEF ReadOldState, DetType
  <1>3. Deciding(n)'
    BY <1>1, <1>2 DEF Deciding
  <1>4. \A k \in Nodes : Past(n, k) => Past(n, k)'
    BY <1>1, <1>2 DEF Past
  <1>5. rcv[n].from \in Nodes
    BY Facts
  <1>6. OnePass(n)'
    BY <1>1, <1>2, <1>4, <1>5 DEF NodeInv, OnePass
  <1>7. OnRing(n)'
    BY <1>1 DEF NodeInv, OnRing
  <1> QED BY <1>3, <1>6, <1>7 DEF NodeInv

LEMMA SwitchNode ==
    ASSUME IInv, NEW n \in Nodes, NodeInv(n), Switch(n) PROVE NodeInv(n)'
  <1>0. det \in [Nodes -> DetType] /\ det[n] \in DetType /\ DetOK(n)
    BY Facts
  <1>1. det[n].pc = "switch" /\ UNCHANGED <<members, ring, rcv, ticked>>
    BY DEF Switch
  <1> DEFINE s == members[n][det[n].cur].state
  <1>2. \/ det' = [det EXCEPT ![n].pc = "set", ![n].new = "suspect"]
        \/ s = "suspect" /\ det' = [det EXCEPT ![n].pc = "set", ![n].new = "dead"]
        \/ det' = [det EXCEPT ![n].pc = "compare"]
    BY Zenon DEF Switch
  <1>3. s \in {det[n].old, "alive"}
    BY <1>1 DEF NodeInv, Deciding
  <1> HIDE DEF s
  <1>4. /\ det'[n].pc \in {"set", "compare"} /\ det'[n].cur = det[n].cur /\ det'[n].old = det[n].old
        /\ det'[n].todo = det[n].todo
        /\ det'[n].pc = "set" /\ det'[n].new = "dead" => s = "suspect"
    BY <1>0, <1>2 DEF DetType
  <1>5. Deciding(n)'
    BY <1>1, <1>3, <1>4 DEF Deciding, s
  <1>6. \A k \in Nodes : Past(n, k) => Past(n, k)'
    BY <1>0, <1>1, <1>4 DEF Past, DetOK
  <1>7. rcv[n].from \in Nodes
    BY Facts
  <1>8. OnePass(n)'
    BY <1>1, <1>4, <1>6, <1>7 DEF NodeInv, OnePass
  <1>9. OnRing(n)'
    BY <1>1 DEF NodeInv, OnRing
  <1> QED BY <1>5, <1>8, <1>9 DEF NodeInv

\* A node that is declared dead was suspect when the pass came to it, so that
\* the difference is noticed and reported.
LEMMA TransitionToNode ==
    ASSUME IInv, NEW n \in Nodes, NodeInv(n), TransitionTo(n) PROVE NodeInv(n)'
  <1>0. det \in [Nodes -> DetType] /\ det[n] \in DetType /\ DetOK(n) /\ TypeOK /\ ring[n] \subseteq Nodes
    BY Facts
  <1> DEFINE c == det[n].cur
  <1>1. det[n].pc = "set" /\ UNCHANGED <<ring, rcv, ticked>>
    BY DEF TransitionTo
  <1>2. c \in det[n].todo /\ c \in Nodes /\ det[n].new \in States /\ members[n][c] # Unknown
    BY <1>0, <1>1 DEF DetOK, DetType
  <1>3. /\ members'[n][c] # Unknown /\ members'[n][c].state = det[n].new
        /\ \A k \in Nodes : k # c => members'[n][k] = members[n][k]
    BY <1>0, <1>2, UpdateStateDoes DEF TransitionTo
  <1>4. /\ det'[n].pc = "compare" /\ det'[n].cur = c /\ det'[n].old = det[n].old
        /\ det'[n].todo = det[n].todo
    BY <1>0 DEF TransitionTo, DetType
  <1>5. Deciding(n)'
    BY <1>4 DEF Deciding
  <1>6. \A k \in Nodes : Past(n, k) => Past(n, k)' /\ k # c
    BY <1>1, <1>2, <1>4 DEF Past
  <1>7. ~ticked[n]
    BY <1>1 DEF NodeInv, OnePass
  <1>8. rcv[n].from \in Nodes
    BY Facts
  <1> HIDE DEF c
  <1>9. OnePass(n)'
    <2>1. CASE rcv[n].from = c
      <3>1. ~(rcv[n].pc \in {"reset", "again", "call"} /\ rcv[n].old = "dead")
        BY <1>6, <1>8, <2>1 DEF NodeInv, OnePass
      <3>2. Past(n, rcv[n].from)' /\ ~ticked'[n]
        BY <1>1, <1>4, <1>7, <2>1 DEF Past
      <3> QED BY <1>1, <3>1, <3>2 DEF OnePass
    <2>2. CASE rcv[n].from # c
      BY <1>1, <1>3, <1>4, <1>6, <1>8, <2>2 DEF NodeInv, OnePass
    <2> QED BY <2>1, <2>2
  <1>10. det[n].new = "dead" => det[n].old # "dead"
    BY <1>1 DEF NodeInv, Deciding
  <1>11. OnRing(n)'
    <2> SUFFICES ASSUME NEW k \in ring[n]
                 PROVE  /\ members'[n][k] # Unknown
                        /\ members'[n][k].state = "dead" => k = c /\ det[n].old # "dead"
      BY <1>1, <1>4 DEF OnRing
    <2>1. CASE k = c
      BY <1>3, <1>10, <2>1
    <2>2. CASE k # c
      <3>1. members'[n][k] = members[n][k]
        BY <1>0, <1>3, <2>2
      <3> QED BY <3>1, <1>1, <2>2 DEF NodeInv, OnRing
    <2> QED BY <2>1, <2>2
  <1> QED BY <1>5, <1>9, <1>11 DEF NodeInv

LEMMA NextMemberLeaves ==
    ASSUME IInv, NEW n \in Nodes
    PROVE  NextMember(n).pc = "idle" \/ NextMember(n).todo = det[n].todo \ {det[n].cur}
  <1> DEFINE el == [det[n].elapsed EXCEPT ![det[n].cur] = 0]
             rest == det[n].todo \ {det[n].cur}
             z == Sleeping
  <1>1. z \in DetType /\ z.pc = "idle"
    BY Facts, TypeFacts DEF Sleeping
  <1>2. \/ NextMember(n) = z
        \/ NextMember(n) = [[[z EXCEPT !.pc = "pick"] EXCEPT !.todo = rest] EXCEPT !.elapsed = el]
    BY Zenon DEF NextMember
  <1> HIDE DEF z, el, rest
  <1>3. NextMember(n).pc = "idle" \/ NextMember(n).todo = rest
    BY <1>1, <1>2 DEF DetType
  <1> QED BY <1>3 DEF rest

\* What has been passed stays so when the loop goes on to the next member.
LEMMA PastNext ==
    ASSUME IInv, NEW n \in Nodes, det[n].pc \notin {"idle", "pick"},
           det' = [det EXCEPT ![n] = NextMember(n)], ticked' = ticked
    PROVE  /\ \A k \in Nodes : Past(n, k) => Past(n, k)'
           /\ det'[n].pc \in {"idle", "pick"}
  <1>0. det \in [Nodes -> DetType]
    BY Facts
  <1>1. det'[n] = NextMember(n)
    BY <1>0
  <1> QED BY <1>1, NextMemberLeaves, NextMemberDoes DEF Past

LEMMA CompareNode ==
    ASSUME IInv, NEW n \in Nodes, NodeInv(n), Compare(n) PROVE NodeInv(n)'
  <1>0. det \in [Nodes -> DetType] /\ det[n] \in DetType /\ rcv[n].from \in Nodes
    BY Facts
  <1>1. det[n].pc = "compare" /\ UNCHANGED <<members, ring, rcv, ticked>>
    BY DEF Compare
  <1>2. CASE det[n].old # members[n][det[n].cur].state
    <2>1. /\ det'[n].pc = "notify" /\ det'[n].cur = det[n].cur /\ det'[n].old = det[n].old
          /\ det'[n].todo = det[n].todo
      BY <1>0, <1>2 DEF Compare, DetType
    <2>2. Deciding(n)'
      BY <2>1 DEF Deciding
    <2>3. OnePass(n)'
      BY <1>0, <1>1, <2>1 DEF NodeInv, OnePass, Past
    <2>4. OnRing(n)'
      BY <1>1, <2>1 DEF NodeInv, OnRing
    <2> QED BY <2>2, <2>3, <2>4 DEF NodeInv
  <1>3. CASE det[n].old = members[n][det[n].cur].state
    <2>1. det' = [det EXCEPT ![n] = NextMember(n)]
      BY <1>3 DEF Compare
    <2>2. det'[n].pc \in {"idle", "pick"} /\ \A k \in Nodes : Past(n, k) => Past(n, k)'
      BY <1>1, <2>1, PastNext
    <2>3. Deciding(n)'
      BY <2>2 DEF Deciding
    <2>4. OnePass(n)'
      BY <1>0, <1>1, <2>2 DEF NodeInv, OnePass
    <2>5. OnRing(n)'
      BY <1>1, <1>3 DEF NodeInv, OnRing
    <2> QED BY <2>3, <2>4, <2>5 DEF NodeInv
  <1> QED BY <1>2, <1>3

LEMMA NotifyNode ==
    ASSUME IInv, NEW n \in Nodes, NodeInv(n), Notify(n) PROVE NodeInv(n)'
  <1>0. det \in [Nodes -> DetType] /\ det[n] \in DetType /\ rcv[n].from \in Nodes
    BY Facts
  <1>1. det[n].pc = "notify" /\ UNCHANGED <<members, ring, rcv, ticked>>
    BY DEF Notify
  <1>2. /\ det'[n].pc = "call" /\ det'[n].cur = det[n].cur /\ det'[n].old = det[n].old
        /\ det'[n].todo = det[n].todo /\ det'[n].new = members[n][det[n].cur].state
    BY <1>0 DEF Notify, DetType
  <1>3. Deciding(n)'
    BY <1>1, <1>2 DEF Deciding
  <1>4. OnePass(n)'
    BY <1>0, <1>1, <1>2 DEF NodeInv, OnePass, Past
  <1>5. OnRing(n)'
    BY <1>1, <1>2 DEF NodeInv, OnRing
  <1> QED BY <1>3, <1>4, <1>5 DEF NodeInv

\* What onStateChange does to the ring of the node it runs on.
LEMMA OnStateChangeRing ==
    ASSUME TypeOK, NEW n \in Nodes, NEW m \in Nodes, NEW old, NEW new, OnStateChange(n, m, old, new)
    PROVE  /\ \A j \in Nodes : j # n => ring'[j] = ring[j]
           /\ ring'[n] \subseteq ring[n] \cup {m}
           /\ new = "dead" => m \notin ring'[n]
           /\ m \in ring'[n] => m \in ring[n] \/ (new = "alive" /\ old = "dead")
  <1>0. ring \in [Nodes -> SUBSET Nodes]
    BY DEF TypeOK
  <1>1. CASE new = "dead"
    BY <1>0, <1>1 DEF OnStateChange
  <1>2. CASE new # "dead" /\ new = "alive" /\ old = "dead"
    BY <1>0, <1>2 DEF OnStateChange
  <1>3. CASE new # "dead" /\ ~(new = "alive" /\ old = "dead")
    BY <1>3 DEF OnStateChange
  <1> QED BY <1>1, <1>2, <1>3

LEMMA CallbackNode ==
    ASSUME IInv, NEW n \in Nodes, NodeInv(n), Callback(n) PROVE NodeInv(n)'
  <1>0. /\ det[n] \in DetType /\ rcv[n].from \in Nodes /\ TypeOK /\ DetOK(n)
        /\ ring[n] \subseteq Nodes /\ det[n].cur \in Nodes
    BY Facts
  <1>1. det[n].pc = "call" /\ UNCHANGED <<members, rcv, ticked>>
    BY DEF Callback
  <1> DEFINE c == det[n].cur
  <1>2. /\ ring'[n] \subseteq ring[n] \cup {c}
        /\ det[n].new = "dead" => c \notin ring'[n]
        /\ c \in ring'[n] => c \in ring[n] \/ det[n].new = "alive"
    BY <1>0, OnStateChangeRing DEF Callback
  <1>3. det'[n].pc \in {"idle", "pick"} /\ \A k \in Nodes : Past(n, k) => Past(n, k)'
    BY <1>1, PastNext DEF Callback
  <1>4. Deciding(n)'
    BY <1>3 DEF Deciding
  <1>5. OnePass(n)'
    BY <1>0, <1>1, <1>3 DEF NodeInv, OnePass
  <1>6. members[n][c] # Unknown
    BY <1>0, <1>1 DEF DetOK
  <1>7. det[n].new = "alive" => members[n][c].state = "alive"
    BY <1>1 DEF NodeInv, Deciding
  <1> HIDE DEF c
  <1>8. OnRing(n)'
    <2> SUFFICES ASSUME NEW k \in ring'[n] PROVE members[n][k] # Unknown /\ members[n][k].state # "dead"
      BY <1>1 DEF OnRing
    <2>1. CASE k = c
      <3>1. det[n].new # "dead"
        BY <1>2, <2>1
      <3>2. CASE det[n].new = "alive"
        BY <1>6, <1>7, <2>1, <3>2
      <3>3. CASE det[n].new # "alive"
        <4>1. c \in ring[n]
          BY <1>2, <2>1, <3>3
        <4> QED BY <4>1, <3>1, <2>1, <1>1 DEF NodeInv, OnRing
      <3> QED BY <3>2, <3>3
    <2>2. CASE k # c
      <3>1. k \in ring[n]
        BY <1>2, <2>2
      <3> QED BY <3>1, <2>2 DEF NodeInv, OnRing, c
    <2> QED BY <2>1, <2>2
  <1> QED BY <1>4, <1>5, <1>8 DEF NodeInv

\* A step of the receive loop that moves it to r and makes the sender alive, or
\* leaves the states of all members alone.
LEMMA HeartbeatNode ==
    ASSUME IInv, NEW n \in Nodes, NodeInv(n), UNCHANGED <<ticked, det, ring>>,
           NEW r, rcv'[n] = r, r.from \in Nodes,
           \A k \in Nodes : /\ members[n][k] # Unknown =>
                                 /\ members'[n][k] # Unknown
                                 /\ members'[n][k].state \in {members[n][k].state, "alive"},
           r.pc = "revive" => members'[n][r.from].state = "alive",
           r.pc \in {"reset", "again", "call"} /\ r.old = "dead" => Past(n, r.from),
           r.pc = "call" /\ r.old = "dead" => members'[n][r.from].state = "alive"
    PROVE  NodeInv(n)'
  <1>0. det[n] \in DetType /\ DetOK(n) /\ ring[n] \subseteq Nodes /\ det[n].cur \in Nodes
    BY Facts
  <1>1. det[n].pc \in {"switch", "set", "call"} => members[n][det[n].cur] # Unknown
    BY <1>0 DEF DetOK
  <1>2. Deciding(n)'
    BY <1>0, <1>1 DEF NodeInv, Deciding
  <1>3. \A k \in Nodes : Past(n, k) => Past(n, k)'
    BY DEF Past
  <1>4. OnePass(n)'
    BY <1>3 DEF NodeInv, OnePass
  <1>5. OnRing(n)'
    BY <1>0 DEF NodeInv, OnRing
  <1> QED BY <1>2, <1>4, <1>5 DEF NodeInv

LEMMA ReceiveNode ==
    ASSUME IInv, NEW n \in Nodes, NEW d \in net, NodeInv(n), Receive(n, d) PROVE NodeInv(n)'
  <1>0. rcv \in [Nodes -> RcvType] /\ TypeOK
    BY Facts
  <1>1. d.from \in Nodes
    BY <1>0 DEF TypeOK, Datagrams
  <1>2. UNCHANGED <<ticked, det, ring, members>>
    BY DEF Receive
  <1>3. rcv'[n].pc \in {"record", "merge"} /\ rcv'[n].from = d.from
    BY <1>0 DEF Receive
  <1> QED BY <1>1, <1>2, <1>3, HeartbeatNode

LEMMA RecordNode ==
    ASSUME IInv, NEW n \in Nodes, NodeInv(n), Record(n) PROVE NodeInv(n)'
  <1>0. /\ rcv \in [Nodes -> RcvType] /\ rcv[n] \in RcvType /\ TypeOK /\ RcvOK(n)
        /\ rcv[n].from \in Nodes
    BY Facts
  <1>1. members[n][rcv[n].from] # Unknown
    BY <1>0 DEF Record, RcvOK
  <1>2. /\ members'[n][rcv[n].from] # Unknown /\ members'[n][rcv[n].from].state = "alive"
        /\ \A k \in Nodes : k # rcv[n].from => members'[n][k] = members[n][k]
    BY <1>0, <1>1, RecordHeartbeatDoes DEF Record
  <1>3. rcv'[n].pc \in {"revive", "merge"} /\ rcv'[n].from = rcv[n].from
    BY <1>0 DEF Record, RcvType
  <1>4. UNCHANGED <<ticked, det, ring>>
    BY DEF Record
  <1> QED BY <1>0, <1>2, <1>3, <1>4, HeartbeatNode

LEMMA ReviveReadsNode ==
    ASSUME IInv, NEW n \in Nodes, NodeInv(n), ReviveReads(n) PROVE NodeInv(n)'
  <1>0. rcv \in [Nodes -> RcvType] /\ rcv[n] \in RcvType /\ rcv[n].from \in Nodes
    BY Facts
  <1>1. rcv[n].pc = "revive" /\ UNCHANGED <<ticked, det, ring, members>>
    BY DEF ReviveReads
  <1>2. /\ rcv'[n].pc \in {"reset", "merge"} /\ rcv'[n].from = rcv[n].from
        /\ rcv'[n].old = members[n][rcv[n].from].state
    BY <1>0 DEF ReviveReads, RcvType
  <1>3. rcv'[n].old = "dead" => Past(n, rcv[n].from)
    BY <1>1, <1>2 DEF NodeInv, OnePass
  <1> QED BY <1>0, <1>1, <1>2, <1>3, HeartbeatNode

LEMMA ReviveSetsNode ==
    ASSUME IInv, NEW n \in Nodes, NodeInv(n), ReviveSets(n) PROVE NodeInv(n)'
  <1>0. /\ rcv \in [Nodes -> RcvType] /\ rcv[n] \in RcvType /\ TypeOK /\ RcvOK(n)
        /\ rcv[n].from \in Nodes
    BY Facts
  <1>1. members[n][rcv[n].from] # Unknown
    BY <1>0 DEF ReviveSets, RcvOK
  <1>2. /\ members'[n][rcv[n].from] # Unknown /\ members'[n][rcv[n].from].state = "alive"
        /\ \A k \in Nodes : k # rcv[n].from => members'[n][k] = members[n][k]
    BY <1>0, <1>1, UpdateStateDoes DEF ReviveSets, States
  <1>3. rcv'[n].pc = "again" /\ rcv'[n].from = rcv[n].from /\ rcv'[n].old = rcv[n].old
    BY <1>0 DEF ReviveSets, RcvType
  <1>4. rcv[n].pc = "reset" /\ UNCHANGED <<ticked, det, ring>>
    BY DEF ReviveSets
  <1>5. rcv[n].old = "dead" => Past(n, rcv[n].from)
    BY <1>4 DEF NodeInv, OnePass
  <1> QED BY <1>0, <1>2, <1>3, <1>4, <1>5, HeartbeatNode

LEMMA ReviveRecordsNode ==
    ASSUME IInv, NEW n \in Nodes, NodeInv(n), ReviveRecords(n) PROVE NodeInv(n)'
  <1>0. /\ rcv \in [Nodes -> RcvType] /\ rcv[n] \in RcvType /\ TypeOK /\ RcvOK(n)
        /\ rcv[n].from \in Nodes
    BY Facts
  <1>1. members[n][rcv[n].from] # Unknown
    BY <1>0 DEF ReviveRecords, RcvOK
  <1>2. /\ members'[n][rcv[n].from] # Unknown /\ members'[n][rcv[n].from].state = "alive"
        /\ \A k \in Nodes : k # rcv[n].from => members'[n][k] = members[n][k]
    BY <1>0, <1>1, RecordHeartbeatDoes DEF ReviveRecords
  <1>3. rcv'[n].pc = "call" /\ rcv'[n].from = rcv[n].from /\ rcv'[n].old = rcv[n].old
    BY <1>0 DEF ReviveRecords, RcvType
  <1>4. rcv[n].pc = "again" /\ UNCHANGED <<ticked, det, ring>>
    BY DEF ReviveRecords
  <1>5. rcv[n].old = "dead" => Past(n, rcv[n].from)
    BY <1>4 DEF NodeInv, OnePass
  <1> QED BY <1>0, <1>2, <1>3, <1>4, <1>5, HeartbeatNode

\* Revive puts a node on the ring that is alive at that moment.
LEMMA ReviveCallbackNode ==
    ASSUME IInv, NEW n \in Nodes, NodeInv(n), ReviveCallback(n) PROVE NodeInv(n)'
  <1>0. /\ rcv \in [Nodes -> RcvType] /\ rcv[n] \in RcvType /\ TypeOK /\ RcvOK(n)
        /\ rcv[n].from \in Nodes
    BY Facts
  <1>1. rcv[n].pc = "call" /\ UNCHANGED <<ticked, det, members>>
    BY DEF ReviveCallback
  <1>2. /\ ring'[n] \subseteq ring[n] \cup {rcv[n].from}
        /\ rcv[n].from \in ring'[n] => rcv[n].from \in ring[n] \/ rcv[n].old = "dead"
    BY <1>0, OnStateChangeRing DEF ReviveCallback
  <1>3. rcv'[n].pc = "merge"
    BY <1>0 DEF ReviveCallback, RcvType
  <1>4. Deciding(n)'
    BY <1>1 DEF NodeInv, Deciding
  <1>5. OnePass(n)'
    BY <1>1, <1>3 DEF NodeInv, OnePass
  <1>6. members[n][rcv[n].from] # Unknown
    BY <1>0, <1>1 DEF RcvOK
  <1>7. rcv[n].old = "dead" => members[n][rcv[n].from].state = "alive"
    BY <1>1 DEF NodeInv, OnePass
  <1>8. ASSUME NEW k \in ring'[n]
        PROVE  k \in ring[n] \/ (members[n][k] # Unknown /\ members[n][k].state # "dead")
    BY <1>2, <1>6, <1>7
  <1>9. OnRing(n)'
    BY <1>1, <1>8 DEF NodeInv, OnRing
  <1> QED BY <1>4, <1>5, <1>9 DEF NodeInv

\* Merge keeps the states of members; the nodes it adds are on no ring.
LEMMA MergeNode ==
    ASSUME IInv, NEW n \in Nodes, NodeInv(n), Merge(n) PROVE NodeInv(n)'
  <1>0. /\ rcv \in [Nodes -> RcvType] /\ rcv[n] \in RcvType /\ members \in [Nodes -> Lists]
        /\ \A m \in Nodes : members[n][m] \in Member \cup {Unknown}
    BY Facts
  <1>1. members'[n] = Merged(n, members[n], rcv[n].members)
    BY <1>0 DEF Merge
  <1>2. ASSUME NEW k \in Nodes, members[n][k] # Unknown
        PROVE  members'[n][k] # Unknown /\ members'[n][k].state = members[n][k].state
    <2>1. members[n][k] \in Member
      BY <1>0, <1>2
    <2> DEFINE e == members[n][k]
    <2>2. \/ members'[n][k] = e
          \/ \E a : members'[n][k] = [e EXCEPT !.age = a]
      BY <1>1, <1>2 DEF Merged
    <2> HIDE DEF e
    <2>3. members'[n][k].state = e.state /\ e.state \in States
      BY <2>1, <2>2 DEF Member, e
    <2>4. members'[n][k] # Unknown
      BY <2>3 DEF Unknown, States
    <2> QED BY <2>3, <2>4 DEF e
  <1>3. rcv'[n].pc = "idle" /\ rcv'[n].from \in Nodes
    <2>1. rcv'[n] = Listening /\ Listening \in RcvType
      BY <1>0, Facts, TypeFacts DEF Merge
    <2> QED BY <2>1 DEF Listening, RcvType
  <1>4. UNCHANGED <<ticked, det, ring>>
    BY DEF Merge
  <1> QED BY <1>2, <1>3, <1>4, HeartbeatNode

LEMMA StartNode ==
    ASSUME IInv, NEW n \in Nodes, NodeInv(n), Start(n) PROVE NodeInv(n)'
  <1>0. /\ members \in [Nodes -> Lists] /\ ring \in [Nodes -> SUBSET Nodes]
        /\ det[n] \in DetType /\ DetOK(n) /\ rcv[n].from \in Nodes /\ det[n].cur \in Nodes
    BY Facts
  <1>1. UNCHANGED <<ticked, det, rcv>>
    BY DEF Start
  <1>2. /\ ring'[n] = {n} /\ members'[n][n].state = "alive"
        /\ \A k \in Nodes : k # n => members'[n][k] = members[n][k]
    BY <1>0 DEF Start, Lists
  <1>3. \A k \in Nodes : members'[n][k].state \in {members[n][k].state, "alive"}
    BY <1>2
  <1>4. Deciding(n)'
    BY <1>0, <1>1, <1>3 DEF NodeInv, Deciding
  <1>5. OnePass(n)'
    BY <1>0, <1>1, <1>3 DEF NodeInv, OnePass, Past
  <1>6. OnRing(n)'
    BY <1>2 DEF OnRing, Unknown
  <1> QED BY <1>4, <1>5, <1>6 DEF NodeInv

LEMMA CrashNode ==
    ASSUME IInv, NEW n \in Nodes, Crash(n) PROVE NodeInv(n)'
  <1>0. det \in [Nodes -> DetType] /\ rcv \in [Nodes -> RcvType] /\ ring \in [Nodes -> SUBSET Nodes]
    BY Facts
  <1>1. det'[n].pc = "idle" /\ rcv'[n].pc = "idle" /\ ring'[n] = {}
    BY <1>0 DEF Crash, Sleeping, Listening
  <1> QED BY <1>1 DEF NodeInv, Deciding, OnePass, OnRing

\* Time passes only while both loops are at rest.
LEMMA TickNode ==
    ASSUME Prompt, IInv, NEW n \in Nodes, NodeInv(n), Tick PROVE NodeInv(n)'
  <1>0. members \in [Nodes -> Lists] /\ rcv[n] \in RcvType /\ ring[n] \subseteq Nodes
    BY Facts
  <1>1. det[n].pc = "idle" /\ rcv[n].pc = "idle" /\ UNCHANGED <<det, ring>>
    BY DEF Tick, AtRest
  <1>2. rcv'[n].pc = "idle"
    BY <1>0, <1>1 DEF Tick, RcvType
  <1>3. members'[n] = Aged(members[n])
    BY DEF Tick
  <1>4. \A m \in Nodes : /\ members'[n][m] = Unknown <=> members[n][m] = Unknown
                         /\ members'[n][m].state = members[n][m].state
    BY <1>0, <1>3, AgedDoes
  <1>5. Deciding(n)' /\ OnePass(n)'
    BY <1>1, <1>2 DEF Deciding, OnePass
  <1>6. OnRing(n)'
    BY <1>0, <1>1, <1>4 DEF NodeInv, OnRing
  <1> QED BY <1>5, <1>6 DEF NodeInv

\* A step of one node leaves the others alone.
LEMMA LoopsApart ==
    ASSUME IInv, NEW n \in Nodes, NEW j \in Nodes, j # n,
           CheckMembers(n) \/ DetectorStep(n) \/ ReceiverStep(n) \/ Start(n) \/ Crash(n)
    PROVE  Same(j)
  <1>0. /\ det \in [Nodes -> DetType] /\ rcv \in [Nodes -> RcvType]
        /\ members \in [Nodes -> Lists] /\ ring \in [Nodes -> SUBSET Nodes]
        /\ ticked \in [Nodes -> BOOLEAN] /\ TypeOK
        /\ det[n].cur \in Nodes /\ rcv[n].from \in Nodes
    BY Facts
  <1>1. CASE CheckMembers(n)
    BY <1>0, <1>1 DEF CheckMembers, Same
  <1>2. CASE (\E m \in Nodes : ReadOldState(n, m)) \/ Compare(n) \/ Notify(n)
    BY <1>0, <1>2 DEF ReadOldState, Compare, Notify, Same
  <1>3. CASE Switch(n)
    BY <1>0, <1>3 DEF Switch, Same
  <1>4. CASE TransitionTo(n)
    BY <1>0, <1>4 DEF TransitionTo, UpdateState, Same
  <1>5. CASE Callback(n)
    BY <1>0, <1>5, OnStateChangeRing DEF Callback, Same
  <1>6. CASE Record(n) \/ ReviveSets(n) \/ ReviveRecords(n) \/ Merge(n)
    BY <1>0, <1>6 DEF Record, ReviveSets, ReviveRecords, Merge, RecordHeartbeat, UpdateState, Same
  <1>7. CASE ReviveReads(n)
    BY <1>0, <1>7 DEF ReviveReads, Same
  <1>8. CASE ReviveCallback(n)
    BY <1>0, <1>8, OnStateChangeRing DEF ReviveCallback, Same
  <1>9. CASE Start(n) \/ Crash(n)
    BY <1>0, <1>9 DEF Start, Crash, Same
  <1> QED BY <1>1, <1>2, <1>3, <1>4, <1>5, <1>6, <1>7, <1>8, <1>9, Zenon DEF DetectorStep, ReceiverStep

LEMMA RingInductive ==
    ASSUME Prompt PROVE IInv /\ RingInv /\ [Next]_vars => RingInv'
  <1> SUFFICES ASSUME IInv, RingInv, [Next]_vars, NEW j \in Nodes PROVE NodeInv(j)'
    BY DEF RingInv
  <1>0. NodeInv(j)
    BY DEF RingInv
  <1>1. ASSUME Same(j) PROVE NodeInv(j)'
    BY <1>0, <1>1, SameKeeps
  <1>2. ASSUME NEW n \in Nodes,
               CheckMembers(n) \/ DetectorStep(n) \/ ReceiverStep(n) \/ Start(n) \/ Crash(n)
        PROVE  NodeInv(j)'
    <2>1. CASE j # n
      BY <1>1, <1>2, <2>1, LoopsApart
    <2>2. CASE j = n
      <3>1. NodeInv(n)
        BY <1>0, <2>2
      <3>2. NodeInv(n)'
        BY <1>2, <3>1, CheckMembersNode, ReadOldStateNode, SwitchNode, TransitionToNode, CompareNode,
           NotifyNode, CallbackNode, RecordNode, ReviveReadsNode, ReviveSetsNode, ReviveRecordsNode,
           ReviveCallbackNode, MergeNode, StartNode, CrashNode, Zenon
           DEF DetectorStep, ReceiverStep
      <3> QED BY <2>2, <3>2
    <2> QED BY <2>1, <2>2
  <1>3. ASSUME NEW n \in Nodes, NEW d \in net, Receive(n, d) PROVE NodeInv(j)'
    <2>1. CASE j # n
      <3>1. rcv \in [Nodes -> RcvType]
        BY Facts
      <3>2. Same(j)
        BY <1>3, <2>1, <3>1 DEF Receive, Same
      <3> QED BY <1>1, <3>2
    <2>2. CASE j = n
      BY <1>0, <1>3, <2>2, ReceiveNode
    <2> QED BY <2>1, <2>2
  <1>4. ASSUME NEW n \in Nodes, NEW p \in Nodes, GossipTo(n, p) \/ Lose(n, p) PROVE NodeInv(j)'
    <2>1. Same(j)
      BY <1>4 DEF GossipTo, Lose, Same
    <2> QED BY <1>1, <2>1
  <1>5. ASSUME Tick PROVE NodeInv(j)'
    BY <1>0, <1>5, TickNode
  <1>6. ASSUME UNCHANGED vars PROVE NodeInv(j)'
    <2>1. Same(j)
      BY <1>6 DEF vars, Same
    <2> QED BY <1>1, <2>1
  <1> QED BY <1>2, <1>3, <1>4, <1>5, <1>6, Zenon DEF Next

\* With loops that are done before the next tick, a node that the list shows as
\* dead is off the ring when both loops rest, in every cluster: however the
\* heartbeats, the steps of Revive and those of the pass that declared it dead
\* interleave, onStateChange is not left with news that is out of date.
THEOREM DeadNodesOffRing == ASSUME Prompt PROVE Spec => []DeadOffRing
  <1>1. Init => RingInv
    <2> SUFFICES ASSUME Init, NEW n \in Nodes PROVE NodeInv(n)
      BY DEF RingInv
    <2>1. det[n].pc = "idle" /\ rcv[n].pc = "idle" /\ ring[n] = {}
      BY DEF Init, Sleeping, Listening
    <2> QED BY <2>1 DEF NodeInv, Deciding, OnePass, OnRing
  <1>2. IInv /\ RingInv /\ [Next]_vars => RingInv'
    BY RingInductive
  <1>3. RingInv => DeadOffRing
    BY DEF RingInv, NodeInv, OnRing, DeadOffRing, AtRest
  <1> QED BY <1>1, <1>2, <1>3, Invariance, PTL DEF Spec

=============================================================================
