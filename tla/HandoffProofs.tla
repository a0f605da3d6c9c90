--------------------------- MODULE HandoffProofs ----------------------------
(***************************************************************************)
(* Proofs about hinted handoff, for every set of targets and keys and all  *)
(* limits: type correctness, that nothing older follows what a target has  *)
(* acknowledged, and that no hint is given up early.                       *)
(***************************************************************************)
EXTENDS Handoff, FiniteSetTheorems, WellFoundedInduction, TLAPS

-----------------------------------------------------------------------------
(***************************************************************************)
(* The inductive invariant.                                                *)
(***************************************************************************)

PassType ==
    [pc : {"idle", "next", "hints", "send", "remove", "increment", "check", "ended"},
     targets : SUBSET Targets, target : Targets, todo : SUBSET Hint]

\* A list or a copy of one: ids are those of Store, and attempts are only
\* counted on the first hint of a key.
Listed(s) ==
    /\ s \subseteq Hint
    /\ \A g, h \in s : g.id = h.id => g = h
    /\ \A g, h \in s : g.key = h.key /\ g.id < h.id => h.attempts = 0
    /\ \A h \in s : h.id <= stored

\* f failures allow for a attempts.
Enough(f, a) == a <= f \/ f > MaxAttempts + 1

Counted(t, s) == \A h \in s : Enough(failures[t][h.key], h.attempts)

Working == {"send", "remove", "increment", "check"}

StoreInv ==
    \A t \in Targets : /\ IsFiniteSet(hints[t])
                       /\ Cardinality(hints[t]) <= MaxSize
                       /\ Listed(hints[t])
                       /\ Counted(t, hints[t])

PassInv ==
    /\ Listed(pass.todo)
    /\ Counted(pass.target, pass.todo)
    /\ pass.pc \in Working <=> pass.todo # {}

AckInv ==
    /\ \A t \in Targets : \A k \in Keys : acked[t][k] <= stored
    /\ pass.pc = "remove" => acked[pass.target][Current.key] = Current.id

\* The failure has been counted in the history, not yet on the hint.
FailInv ==
    /\ pass.pc \in {"increment", "check"} =>
          Enough(failures[pass.target][Current.key], Current.attempts + 1)
    /\ pass.pc = "increment" =>
          \A h \in OfKey(hints[pass.target], Current.key) :
              Enough(failures[pass.target][Current.key], h.attempts + 1)

IInv == TypeOK /\ StoreInv /\ PassInv /\ AckInv /\ FailInv /\ NeverSentBackwards

-----------------------------------------------------------------------------
(***************************************************************************)
(* The first hint.                                                         *)
(***************************************************************************)

\* A set of natural numbers has a least one.
LEMMA Smallest ==
    ASSUME NEW S \in SUBSET Nat, S # {}
    PROVE  \E m \in S : \A k \in S : m <= k
  <1>1. PICK m \in S : \A y \in S : ~ (<<y, m>> \in OpToRel(<, Nat))
    BY NatLessThanWellFounded, WFMin
  <1>2. ASSUME NEW y \in S PROVE m <= y
    <2>1. <<y, m>> \notin OpToRel(<, Nat)
      BY <1>1
    <2>2. ~(y < m)
      BY <2>1 DEF OpToRel
    <2> QED BY <2>2
  <1> QED BY <1>2

\* First is a hint of the list, and none has a smaller id.
LEMMA FirstIs ==
    ASSUME NEW s \in SUBSET Hint, s # {}
    PROVE  First(s) \in s /\ \A g \in s : First(s).id <= g.id
  <1> DEFINE ids == {h.id : h \in s}
  <1>1. ids \in SUBSET Nat /\ ids # {}
    BY DEF Hint
  <1>2. PICK m \in ids : \A k \in ids : m <= k
    BY <1>1, Smallest
  <1>3. \E h \in s : \A g \in s : h.id <= g.id
    BY <1>2
  <1> QED BY <1>3 DEF First

\* The hint that is being sent comes first, and it alone may have attempts.
LEMMA CurrentIs ==
    ASSUME IInv, pass.pc \in Working
    PROVE  /\ Current \in pass.todo /\ Current \in Hint
           /\ Current.key \in Keys /\ Current.id \in Nat /\ Current.attempts \in Nat
           /\ \A g \in pass.todo \ {Current} :
                 Current.id < g.id /\ (g.key = Current.key => g.attempts = 0)
  <1>1. pass.todo \in SUBSET Hint /\ pass.todo # {} /\ Listed(pass.todo)
    BY DEF IInv, PassInv, Listed
  <1>2. Current \in pass.todo /\ \A g \in pass.todo : Current.id <= g.id
    BY <1>1, FirstIs DEF Current
  <1>3. \A g \in pass.todo : g.id \in Nat
    BY <1>1 DEF Hint
  <1>4. ASSUME NEW g \in pass.todo, g # Current
        PROVE  Current.id < g.id /\ (g.key = Current.key => g.attempts = 0)
    <2>1. Current.id # g.id
      BY <1>1, <1>2, <1>4 DEF Listed
    <2>2. Current.id < g.id
      BY <1>2, <1>3, <2>1
    <2> QED BY <1>1, <1>2, <2>2 DEF Listed
  <1>5. Current \in Hint
    BY <1>1, <1>2
  <1> QED BY <1>2, <1>4, <1>5 DEF Hint

\* Types of the variables, for later use.
LEMMA TypeFacts ==
    ASSUME IInv
    PROVE  /\ pass \in PassType /\ pass.target \in Targets /\ pass.targets \subseteq Targets
           /\ hints \in [Targets -> SUBSET Hint]
           /\ acked \in [Targets -> [Keys -> Nat]] /\ failures \in [Targets -> [Keys -> Nat]]
           /\ stored \in Nat /\ MaxAttempts \in Nat /\ MaxSize \in Nat \ {0}
           /\ Idle \in PassType /\ Idle.todo = {} /\ Idle.pc = "idle"
  <1>1. Idle \in PassType /\ Idle.todo = {} /\ Idle.pc = "idle"
    BY HandoffConstants DEF Idle, PassType
  <1> QED BY <1>1, HandoffConstants DEF IInv, TypeOK, PassType

\* Where the pass goes on.
LEMMA AdvanceDoes ==
    ASSUME IInv, NEW left \in SUBSET Hint
    PROVE  /\ Advance(pass, left) \in PassType
           /\ Advance(pass, left).todo = left
           /\ \/ left # {} /\ Advance(pass, left).pc = "send" /\ Advance(pass, left).target = pass.target
              \/ left = {} /\ Advance(pass, left).pc \in {"next", "idle"}
  <1>0. pass \in PassType /\ Idle \in PassType /\ Idle.todo = {} /\ Idle.pc = "idle"
        /\ pass.targets \subseteq Targets
    BY TypeFacts
  <1> DEFINE z == Idle
  <1>1. CASE left # {}
    <2>1. Advance(pass, left) = [[pass EXCEPT !.pc = "send"] EXCEPT !.todo = left]
      BY <1>1, Zenon DEF Advance
    <2> QED BY <1>0, <1>1, <2>1 DEF PassType
  <1>2. CASE left = {} /\ pass.targets # {}
    <2>1. Advance(pass, left) = [[z EXCEPT !.pc = "next"] EXCEPT !.targets = pass.targets]
      BY <1>2, Zenon DEF Advance
    <2> HIDE DEF z
    <2>2. z \in PassType /\ z.todo = {}
      BY <1>0 DEF z
    <2> QED BY <1>0, <1>2, <2>1, <2>2 DEF PassType
  <1>3. CASE left = {} /\ pass.targets = {}
    <2>1. Advance(pass, left) = z
      BY <1>3, Zenon DEF Advance
    <2> HIDE DEF z
    <2>2. z \in PassType /\ z.todo = {} /\ z.pc = "idle"
      BY <1>0 DEF z
    <2> QED BY <1>3, <2>1, <2>2
  <1> QED BY <1>1, <1>2, <1>3

-----------------------------------------------------------------------------
(***************************************************************************)
(* Steps outside the pass.                                                 *)
(***************************************************************************)

\* The hints that may still be sent are newer than what was acknowledged,
\* except in between the acknowledgement and the removal.
LEMMA LeftIsNewer ==
    ASSUME IInv, pass.pc # "remove"
    PROVE  /\ \A t \in Targets : \A h \in hints[t] : h.id > acked[t][h.key]
           /\ \A h \in pass.todo : h.id > acked[pass.target][h.key]
  <1>0. pass.target \in Targets /\ pass.todo \subseteq Hint /\ hints \in [Targets -> SUBSET Hint]
    BY TypeFacts DEF IInv, PassInv, Listed
  <1>1. NeverSentBackwards
    BY DEF IInv
  <1>2. ASSUME NEW t \in Targets, NEW h \in hints[t] PROVE h.id > acked[t][h.key]
    <2>1. h.key \in Keys
      BY <1>0 DEF Hint
    <2>2. h \in Left(t, h.key)
      BY DEF Left, OfKey
    <2> QED BY <1>1, <2>1, <2>2 DEF NeverSentBackwards
  <1>3. ASSUME NEW h \in pass.todo PROVE h.id > acked[pass.target][h.key]
    <2>1. h.key \in Keys
      BY <1>0 DEF Hint
    <2>2. h \in Left(pass.target, h.key)
      BY DEF Left, OfKey
    <2> QED BY <1>0, <1>1, <2>1, <2>2 DEF NeverSentBackwards
  <1> QED BY <1>2, <1>3

\* Nodes are registered, or Stop is called.
LEMMA EnvironmentMoves ==
    ASSUME IInv, registered' \subseteq Targets, running' \in BOOLEAN,
           UNCHANGED <<hints, stored, pass, acked, failures>>
    PROVE  IInv'
  <1>1. TypeOK'
    BY DEF IInv, TypeOK
  <1>2. StoreInv'
    BY DEF IInv, StoreInv, Listed, Counted
  <1>3. PassInv'
    BY DEF IInv, PassInv, Listed, Counted
  <1>4. Current' = Current
    BY DEF Current
  <1>5. AckInv' /\ FailInv'
    BY <1>4 DEF IInv, AckInv, FailInv, OfKey
  <1>6. NeverSentBackwards'
    BY <1>4 DEF IInv, NeverSentBackwards, Left, OfKey
  <1> QED BY <1>1, <1>2, <1>3, <1>5, <1>6 DEF IInv

\* Hints are dropped from the lists, and new ones added to them.
LEMMA ListsChange ==
    ASSUME IInv, UNCHANGED <<registered, running, pass, acked, failures>>,
           hints' \in [Targets -> SUBSET Hint], stored' \in 0..MaxStores, stored <= stored',
           StoreInv',
           \A t \in Targets : \A h \in hints'[t] : h \in hints[t] \/ (h.id > stored /\ h.attempts = 0)
    PROVE  IInv'
  <1>0. /\ pass.target \in Targets /\ stored \in Nat /\ MaxAttempts \in Nat /\ stored' \in Nat
        /\ acked \in [Targets -> [Keys -> Nat]] /\ failures \in [Targets -> [Keys -> Nat]]
        /\ hints \in [Targets -> SUBSET Hint]
    BY TypeFacts
  <1>1. TypeOK'
    BY DEF IInv, TypeOK, StoreInv
  <1>2. PassInv'
    <2>1. \A h \in pass.todo : h.id \in Nat /\ h.id <= stored
      BY DEF IInv, PassInv, Listed, Hint
    <2>2. \A h \in pass.todo : h.id <= stored'
      BY <1>0, <2>1
    <2> QED BY <2>2 DEF IInv, PassInv, Listed, Counted
  <1>3. Current' = Current
    BY DEF Current
  <1>4. AckInv'
    <2>1. \A t \in Targets : \A k \in Keys : acked[t][k] \in Nat /\ acked[t][k] <= stored
      BY <1>0 DEF IInv, AckInv
    <2>2. \A t \in Targets : \A k \in Keys : acked[t][k] <= stored'
      BY <1>0, <2>1
    <2> QED BY <1>3, <2>2 DEF IInv, AckInv
  <1>5. FailInv'
    <2>1. CASE pass.pc # "increment"
      BY <1>3, <2>1 DEF IInv, FailInv
    <2>2. CASE pass.pc = "increment"
      <3> DEFINE f == failures[pass.target][Current.key]
      <3>1. Current.key \in Keys /\ Current.attempts \in Nat
        BY <2>2, CurrentIs DEF Working
      <3>2. f \in Nat /\ Enough(f, Current.attempts + 1)
        BY <1>0, <2>2, <3>1 DEF IInv, FailInv
      <3>3. Enough(f, 0 + 1)
        BY <1>0, <3>1, <3>2 DEF Enough
      <3>4. \A h \in OfKey(hints[pass.target], Current.key) : Enough(f, h.attempts + 1)
        BY <2>2 DEF IInv, FailInv
      <3> HIDE DEF f
      <3>5. ASSUME NEW h \in OfKey(hints'[pass.target], Current.key) PROVE Enough(f, h.attempts + 1)
        BY <1>0, <3>3, <3>4 DEF OfKey
      <3> QED BY <1>3, <2>2, <3>2, <3>5 DEF FailInv, f
    <2> QED BY <2>1, <2>2
  <1>6. NeverSentBackwards'
    <2> SUFFICES ASSUME NEW t \in Targets, NEW k \in Keys, NEW h \in Left(t, k)',
                        ~(pass.pc = "remove" /\ pass.target = t /\ Current.key = k)
                 PROVE  h.id > acked[t][k]
      BY <1>3 DEF NeverSentBackwards
    <2>1. CASE h \in Left(t, k)
      BY <2>1 DEF IInv, NeverSentBackwards
    <2>2. CASE h \notin Left(t, k)
      <3>1. h \in hints'[t] /\ h.id > stored
        BY <2>2 DEF Left, OfKey
      <3>2. h.id \in Nat /\ acked[t][k] \in Nat /\ acked[t][k] <= stored
        BY <1>0, <3>1 DEF IInv, AckInv, Hint
      <3> QED BY <1>0, <3>1, <3>2
    <2> QED BY <2>1, <2>2
  <1> QED BY <1>1, <1>2, <1>4, <1>5, <1>6 DEF IInv

\* Store: the list stays within its limit, and the new hint is the newest.
LEMMA StoreKeeps ==
    ASSUME IInv, NEW t \in Targets, NEW k \in Keys, Store(t, k) PROVE IInv'
  <1>0. /\ stored \in Nat /\ MaxSize \in Nat \ {0} /\ MaxAttempts \in Nat
        /\ failures \in [Targets -> [Keys -> Nat]]
        /\ hints \in [Targets -> SUBSET Hint]
        /\ stored \in 0..MaxStores /\ MaxStores \in Nat
    BY TypeFacts, HandoffConstants DEF IInv, TypeOK
  <1> DEFINE kept == IF Cardinality(hints[t]) >= MaxSize THEN hints[t] \ {First(hints[t])}
                     ELSE hints[t]
             new == [key |-> k, id |-> stored + 1, attempts |-> 0]
             all == kept \cup {new}
  <1>1. hints' = [hints EXCEPT ![t] = all] /\ stored' = stored + 1 /\ stored < MaxStores
        /\ UNCHANGED <<registered, running, pass, acked, failures>>
    BY DEF Store
  <1>2. new \in Hint /\ new.id = stored + 1 /\ new.key = k /\ new.attempts = 0
    BY <1>0 DEF Hint
  <1>3. IsFiniteSet(hints[t]) /\ Cardinality(hints[t]) <= MaxSize /\ Listed(hints[t])
        /\ Counted(t, hints[t]) /\ hints[t] \subseteq Hint
    BY <1>0 DEF IInv, StoreInv
  <1>4. kept \subseteq hints[t] /\ IsFiniteSet(kept) /\ Cardinality(kept) + 1 <= MaxSize
        /\ Cardinality(kept) \in Nat
    <2>0. Cardinality(hints[t]) \in Nat
      BY <1>3, FS_CardinalityType
    <2>1. CASE Cardinality(hints[t]) >= MaxSize
      <3>1. hints[t] # {}
        BY <1>0, <1>3, <2>1, FS_EmptySet
      <3>2. First(hints[t]) \in hints[t]
        BY <1>3, <3>1, FirstIs
      <3>3. /\ IsFiniteSet(hints[t] \ {First(hints[t])})
            /\ Cardinality(hints[t] \ {First(hints[t])}) = Cardinality(hints[t]) - 1
        BY <1>3, <3>2, FS_RemoveElement
      <3>4. kept = hints[t] \ {First(hints[t])}
        BY <2>1
      <3> HIDE DEF kept
      <3>5. IsFiniteSet(kept) /\ Cardinality(kept) = Cardinality(hints[t]) - 1
        BY <3>3, <3>4
      <3>6. ASSUME NEW c \in Nat, NEW d, c <= MaxSize, c >= MaxSize, d = c - 1
            PROVE  d \in Nat /\ d + 1 <= MaxSize
        BY <1>0, <3>6
      <3>7. Cardinality(kept) \in Nat /\ Cardinality(kept) + 1 <= MaxSize
        BY <1>3, <2>0, <2>1, <3>5, <3>6
      <3> QED BY <3>4, <3>5, <3>7
    <2>2. CASE ~(Cardinality(hints[t]) >= MaxSize)
      BY <1>0, <1>3, <2>0, <2>2
    <2> QED BY <2>1, <2>2
  <1> HIDE DEF kept, new
  <1>5. IsFiniteSet(all) /\ Cardinality(all) <= MaxSize
    <2>1. IsFiniteSet(all) /\ Cardinality(all) = IF new \in kept THEN Cardinality(kept) ELSE Cardinality(kept) + 1
      BY <1>4, FS_AddElement
    <2> QED BY <1>0, <1>4, <2>1
  <1>6. ASSUME NEW h \in kept PROVE h \in Hint /\ h.id \in Nat /\ h.id <= stored /\ h.id < stored + 1
    BY <1>0, <1>3, <1>4 DEF Listed, Hint
  <1>7. /\ all \subseteq Hint /\ \A h \in all : h.id <= stored + 1
        /\ \A g, h \in all : g.id = h.id => g = h
        /\ \A g, h \in all : g.key = h.key /\ g.id < h.id => h.attempts = 0
    <2>1. all \subseteq Hint /\ \A h \in all : h.id <= stored + 1
      BY <1>0, <1>2, <1>6
    <2>2. \A g, h \in all : g.id = h.id => g = h
      <3> SUFFICES ASSUME NEW g \in all, NEW h \in all, g.id = h.id PROVE g = h
        OBVIOUS
      <3>1. CASE g \in kept /\ h \in kept
        BY <1>3, <1>4, <3>1 DEF Listed
      <3>2. CASE g = new \/ h = new
        BY <1>0, <1>2, <1>6, <3>2
      <3> QED BY <3>1, <3>2
    <2>3. \A g, h \in all : g.key = h.key /\ g.id < h.id => h.attempts = 0
      <3> SUFFICES ASSUME NEW g \in all, NEW h \in all, g.key = h.key, g.id < h.id
                   PROVE  h.attempts = 0
        OBVIOUS
      <3>1. CASE h = new
        BY <1>2, <3>1
      <3>2. CASE h \in kept /\ g \in kept
        BY <1>3, <1>4, <3>2 DEF Listed
      <3>3. CASE h \in kept /\ g = new
        BY <1>0, <1>2, <1>6, <3>3
      <3> QED BY <3>1, <3>2, <3>3
    <2> QED BY <2>1, <2>2, <2>3
  <1>8. Counted(t, all)
    <2>1. Enough(failures[t][k], 0)
      BY <1>0 DEF Enough
    <2> QED BY <1>2, <1>3, <1>4, <2>1 DEF Counted
  <1>9. hints'[t] = all /\ \A u \in Targets : u # t => hints'[u] = hints[u]
    BY <1>0, <1>1
  <1>10. hints' \in [Targets -> SUBSET Hint]
    BY <1>0, <1>1, <1>2, <1>6
  <1>11. StoreInv'
    <2> SUFFICES ASSUME NEW u \in Targets
                 PROVE  /\ IsFiniteSet(hints'[u]) /\ Cardinality(hints'[u]) <= MaxSize
                        /\ Listed(hints[u])' /\ Counted(u, hints[u])'
      BY DEF StoreInv
    <2>1. CASE u = t
      <3>1. hints'[u] = all /\ failures' = failures /\ stored' = stored + 1
        BY <1>1, <1>9, <2>1
      <3> HIDE DEF all
      <3>2. Listed(hints[u])'
        BY <1>7, <3>1 DEF Listed
      <3>3. Counted(u, hints[u])'
        BY <1>8, <2>1, <3>1 DEF Counted
      <3> QED BY <1>5, <3>1, <3>2, <3>3
    <2>2. CASE u # t
      <3>1. /\ IsFiniteSet(hints[u]) /\ Cardinality(hints[u]) <= MaxSize
            /\ Listed(hints[u]) /\ Counted(u, hints[u])
        BY DEF IInv, StoreInv
      <3>2. \A h \in hints[u] : h.id <= stored'
        BY <1>0, <1>1, <3>1 DEF Listed, Hint
      <3> QED BY <1>1, <1>9, <2>2, <3>1, <3>2 DEF Listed, Counted
    <2> QED BY <2>1, <2>2
  <1>12. \A u \in Targets : \A h \in hints'[u] : h \in hints[u] \/ (h.id > stored /\ h.attempts = 0)
    BY <1>0, <1>2, <1>4, <1>9
  <1>13. stored' \in 0..MaxStores /\ stored <= stored'
    BY <1>0, <1>1
  <1> QED BY <1>1, <1>10, <1>11, <1>12, <1>13, ListsChange

\* cleanup: the lists only lose hints.
LEMMA CleanupKeeps == ASSUME IInv, NEW id \in 1..MaxStores, Cleanup(id) PROVE IInv'
  <1>0. hints \in [Targets -> SUBSET Hint] /\ stored \in 0..MaxStores /\ stored \in Nat
        /\ MaxSize \in Nat
    BY TypeFacts DEF IInv, TypeOK
  <1>1. /\ hints' = [t \in Targets |-> {h \in hints[t] : h.id > id}]
        /\ UNCHANGED <<stored, registered, running, pass, acked, failures>>
    BY DEF Cleanup
  <1>2. \A t \in Targets : hints'[t] \subseteq hints[t]
    BY <1>1
  <1>3. StoreInv'
    <2> SUFFICES ASSUME NEW t \in Targets
                 PROVE  /\ IsFiniteSet(hints'[t]) /\ Cardinality(hints'[t]) <= MaxSize
                        /\ Listed(hints[t])' /\ Counted(t, hints[t])'
      BY DEF StoreInv
    <2>1. /\ IsFiniteSet(hints[t]) /\ Cardinality(hints[t]) <= MaxSize
          /\ Listed(hints[t]) /\ Counted(t, hints[t])
      BY DEF IInv, StoreInv
    <2>2. IsFiniteSet(hints'[t]) /\ Cardinality(hints'[t]) <= Cardinality(hints[t])
      BY <1>2, <2>1, FS_Subset
    <2>3. Cardinality(hints'[t]) \in Nat /\ Cardinality(hints[t]) \in Nat
      BY <2>1, <2>2, FS_CardinalityType
    <2> QED BY <1>0, <1>1, <1>2, <2>1, <2>2, <2>3 DEF Listed, Counted
  <1>4. hints' \in [Targets -> SUBSET Hint]
    BY <1>0, <1>1
  <1> QED BY <1>0, <1>1, <1>2, <1>3, <1>4, ListsChange

-----------------------------------------------------------------------------
(***************************************************************************)
(* Steps of the pass.                                                      *)
(***************************************************************************)

\* The pass moves on, with nothing under way and what it has to deliver newer
\* than what its target acknowledged.
LEMMA PassMoves ==
    ASSUME IInv, UNCHANGED <<hints, stored, registered, running, acked, failures>>,
           pass.pc # "remove",
           pass' \in PassType, pass'.pc \notin {"remove", "increment", "check"},
           PassInv', \A h \in pass'.todo : h.id > acked[pass'.target][h.key]
    PROVE  IInv'
  <1>1. TypeOK'
    BY DEF IInv, TypeOK, PassType
  <1>2. StoreInv'
    BY DEF IInv, StoreInv, Listed, Counted
  <1>3. AckInv' /\ FailInv'
    BY DEF IInv, AckInv, FailInv
  <1>4. NeverSentBackwards'
    <2> SUFFICES ASSUME NEW t \in Targets, NEW k \in Keys, NEW h \in Left(t, k)'
                 PROVE  h.id > acked[t][k]
      BY DEF NeverSentBackwards
    <2>1. h.key = k /\ (h \in hints[t] \/ (h \in pass'.todo /\ pass'.target = t))
      BY DEF Left, OfKey
    <2> QED BY <2>1, LeftIsNewer
  <1> QED BY <1>1, <1>2, <1>3, <1>4 DEF IInv

\* In between two targets there is nothing to deliver.
LEMMA BetweenTargets ==
    ASSUME IInv, UNCHANGED <<hints, stored, registered, running, acked, failures>>,
           pass.pc \notin Working, pass' \in PassType, pass'.pc \notin Working, pass'.todo = {}
    PROVE  IInv'
  <1>1. PassInv'
    BY DEF PassInv, Listed, Counted
  <1> QED BY <1>1, PassMoves DEF Working

\* A pass starts, between two targets.
LEMMA StartPassKeeps == ASSUME IInv, StartPass PROVE IInv'
  <1>1. pass \in PassType /\ GetAllTargets \in SUBSET Targets
    BY TypeFacts DEF GetAllTargets
  <1>2. pass.todo = {}
    BY DEF IInv, PassInv, StartPass, Working
  <1> DEFINE all == GetAllTargets
  <1>3. pass' = [[pass EXCEPT !.pc = "next"] EXCEPT !.targets = all]
    BY DEF StartPass
  <1> HIDE DEF all
  <1>4. pass' \in PassType /\ pass'.pc = "next" /\ pass'.todo = {}
    BY <1>1, <1>2, <1>3 DEF PassType, all
  <1> QED BY <1>4, BetweenTargets DEF StartPass, Working

\* The loop ends, between two passes.
LEMMA LoopEndsKeeps == ASSUME IInv, LoopEnds PROVE IInv'
  <1>1. pass \in PassType
    BY TypeFacts
  <1>2. pass.todo = {}
    BY DEF IInv, PassInv, LoopEnds, Working
  <1>3. pass' \in PassType /\ pass'.pc = "ended" /\ pass'.todo = {}
    BY <1>1, <1>2 DEF LoopEnds, PassType
  <1> QED BY <1>3, BetweenTargets DEF LoopEnds, Working

\* The next target is chosen or skipped.
LEMMA CheckAliveKeeps == ASSUME IInv, NEW t \in Targets, CheckAlive(t) PROVE IInv'
  <1>1. pass \in PassType /\ Idle \in PassType /\ Idle.todo = {} /\ Idle.pc = "idle"
    BY TypeFacts
  <1>2. pass.todo = {} /\ pass.pc = "next"
    BY DEF IInv, PassInv, CheckAlive, Working
  <1> DEFINE rest == pass.targets \ {t}
  <1>3. \/ pass' = [[[pass EXCEPT !.pc = "hints"] EXCEPT !.targets = rest] EXCEPT !.target = t]
        \/ pass' = [pass EXCEPT !.targets = rest]
        \/ pass' = Idle
    BY Zenon DEF CheckAlive
  <1>4. rest \in SUBSET Targets
    BY <1>1 DEF PassType
  <1> HIDE DEF rest
  <1>5. pass' \in PassType /\ pass'.pc \in {"hints", "next", "idle"} /\ pass'.todo = {}
    BY <1>1, <1>2, <1>3, <1>4 DEF PassType
  <1> QED BY <1>2, <1>5, BetweenTargets DEF CheckAlive, Working

\* The pass goes on with hints that are newer than what was acknowledged.
LEMMA AdvanceKeeps ==
    ASSUME IInv, UNCHANGED <<hints, stored, registered, running, acked, failures>>,
           pass.pc # "remove", NEW left \in SUBSET Hint, pass' = Advance(pass, left),
           Listed(left), Counted(pass.target, left),
           \A h \in left : h.id > acked[pass.target][h.key]
    PROVE  IInv'
  <1>1. /\ pass' \in PassType /\ pass'.todo = left
        /\ \/ left # {} /\ pass'.pc = "send" /\ pass'.target = pass.target
           \/ left = {} /\ pass'.pc \in {"next", "idle"}
    BY AdvanceDoes
  <1>2. PassInv'
    BY <1>1 DEF PassInv, Listed, Counted, Working
  <1> QED BY <1>1, <1>2, PassMoves

\* GetHints: the copy is as good as the list.
LEMMA GetHintsKeeps == ASSUME IInv, GetHints PROVE IInv'
  <1>1. pass.target \in Targets /\ hints \in [Targets -> SUBSET Hint]
    BY TypeFacts
  <1>2. Listed(hints[pass.target]) /\ Counted(pass.target, hints[pass.target])
    BY <1>1 DEF IInv, StoreInv
  <1>3. \A h \in hints[pass.target] : h.id > acked[pass.target][h.key]
    BY <1>1, LeftIsNewer DEF GetHints
  <1> QED BY <1>1, <1>2, <1>3, AdvanceKeeps DEF GetHints

\* The hints after the current one.
LEMMA RestOfTodo ==
    ASSUME IInv
    PROVE  LET left == pass.todo \ {Current}
           IN  left \in SUBSET Hint /\ Listed(left) /\ Counted(pass.target, left)
  BY DEF IInv, PassInv, Listed, Counted

\* The hint stays and the pass goes on with the rest of the copy.
LEMMA KeepTryingKeeps == ASSUME IInv, KeepTrying PROVE IInv'
  <1> DEFINE left == pass.todo \ {Current}
  <1>1. left \in SUBSET Hint /\ Listed(left) /\ Counted(pass.target, left)
    BY RestOfTodo
  <1>2. \A h \in left : h.id > acked[pass.target][h.key]
    BY LeftIsNewer DEF KeepTrying
  <1>3. pass' = Advance(pass, left) /\ pass.pc = "check"
        /\ UNCHANGED <<hints, stored, registered, running, acked, failures>>
    BY DEF KeepTrying
  <1> HIDE DEF left
  <1> QED BY <1>1, <1>2, <1>3, AdvanceKeeps

\* What the steps of sending leave alone.
LEMMA PassAt ==
    ASSUME IInv, NEW pc \in Working, pass' = [pass EXCEPT !.pc = pc], pass.pc \in Working
    PROVE  /\ pass' \in PassType /\ pass'.pc = pc /\ pass'.target = pass.target
           /\ pass'.todo = pass.todo /\ Current' = Current
  <1>1. pass \in PassType
    BY TypeFacts
  <1>2. pass' \in PassType /\ pass'.pc = pc /\ pass'.target = pass.target /\ pass'.todo = pass.todo
    BY <1>1 DEF PassType, Working
  <1> QED BY <1>2 DEF Current

\* The acknowledgement: until the removal only the key being sent is exempt.
LEMMA SendSucceedsKeeps == ASSUME IInv, SendSucceeds PROVE IInv'
  <1>1. /\ pass' \in PassType /\ pass'.pc = "remove" /\ pass'.target = pass.target
        /\ pass'.todo = pass.todo /\ Current' = Current
    BY PassAt DEF SendSucceeds, Working
  <1>2. /\ Current \in pass.todo /\ Current.key \in Keys /\ Current.id \in Nat
    BY CurrentIs DEF SendSucceeds, Working
  <1>3. /\ pass.target \in Targets /\ stored \in Nat /\ acked \in [Targets -> [Keys -> Nat]]
        /\ hints \in [Targets -> SUBSET Hint]
    BY TypeFacts
  <1>4. /\ acked' = [acked EXCEPT ![pass.target][Current.key] = Current.id]
        /\ pass.pc = "send" /\ UNCHANGED <<hints, stored, registered, running, failures>>
    BY DEF SendSucceeds
  <1> DEFINE id == Current.id
             key == Current.key
  <1> HIDE DEF id, key
  <1>5. /\ acked' \in [Targets -> [Keys -> Nat]] /\ acked'[pass.target][key] = id
        /\ \A t \in Targets : \A k \in Keys :
              (t = pass.target /\ k = key) \/ acked'[t][k] = acked[t][k]
    BY <1>2, <1>3, <1>4 DEF id, key
  <1>6. TypeOK'
    BY <1>1, <1>4, <1>5 DEF IInv, TypeOK, PassType
  <1>7. StoreInv' /\ PassInv'
    BY <1>1, <1>4 DEF IInv, StoreInv, PassInv, Listed, Counted, Working
  <1>8. AckInv'
    <2>1. id <= stored
      BY <1>2 DEF IInv, PassInv, Listed, id
    <2>2. \A t \in Targets : \A k \in Keys : acked[t][k] <= stored
      BY DEF IInv, AckInv
    <2>3. \A t \in Targets : \A k \in Keys : acked'[t][k] <= stored
      BY <1>5, <2>1, <2>2
    <2> QED BY <1>1, <1>4, <1>5, <2>3 DEF AckInv, id, key
  <1>9. FailInv'
    BY <1>1 DEF FailInv
  <1>10. NeverSentBackwards'
    <2> SUFFICES ASSUME NEW t \in Targets, NEW k \in Keys, NEW h \in Left(t, k)',
                        ~(pass.target = t /\ key = k)
                 PROVE  h.id > acked'[t][k]
      BY <1>1 DEF NeverSentBackwards, key
    <2>1. h.key = k /\ (h \in hints[t] \/ (h \in pass.todo /\ pass.target = t))
      BY <1>1, <1>4 DEF Left, OfKey
    <2>2. h.id > acked[t][k]
      BY <1>4, <2>1, LeftIsNewer
    <2> QED BY <1>5, <2>2
  <1> QED BY <1>6, <1>7, <1>8, <1>9, <1>10 DEF IInv

\* A failed delivery counts for every hint of the key.
LEMMA SendFailsKeeps == ASSUME IInv, SendFails PROVE IInv'
  <1>1. /\ pass' \in PassType /\ pass'.pc = "increment" /\ pass'.target = pass.target
        /\ pass'.todo = pass.todo /\ Current' = Current
    BY PassAt DEF SendFails, Working
  <1>2. /\ Current \in pass.todo /\ Current.key \in Keys /\ Current.attempts \in Nat
    BY CurrentIs DEF SendFails, Working
  <1>3. /\ pass.target \in Targets /\ MaxAttempts \in Nat /\ pass.todo \subseteq Hint
        /\ hints \in [Targets -> SUBSET Hint] /\ failures \in [Targets -> [Keys -> Nat]]
    BY TypeFacts DEF IInv, PassInv, Listed
  <1> DEFINE key == Current.key
             f == failures[pass.target][key]
             more == IF f > MaxAttempts + 1 THEN f ELSE f + 1
  <1>4. /\ failures' = [failures EXCEPT ![pass.target][key] = more]
        /\ pass.pc = "send" /\ UNCHANGED <<hints, stored, registered, running, acked>>
    BY DEF SendFails
  <1>5. key \in Keys /\ f \in Nat /\ more \in Nat
    BY <1>2, <1>3
  <1>6. \A a \in Nat : Enough(f, a) => Enough(more, a) /\ Enough(more, a + 1)
    BY <1>3, <1>5 DEF Enough
  <1> HIDE DEF key, more
  <1>7. /\ failures' \in [Targets -> [Keys -> Nat]] /\ failures'[pass.target][key] = more
        /\ \A t \in Targets : \A k \in Keys :
              (t = pass.target /\ k = key) \/ failures'[t][k] = failures[t][k]
    BY <1>3, <1>4, <1>5
  <1>8. ASSUME NEW t \in Targets, NEW s \in SUBSET Hint, Counted(t, s) PROVE Counted(t, s)'
    <2> SUFFICES ASSUME NEW h \in s PROVE Enough(failures'[t][h.key], h.attempts)
      BY DEF Counted
    <2>1. h.key \in Keys /\ h.attempts \in Nat /\ Enough(failures[t][h.key], h.attempts)
      BY <1>8 DEF Hint, Counted
    <2>2. CASE t = pass.target /\ h.key = key
      BY <1>6, <1>7, <2>1, <2>2
    <2>3. CASE ~(t = pass.target /\ h.key = key)
      BY <1>7, <2>1, <2>3
    <2> QED BY <2>2, <2>3
  <1>9. TypeOK'
    BY <1>1, <1>4, <1>7 DEF IInv, TypeOK, PassType
  <1>10. StoreInv'
    BY <1>3, <1>4, <1>8 DEF IInv, StoreInv, Listed, Counted
  <1>11. PassInv'
    BY <1>1, <1>3, <1>4, <1>8 DEF IInv, PassInv, Listed, Counted, Working
  <1>12. AckInv'
    BY <1>1, <1>4 DEF IInv, AckInv
  <1>13. FailInv'
    <2>1. Enough(f, Current.attempts)
      BY <1>2 DEF IInv, PassInv, Counted, key
    <2>2. Enough(more, Current.attempts + 1)
      BY <1>2, <1>6, <2>1
    <2>3. ASSUME NEW h \in OfKey(hints[pass.target], key) PROVE Enough(more, h.attempts + 1)
      <3>1. h.attempts \in Nat /\ h.key = key /\ h \in hints[pass.target]
        BY <1>3 DEF OfKey, Hint
      <3>2. Enough(f, h.attempts)
        BY <1>3, <3>1 DEF IInv, StoreInv, Counted
      <3> QED BY <1>6, <3>1, <3>2
    <2> QED BY <1>1, <1>4, <1>7, <2>2, <2>3 DEF FailInv, OfKey, key
  <1>14. NeverSentBackwards'
    <2> SUFFICES ASSUME NEW t \in Targets, NEW k \in Keys, NEW h \in Left(t, k)'
                 PROVE  h.id > acked'[t][k]
      BY DEF NeverSentBackwards
    <2>1. h.key = k /\ (h \in hints[t] \/ (h \in pass.todo /\ pass.target = t))
      BY <1>1, <1>4 DEF Left, OfKey
    <2> QED BY <1>4, <2>1, LeftIsNewer
  <1> QED BY <1>9, <1>10, <1>11, <1>12, <1>13, <1>14 DEF IInv

\* The hints of the key go; what is left of the copy has not been tried.
LEMMA RemoveKeeps == ASSUME IInv, pass.pc \in {"remove", "check"}, Remove PROVE IInv'
  <1> DEFINE key == Current.key
             left == pass.todo \ {Current}
             kept == RemoveHint(hints[pass.target], Current)
  <1>1. /\ pass.target \in Targets /\ stored \in Nat /\ MaxAttempts \in Nat /\ MaxSize \in Nat
        /\ hints \in [Targets -> SUBSET Hint] /\ failures \in [Targets -> [Keys -> Nat]]
        /\ acked \in [Targets -> [Keys -> Nat]]
    BY TypeFacts
  <1>2. /\ key \in Keys /\ Current.id \in Nat
        /\ \A g \in left : g \in pass.todo /\ Current.id < g.id /\ (g.key = key => g.attempts = 0)
    BY CurrentIs DEF Working
  <1>3. left \in SUBSET Hint /\ Listed(left) /\ Counted(pass.target, left)
    BY RestOfTodo
  <1>4. /\ hints' = [hints EXCEPT ![pass.target] = kept]
        /\ failures' = [failures EXCEPT ![pass.target][key] = 0]
        /\ pass' = Advance(pass, left)
        /\ UNCHANGED <<stored, registered, running, acked>>
    BY DEF Remove
  <1>5. kept \subseteq hints[pass.target] /\ \A h \in kept : h.key # key
    BY DEF RemoveHint
  <1>6. /\ pass' \in PassType /\ pass'.todo = left
        /\ \/ left # {} /\ pass'.pc = "send" /\ pass'.target = pass.target
           \/ left = {} /\ pass'.pc \in {"next", "idle"}
    BY <1>3, <1>4, AdvanceDoes
  <1> HIDE DEF left, kept
  <1>7. /\ hints' \in [Targets -> SUBSET Hint] /\ hints'[pass.target] = kept
        /\ \A t \in Targets : t # pass.target => hints'[t] = hints[t]
        /\ \A t \in Targets : hints'[t] \subseteq hints[t]
    BY <1>1, <1>4, <1>5
  <1> HIDE DEF key
  <1>8. /\ failures' \in [Targets -> [Keys -> Nat]] /\ failures'[pass.target][key] = 0
        /\ \A t \in Targets : \A k \in Keys :
              (t = pass.target /\ k = key) \/ failures'[t][k] = failures[t][k]
    BY <1>1, <1>2, <1>4
  <1>9. StoreInv'
    <2> SUFFICES ASSUME NEW t \in Targets
                 PROVE  /\ IsFiniteSet(hints'[t]) /\ Cardinality(hints'[t]) <= MaxSize
                        /\ Listed(hints[t])' /\ Counted(t, hints[t])'
      BY DEF StoreInv
    <2>1. /\ IsFiniteSet(hints[t]) /\ Cardinality(hints[t]) <= MaxSize
          /\ Listed(hints[t]) /\ Counted(t, hints[t])
      BY DEF IInv, StoreInv
    <2>2. IsFiniteSet(hints'[t]) /\ Cardinality(hints'[t]) <= Cardinality(hints[t])
      BY <1>7, <2>1, FS_Subset
    <2>3. Cardinality(hints'[t]) \in Nat /\ Cardinality(hints[t]) \in Nat
      BY <2>1, <2>2, FS_CardinalityType
    <2>4. Listed(hints[t])'
      BY <1>4, <1>7, <2>1 DEF Listed
    <2>5. Counted(t, hints[t])'
      <3> SUFFICES ASSUME NEW h \in hints'[t] PROVE Enough(failures'[t][h.key], h.attempts)
        BY DEF Counted
      <3>1. h \in hints[t] /\ h.key \in Keys /\ ~(t = pass.target /\ h.key = key)
        BY <1>5, <1>7 DEF Hint
      <3> QED BY <1>8, <2>1, <3>1 DEF Counted
    <2> QED BY <1>1, <2>1, <2>2, <2>3, <2>4, <2>5
  <1>10. TypeOK'
    BY <1>4, <1>6, <1>7, <1>8, <1>9 DEF IInv, TypeOK, PassType, StoreInv
  <1>11. PassInv'
    <2>1. Listed(pass.todo)'
      BY <1>3, <1>4, <1>6 DEF Listed
    <2>2. ASSUME NEW h \in left PROVE Enough(failures'[pass.target][h.key], h.attempts)
      <3>1. h.key \in Keys /\ h.attempts \in Nat
        BY <1>3 DEF Hint
      <3>2. CASE h.key = key
        BY <1>1, <1>2, <1>8, <3>1, <3>2 DEF Enough
      <3>3. CASE h.key # key
        BY <1>1, <1>3, <1>8, <3>1, <3>3 DEF Counted
      <3> QED BY <3>2, <3>3
    <2>3. Counted(pass.target, pass.todo)'
      BY <1>6, <2>2 DEF Counted
    <2> QED BY <1>6, <2>1, <2>3 DEF PassInv, Working
  <1>12. AckInv'
    BY <1>4, <1>6 DEF IInv, AckInv
  <1>13. FailInv'
    BY <1>6 DEF FailInv
  <1>14. NeverSentBackwards'
    <2> SUFFICES ASSUME NEW t \in Targets, NEW k \in Keys, NEW h \in Left(t, k)'
                 PROVE  h.id > acked[t][k]
      BY <1>4 DEF NeverSentBackwards
    <2>1. h.key = k /\ (h \in hints'[t] \/ (h \in left /\ pass.target = t))
      BY <1>6 DEF Left, OfKey
    <2>2. h \in Left(t, k)
      BY <1>2, <1>7, <2>1 DEF Left, OfKey
    <2>3. CASE ~(pass.pc = "remove" /\ pass.target = t /\ key = k)
      BY <2>2, <2>3 DEF IInv, NeverSentBackwards, key
    <2>4. CASE pass.pc = "remove" /\ pass.target = t /\ key = k
      <3>1. h \in left
        BY <1>5, <1>7, <2>1, <2>4
      <3>2. acked[t][k] = Current.id
        BY <2>4 DEF IInv, AckInv, key
      <3> QED BY <1>2, <1>3, <3>1, <3>2 DEF Hint
    <2> QED BY <2>3, <2>4
  <1> QED BY <1>9, <1>10, <1>11, <1>12, <1>13, <1>14 DEF IInv

\* One more attempt on the first hint of a key keeps a list a list.
LEMMA IncrementOK ==
    ASSUME IInv, NEW s \in SUBSET Hint, NEW k \in Keys, Listed(s), IsFiniteSet(s)
    PROVE  LET t == IncrementAttempts(s, k)
           IN  /\ t \in SUBSET Hint /\ Listed(t) /\ IsFiniteSet(t) /\ Cardinality(t) <= Cardinality(s)
               /\ \A h \in t : h \in s \/ \E g \in OfKey(s, k) :
                     h.key = k /\ h.id = g.id /\ h.attempts = g.attempts + 1
  <1>0. Cardinality(s) \in Nat /\ stored \in Nat
    BY FS_CardinalityType, TypeFacts
  <1>1. CASE OfKey(s, k) = {}
    BY <1>0, <1>1 DEF IncrementAttempts
  <1>2. CASE OfKey(s, k) # {}
    <2> DEFINE g == First(OfKey(s, k))
               new == [g EXCEPT !.attempts = @ + 1]
               rest == s \ {g}
    <2>1. OfKey(s, k) \in SUBSET Hint
      BY DEF OfKey
    <2>2. g \in OfKey(s, k) /\ \A h \in OfKey(s, k) : g.id <= h.id
      BY <1>2, <2>1, FirstIs
    <2>3. IncrementAttempts(s, k) = rest \cup {new}
      BY <1>2 DEF IncrementAttempts
    <2> HIDE DEF g
    <2>4. g \in s /\ g \in Hint /\ g.key = k
      BY <2>2 DEF OfKey
    <2>5. /\ new \in Hint /\ new.key = k /\ new.id = g.id /\ new.attempts = g.attempts + 1
          /\ g.id \in Nat
      BY <2>4 DEF Hint
    <2> HIDE DEF new
    <2>6. IsFiniteSet(rest) /\ Cardinality(rest) = Cardinality(s) - 1
      BY <2>4, FS_RemoveElement
    <2>7. /\ IsFiniteSet(rest \cup {new})
          /\ \/ Cardinality(rest \cup {new}) = Cardinality(rest)
             \/ Cardinality(rest \cup {new}) = Cardinality(rest) + 1
      BY <2>6, FS_AddElement
    <2>8. Cardinality(rest \cup {new}) <= Cardinality(s)
      BY <1>0, <2>6, <2>7
    <2>9. ASSUME NEW a \in rest PROVE a \in s /\ a.id # g.id /\ a.id \in Nat
      BY <2>4 DEF Listed, Hint
    <2>10. Listed(rest \cup {new})
      <3>1. rest \cup {new} \subseteq Hint /\ \A h \in rest \cup {new} : h.id <= stored
        BY <2>4, <2>5 DEF Listed
      <3>2. \A a, b \in rest \cup {new} : a.id = b.id => a = b
        BY <2>5, <2>9 DEF Listed
      <3>3. ASSUME NEW a \in rest \cup {new}, NEW b \in rest \cup {new}, a.key = b.key, a.id < b.id
            PROVE  b.attempts = 0
        <4>1. CASE b = new
          <5>1. a \in rest
            BY <2>5, <3>3, <4>1
          <5>2. a \in OfKey(s, k)
            BY <2>5, <3>3, <4>1, <5>1 DEF OfKey
          <5> QED BY <2>2, <2>5, <2>9, <3>3, <4>1, <5>1, <5>2
        <4>2. CASE b \in rest /\ a \in rest
          BY <3>3, <4>2 DEF Listed
        <4>3. CASE b \in rest /\ a = new
          BY <2>4, <2>5, <3>3, <4>3 DEF Listed
        <4> QED BY <4>1, <4>2, <4>3
      <3> QED BY <3>1, <3>2, <3>3 DEF Listed
    <2> QED BY <2>2, <2>3, <2>4, <2>5, <2>7, <2>8, <2>10 DEF Listed
  <1> QED BY <1>1, <1>2

\* IncrementAttempts: the failure allows for one attempt more.
LEMMA IncrementKeeps == ASSUME IInv, Increment PROVE IInv'
  <1>1. /\ pass' \in PassType /\ pass'.pc = "check" /\ pass'.target = pass.target
        /\ pass'.todo = pass.todo /\ Current' = Current
    BY PassAt DEF Increment, Working
  <1> DEFINE key == Current.key
             list == hints[pass.target]
             more == IncrementAttempts(list, key)
  <1>2. key \in Keys
    BY CurrentIs DEF Increment, Working
  <1>3. /\ pass.target \in Targets /\ MaxSize \in Nat
        /\ hints \in [Targets -> SUBSET Hint] /\ failures \in [Targets -> [Keys -> Nat]]
    BY TypeFacts
  <1>4. /\ hints' = [hints EXCEPT ![pass.target] = more] /\ pass.pc = "increment"
        /\ UNCHANGED <<stored, registered, running, acked, failures>>
    BY DEF Increment
  <1>5. /\ list \in SUBSET Hint /\ Listed(list) /\ IsFiniteSet(list)
        /\ Cardinality(list) <= MaxSize /\ Counted(pass.target, list)
    BY <1>3 DEF IInv, StoreInv
  <1>6. /\ more \in SUBSET Hint /\ Listed(more) /\ IsFiniteSet(more)
        /\ Cardinality(more) <= Cardinality(list)
        /\ \A h \in more : h \in list \/ \E g \in OfKey(list, key) :
              h.key = key /\ h.id = g.id /\ h.attempts = g.attempts + 1
    BY <1>2, <1>5, IncrementOK
  <1> HIDE DEF more
  <1>7. /\ hints' \in [Targets -> SUBSET Hint] /\ hints'[pass.target] = more
        /\ \A t \in Targets : t # pass.target => hints'[t] = hints[t]
    BY <1>3, <1>4, <1>6
  <1>8. StoreInv'
    <2> SUFFICES ASSUME NEW t \in Targets
                 PROVE  /\ IsFiniteSet(hints'[t]) /\ Cardinality(hints'[t]) <= MaxSize
                        /\ Listed(hints[t])' /\ Counted(t, hints[t])'
      BY DEF StoreInv
    <2>1. CASE t = pass.target
      <3>1. hints'[t] = more
        BY <1>7, <2>1
      <3>2. Cardinality(more) \in Nat /\ Cardinality(list) \in Nat
        BY <1>5, <1>6, FS_CardinalityType
      <3>3. Cardinality(more) <= MaxSize
        BY <1>3, <1>5, <1>6, <3>2
      <3>4. Listed(hints[t])'
        BY <1>4, <1>6, <3>1 DEF Listed
      <3>5. ASSUME NEW h \in more PROVE Enough(failures[t][h.key], h.attempts)
        <4>1. CASE h \in list
          BY <1>5, <2>1, <4>1 DEF Counted
        <4>2. CASE h \notin list
          <5>1. PICK g \in OfKey(list, key) : h.key = key /\ h.attempts = g.attempts + 1
            BY <1>6, <4>2
          <5>2. Enough(failures[pass.target][key], g.attempts + 1)
            BY <1>4, <5>1 DEF IInv, FailInv
          <5> QED BY <2>1, <5>1, <5>2
        <4> QED BY <4>1, <4>2
      <3>6. Counted(t, hints[t])'
        BY <1>4, <3>1, <3>5 DEF Counted
      <3> QED BY <1>6, <3>1, <3>3, <3>4, <3>6
    <2>2. CASE t # pass.target
      BY <1>4, <1>7, <2>2 DEF IInv, StoreInv, Listed, Counted
    <2> QED BY <2>1, <2>2
  <1>9. TypeOK'
    BY <1>1, <1>4, <1>7, <1>8 DEF IInv, TypeOK, PassType, StoreInv
  <1>10. PassInv'
    BY <1>1, <1>4 DEF IInv, PassInv, Listed, Counted, Working
  <1>11. AckInv'
    BY <1>1, <1>4 DEF IInv, AckInv
  <1>12. FailInv'
    BY <1>1, <1>4 DEF IInv, FailInv
  <1>13. NeverSentBackwards'
    <2> SUFFICES ASSUME NEW t \in Targets, NEW k \in Keys, NEW h \in Left(t, k)'
                 PROVE  h.id > acked[t][k]
      BY <1>4 DEF NeverSentBackwards
    <2>1. h.key = k /\ (h \in hints'[t] \/ (h \in pass.todo /\ pass.target = t))
      BY <1>1 DEF Left, OfKey
    <2>2. \E g \in Left(t, k) : g.id = h.id
      <3>1. CASE h \in Left(t, k)
        BY <3>1
      <3>2. CASE h \notin Left(t, k)
        <4>1. t = pass.target /\ h \in more /\ h \notin list
          BY <1>7, <2>1, <3>2 DEF Left, OfKey
        <4>2. PICK g \in OfKey(list, key) : h.key = key /\ h.id = g.id
          BY <1>6, <4>1
        <4>3. g \in Left(t, k)
          BY <2>1, <4>1, <4>2 DEF Left, OfKey
        <4> QED BY <4>2, <4>3
      <3> QED BY <3>1, <3>2
    <2>3. PICK g \in Left(t, k) : g.id = h.id
      BY <2>2
    <2>4. g.key = k /\ (g \in hints[t] \/ (g \in pass.todo /\ pass.target = t))
      BY DEF Left, OfKey
    <2> QED BY <1>4, <2>3, <2>4, LeftIsNewer
  <1> QED BY <1>8, <1>9, <1>10, <1>11, <1>12, <1>13 DEF IInv

-----------------------------------------------------------------------------
(***************************************************************************)
(* The theorems.                                                           *)
(***************************************************************************)

\* The invariant holds at the start.
LEMMA InitOK == Init => IInv
  <1> SUFFICES ASSUME Init PROVE IInv
    OBVIOUS
  <1>1. /\ Idle \in PassType /\ Idle.todo = {} /\ Idle.pc = "idle"
        /\ MaxSize \in Nat /\ MaxStores \in Nat
    BY HandoffConstants DEF Idle, PassType
  <1>2. hints = [t \in Targets |-> {}] /\ stored = 0 /\ registered = {} /\ running = TRUE
        /\ pass = Idle /\ acked = [t \in Targets |-> [k \in Keys |-> 0]]
        /\ failures = [t \in Targets |-> [k \in Keys |-> 0]]
    BY DEF Init
  <1>3. \A t \in Targets : hints[t] = {} /\ Cardinality(hints[t]) <= MaxSize /\ IsFiniteSet(hints[t])
    BY <1>1, <1>2, FS_EmptySet
  <1>4. StoreInv
    BY <1>3 DEF StoreInv, Listed, Counted
  <1>5. TypeOK
    BY <1>1, <1>2, <1>3 DEF TypeOK, PassType
  <1>6. PassInv /\ AckInv /\ FailInv
    BY <1>1, <1>2 DEF PassInv, AckInv, FailInv, Listed, Counted, Working
  <1>7. NeverSentBackwards
    BY <1>1, <1>2, <1>3 DEF NeverSentBackwards, Left, OfKey
  <1> QED BY <1>4, <1>5, <1>6, <1>7 DEF IInv

\* Every step keeps the invariant.
LEMMA Inductive == IInv /\ [Next]_vars => IInv'
  <1> SUFFICES ASSUME IInv, [Next]_vars PROVE IInv'
    OBVIOUS
  <1>0. registered \subseteq Targets /\ running \in BOOLEAN
    BY DEF IInv, TypeOK
  <1>1. ASSUME NEW t \in Targets, Membership(t) PROVE IInv'
    BY <1>0, <1>1, EnvironmentMoves DEF Membership
  <1>2. ASSUME NEW t \in Targets, NEW k \in Keys, Store(t, k) PROVE IInv'
    BY <1>2, StoreKeeps
  <1>3. ASSUME NEW id \in 1..MaxStores, Cleanup(id) PROVE IInv'
    BY <1>3, CleanupKeeps
  <1>4. CASE StartPass
    BY <1>4, StartPassKeeps
  <1>5. ASSUME NEW t \in Targets, CheckAlive(t) PROVE IInv'
    BY <1>5, CheckAliveKeeps
  <1>6. CASE GetHints
    BY <1>6, GetHintsKeeps
  <1>7. CASE SendSucceeds
    BY <1>7, SendSucceedsKeeps
  <1>8. CASE SendFails
    BY <1>8, SendFailsKeeps
  <1>9. CASE RemoveDelivered
    BY <1>9, RemoveKeeps DEF RemoveDelivered
  <1>10. CASE Increment
    BY <1>10, IncrementKeeps
  <1>11. CASE GiveUp
    BY <1>11, RemoveKeeps DEF GiveUp
  <1>12. CASE KeepTrying
    BY <1>12, KeepTryingKeeps
  <1>13. CASE Stop
    BY <1>0, <1>13, EnvironmentMoves DEF Stop
  <1>14. CASE LoopEnds
    BY <1>14, LoopEndsKeeps
  <1>15. CASE UNCHANGED vars
    BY <1>0, <1>15, EnvironmentMoves DEF vars
  <1> QED BY <1>1, <1>2, <1>3, <1>4, <1>5, <1>6, <1>7, <1>8, <1>9, <1>10, <1>11, <1>12, <1>13,
             <1>14, <1>15, Zenon DEF Next, Deliver

\* The invariant holds in every reachable state.
LEMMA Invariance == Spec => []IInv
  BY InitOK, Inductive, PTL DEF Spec

\* The hint store and the delivery loop keep their types, and no list grows past
\* the limit of Store.
THEOREM TypeCorrect == Spec => []TypeOK
  <1>1. IInv => TypeOK
    BY DEF IInv
  <1> QED BY <1>1, Invariance, PTL

\* Nothing as old as what a target acknowledged for a key is left to be sent to
\* it, once RemoveHint has run: a delivery is never undone by an older hint.
THEOREM NeverBackwards == Spec => []NeverSentBackwards
  <1>1. IInv => NeverSentBackwards
    BY DEF IInv
  <1> QED BY <1>1, Invariance, PTL

\* The loop gives a key up only after more than MaxAttempts + 1 failed
\* deliveries, whatever Store, cleanup and the limit do to the list in between.
THEOREM NotGivenUpEarly == Spec => NeverGivenUpEarly
  <1>1. IInv /\ [Next]_vars =>
            [GiveUp => failures[pass.target][Current.key] > MaxAttempts + 1]_vars
    <2> SUFFICES ASSUME IInv, GiveUp
                 PROVE  failures[pass.target][Current.key] > MaxAttempts + 1
      OBVIOUS
    <2> DEFINE f == failures[pass.target][Current.key]
    <2>1. pass.pc = "check" /\ Current.attempts > MaxAttempts
      BY DEF GiveUp
    <2>2. Current.key \in Keys /\ Current.attempts \in Nat
      BY <2>1, CurrentIs DEF Working
    <2>3. MaxAttempts \in Nat /\ f \in Nat
      BY <2>2, TypeFacts
    <2>4. Enough(f, Current.attempts + 1)
      BY <2>1 DEF IInv, FailInv
    <2> HIDE DEF f
    <2>5. f > MaxAttempts + 1
      BY <2>1, <2>2, <2>3, <2>4 DEF Enough
    <2> QED BY <2>5 DEF f
  <1> QED BY <1>1, Invariance, PTL DEF Spec, NeverGivenUpEarly

=============================================================================
