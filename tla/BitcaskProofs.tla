--------------------------- MODULE BitcaskProofs ----------------------------
(***************************************************************************)
(* Proofs about the storage engine, for every set of keys and values, any  *)
(* length of the log, both settings of SyncWrites and disks that fail or   *)
(* not, with one Get at a time.  (With two Gets at a time the shared       *)
(* writer and file position break what is shown here: run                  *)
(* BitcaskReadRace.)  With SyncWrites and a disk that works the writer is  *)
(* always empty, and all but the answers of Get holds for any number.      *)
(***************************************************************************)
EXTENDS Bitcask, SequenceTheorems, FiniteSetTheorems, WellFoundedInduction, TLAPS

\* One Get at a time.
SingleReader == \A r, s \in Readers : r = s

\* Every write is in the file, and on stable storage, when it returns.
WrittenAtOnce == syncWrite /\ ~diskFaults

\* No flush of one Get can meet a flush of another.
Calm == SingleReader \/ WrittenAtOnce

-----------------------------------------------------------------------------
(***************************************************************************)
(* The map of a log.                                                       *)
(***************************************************************************)

\* The record at i is the last one for k.
LastOf(log, k, i) ==
    /\ i \in 1..Len(log) /\ log[i].key = k
    /\ \A j \in 1..Len(log) : log[j].key = k => j <= i

\* A set of natural numbers has a least one.
LEMMA Smallest ==
    ASSUME NEW S \in SUBSET Nat, S # {}
    PROVE  \E m \in S : \A k \in S : m <= k
  <1>1. PICK m \in S : \A y \in S : ~ (<<y, m>> \in OpToRel(<, Nat))
    BY NatLessThanWellFounded, WFMin
  <1>2. ASSUME NEW y \in S PROVE m <= y
    <2>1. <<y, m>> \notin OpToRel(<, Nat)
      BY <1>1
    <2>2. ~(y < m)
      BY <2>1 DEF OpToRel
    <2> QED BY <2>2
  <1> QED BY <1>2

\* A non-empty set of positions has a last one.
LEMMA LastPosition ==
    ASSUME NEW n \in Nat, NEW S \in SUBSET (1..n), S # {}
    PROVE  \E i \in S : \A j \in S : j <= i
  <1> DEFINE T == {n - i : i \in S}
  <1>1. T \in SUBSET Nat /\ T # {}
    <2>1. \A i \in S : n - i \in Nat
      OBVIOUS
    <2> QED BY <2>1
  <1> HIDE DEF T
  <1>2. PICK m \in T : \A k \in T : m <= k
    BY <1>1, Smallest
  <1>3. PICK i \in S : m = n - i
    BY DEF T
  <1>4. ASSUME NEW j \in S PROVE j <= i
    <2>1. n - j \in T
      BY DEF T
    <2>2. m <= n - j
      BY <1>2, <2>1
    <2> QED BY <1>3, <2>2
  <1> QED BY <1>4

\* A key has a last record or none.
LEMMA LastExists ==
    ASSUME NEW log \in Seq(Record), NEW k \in Keys
    PROVE  (\A i \in 1..Len(log) : log[i].key # k) \/ \E i \in 1..Len(log) : LastOf(log, k, i)
  <1> DEFINE at == {i \in 1..Len(log) : log[i].key = k}
  <1>1. CASE at = {}
    BY <1>1
  <1>2. CASE at # {}
    <2>1. PICK i \in at : \A j \in at : j <= i
      BY <1>2, LastPosition, LenProperties
    <2> QED BY <2>1 DEF LastOf
  <1> QED BY <1>1, <1>2

\* The last record of a key decides.
LEMMA MapOfLast ==
    ASSUME NEW log \in Seq(Record), NEW k \in Keys, NEW i \in 1..Len(log), LastOf(log, k, i)
    PROVE  MapOf(log)[k] = log[i].val
  <1> DEFINE at == {j \in 1..Len(log) : log[j].key = k}
             c == CHOOSE j \in at : \A l \in at : l <= j
  <1>1. i \in at /\ \A j \in at : j <= i
    BY DEF LastOf
  <1>2. c \in at /\ \A j \in at : j <= c
    BY <1>1
  <1>3. Len(log) \in Nat
    BY LenProperties
  <1>4. c = i
    <2> HIDE DEF c
    <2>1. c \in Nat /\ i \in Nat /\ c <= i /\ i <= c
      BY <1>1, <1>2, <1>3
    <2> QED BY <2>1
  <1>5. MapOf(log)[k] = IF at = {} THEN None ELSE log[c].val
    BY DEF MapOf
  <1> QED BY <1>1, <1>4, <1>5

\* A key without a record is not in the map.
LEMMA MapOfNone ==
    ASSUME NEW log \in Seq(Record), NEW k \in Keys, \A i \in 1..Len(log) : log[i].key # k
    PROVE  MapOf(log)[k] = None
  BY DEF MapOf

\* The map of a log is a function on the keys.
LEMMA MapOfType ==
    ASSUME NEW log \in Seq(Record)
    PROVE  /\ MapOf(log) \in [Keys -> Values \cup {None}]
           /\ MapOf(log) = [k \in Keys |-> MapOf(log)[k]]
  <1>1. ASSUME NEW k \in Keys PROVE MapOf(log)[k] \in Values \cup {None}
    <2>1. CASE \A i \in 1..Len(log) : log[i].key # k
      BY <2>1, MapOfNone
    <2>2. CASE \E i \in 1..Len(log) : LastOf(log, k, i)
      <3>1. PICK i \in 1..Len(log) : LastOf(log, k, i)
        BY <2>2
      <3>2. log[i] \in Record
        BY ElementOfSeq
      <3>3. log[i].val \in Values \cup {None}
        BY <3>2 DEF Record, PutRecord, Tombstone, Garbage
      <3> QED BY <3>1, <3>3, MapOfLast
    <2> QED BY <2>1, <2>2, LastExists
  <1>2. MapOf(log) = [k \in Keys |-> MapOf(log)[k]]
    BY DEF MapOf
  <1> QED BY <1>1, <1>2

\* Two maps of logs that agree on every key are equal.
LEMMA SameMap ==
    ASSUME NEW s \in Seq(Record), NEW t \in Seq(Record), \A k \in Keys : MapOf(s)[k] = MapOf(t)[k]
    PROVE  MapOf(s) = MapOf(t)
  BY MapOfType

\* A record of a key, as opposed to bytes that are no record.
LEMMA RecordFields ==
    /\ Garbage \in Record /\ Garbage.key = None /\ Garbage.key \notin Keys
    /\ \A k \in Keys, v \in Values :
          /\ PutRecord(k, v) \in Record /\ PutRecord(k, v).key = k /\ PutRecord(k, v).val = v
          /\ PutRecord(k, v).del = FALSE /\ PutRecord(k, v) # Garbage
    /\ \A k \in Keys :
          /\ Tombstone(k) \in Record /\ Tombstone(k).key = k /\ Tombstone(k).val = None
          /\ Tombstone(k).del = TRUE /\ Tombstone(k) # Garbage
    /\ \A rec \in Record : rec # Garbage =>
          rec.key \in Keys /\ \/ rec.del = TRUE /\ rec.val = None
                              \/ rec.del = FALSE /\ rec.val \in Values
                                 /\ rec = PutRecord(rec.key, rec.val)
  <1>0. None \notin Keys
    BY BitcaskConstants
  <1>1. Garbage \in Record /\ Garbage.key = None /\ Garbage.key \notin Keys
    BY <1>0 DEF Record, Garbage
  <1>2. ASSUME NEW k \in Keys, NEW v \in Values
        PROVE  /\ PutRecord(k, v) \in Record /\ PutRecord(k, v).key = k /\ PutRecord(k, v).val = v
               /\ PutRecord(k, v).del = FALSE /\ PutRecord(k, v) # Garbage
    <2>1. PutRecord(k, v).key = k /\ PutRecord(k, v).val = v /\ PutRecord(k, v).del = FALSE
      BY DEF PutRecord
    <2>2. PutRecord(k, v) \in Record
      BY DEF Record
    <2> QED BY <1>1, <2>1, <2>2
  <1>3. ASSUME NEW k \in Keys
        PROVE  /\ Tombstone(k) \in Record /\ Tombstone(k).key = k /\ Tombstone(k).val = None
               /\ Tombstone(k).del = TRUE /\ Tombstone(k) # Garbage
    <2>1. Tombstone(k).key = k /\ Tombstone(k).val = None /\ Tombstone(k).del = TRUE
      BY DEF Tombstone
    <2>2. Tombstone(k) \in Record
      BY DEF Record
    <2> QED BY <1>1, <2>1, <2>2
  <1>4. ASSUME NEW rec \in Record, rec # Garbage
        PROVE  /\ rec.key \in Keys
               /\ \/ rec.del = TRUE /\ rec.val = None
                  \/ rec.del = FALSE /\ rec.val \in Values /\ rec = PutRecord(rec.key, rec.val)
    <2>1. ASSUME NEW k \in Keys, NEW v \in Values, rec = PutRecord(k, v)
          PROVE  rec.key \in Keys /\ rec.del = FALSE /\ rec.val \in Values
                 /\ rec = PutRecord(rec.key, rec.val)
      BY <1>2, <2>1, Zenon
    <2>2. ASSUME NEW k \in Keys, rec = Tombstone(k)
          PROVE  rec.key \in Keys /\ rec.del = TRUE /\ rec.val = None
      BY <1>3, <2>2, Zenon
    <2>3. (\E k \in Keys, v \in Values : rec = PutRecord(k, v)) \/ \E k \in Keys : rec = Tombstone(k)
      BY <1>4 DEF Record
    <2> QED BY <2>1, <2>2, <2>3, Zenon
  <1> QED BY <1>1, <1>2, <1>3, <1>4

\* The empty log stands for the empty map.
LEMMA MapOfEmpty == MapOf(<<>>) = [k \in Keys |-> None]
  <1> DEFINE e == <<>>
  <1>1. e \in Seq(Record) /\ Len(e) = 0
    OBVIOUS
  <1> HIDE DEF e
  <1>2. ASSUME NEW k \in Keys PROVE MapOf(e)[k] = None
    <2>1. \A i \in 1..Len(e) : e[i].key # k
      BY <1>1
    <2> QED BY <1>1, <2>1, MapOfNone
  <1>3. MapOf(e) = [k \in Keys |-> None]
    BY <1>1, <1>2, MapOfType
  <1> QED BY <1>3 DEF e

\* A record more writes its key.
LEMMA MapOfAppend ==
    ASSUME NEW log \in Seq(Record), NEW rec \in Record, rec # Garbage
    PROVE  MapOf(Append(log, rec)) = [MapOf(log) EXCEPT ![rec.key] = rec.val]
  <1> DEFINE new == Append(log, rec)
             n == Len(log)
  <1>1. /\ new \in Seq(Record) /\ Len(new) = n + 1 /\ n \in Nat /\ new[n + 1] = rec
        /\ \A i \in 1..n : new[i] = log[i]
    BY AppendProperties, LenProperties
  <1>2. rec.key \in Keys
    BY RecordFields
  <1> HIDE DEF new, n
  <1>3. ASSUME NEW k \in Keys
        PROVE  MapOf(new)[k] = IF k = rec.key THEN rec.val ELSE MapOf(log)[k]
    <2>1. CASE k = rec.key
      <3>1. LastOf(new, k, n + 1) /\ n + 1 \in 1..Len(new)
        BY <1>1, <2>1 DEF LastOf
      <3> QED BY <1>1, <2>1, <3>1, MapOfLast
    <2>2. CASE k # rec.key /\ \A i \in 1..Len(log) : log[i].key # k
      <3>1. \A i \in 1..Len(new) : new[i].key # k
        BY <1>1, <2>2 DEF n
      <3> QED BY <1>1, <2>2, <3>1, MapOfNone
    <2>3. CASE k # rec.key /\ \E i \in 1..Len(log) : LastOf(log, k, i)
      <3>1. PICK i \in 1..n : LastOf(log, k, i)
        BY <2>3 DEF n
      <3>2. i \in 1..Len(new) /\ new[i] = log[i] /\ LastOf(new, k, i)
        BY <1>1, <2>3, <3>1 DEF LastOf, n
      <3>3. MapOf(new)[k] = new[i].val
        BY <1>1, <3>2, MapOfLast
      <3>4. MapOf(log)[k] = log[i].val
        BY <3>1, MapOfLast DEF n
      <3> QED BY <2>3, <3>2, <3>3, <3>4
    <2> QED BY <2>1, <2>2, <2>3, LastExists
  <1>4. MapOf(new) = [k \in Keys |-> MapOf(new)[k]]
    BY <1>1, MapOfType
  <1>5. MapOf(log) = [k \in Keys |-> MapOf(log)[k]]
    BY MapOfType
  <1>6. MapOf(new) = [MapOf(log) EXCEPT ![rec.key] = rec.val]
    BY <1>2, <1>3, <1>4, <1>5
  <1> QED BY <1>6 DEF new

\* Bytes that are no record change no map, wherever they are.
LEMMA MapOfGarbage ==
    ASSUME NEW a \in Seq(Record), NEW b \in Seq(Record)
    PROVE  MapOf((a \o <<Garbage>>) \o b) = MapOf(a \o b)
  <1> DEFINE s == a \o b
             g == a \o <<Garbage>>
             t == g \o b
             n == Len(a)
  <1>0. Garbage \in Record /\ Garbage.key \notin Keys
    BY RecordFields
  <1>1. /\ n \in Nat /\ Len(b) \in Nat /\ s \in Seq(Record) /\ Len(s) = n + Len(b)
        /\ \A i \in 1..(n + Len(b)) : s[i] = IF i <= n THEN a[i] ELSE b[i - n]
    BY ConcatProperties, LenProperties
  <1>2. <<Garbage>> \in Seq(Record) /\ Len(<<Garbage>>) = 1 /\ <<Garbage>>[1] = Garbage
    BY <1>0
  <1>3. /\ g \in Seq(Record) /\ Len(g) = n + 1
        /\ \A i \in 1..(n + 1) : g[i] = IF i <= n THEN a[i] ELSE Garbage
    <2>1. /\ g \in Seq(Record) /\ Len(g) = n + 1
          /\ \A i \in 1..(n + 1) : g[i] = IF i <= n THEN a[i] ELSE <<Garbage>>[i - n]
      BY <1>2, ConcatProperties
    <2>2. ASSUME NEW i \in 1..(n + 1) PROVE g[i] = IF i <= n THEN a[i] ELSE Garbage
      <3>1. CASE i <= n
        BY <2>1, <3>1
      <3>2. CASE ~(i <= n)
        <4>1. i - n = 1
          BY <1>1, <3>2
        <4> QED BY <1>2, <2>1, <3>2, <4>1
      <3> QED BY <3>1, <3>2
    <2> QED BY <2>1, <2>2
  <1>4. /\ t \in Seq(Record) /\ Len(t) = n + 1 + Len(b)
        /\ \A i \in 1..(n + 1 + Len(b)) :
              t[i] = IF i <= n THEN a[i] ELSE IF i = n + 1 THEN Garbage ELSE b[i - n - 1]
    <2>1. /\ t \in Seq(Record) /\ Len(t) = Len(g) + Len(b)
          /\ \A i \in 1..(Len(g) + Len(b)) : t[i] = IF i <= Len(g) THEN g[i] ELSE b[i - Len(g)]
      BY <1>3, ConcatProperties
    <2> HIDE DEF t, g
    <2>2. ASSUME NEW i \in 1..(n + 1 + Len(b))
          PROVE  t[i] = IF i <= n THEN a[i] ELSE IF i = n + 1 THEN Garbage ELSE b[i - n - 1]
      <3>1. CASE i <= n + 1
        BY <1>1, <1>3, <2>1, <3>1
      <3>2. CASE i > n + 1
        <4>1. i - Len(g) = i - n - 1
          BY <1>1, <1>3
        <4> QED BY <1>1, <1>3, <2>1, <3>2, <4>1
      <3> QED BY <1>1, <3>1, <3>2
    <2> QED BY <1>3, <2>1, <2>2
  <1> HIDE DEF s, t, g, n
  <1>5. ASSUME NEW i \in 1..Len(s)
        PROVE  LET j == IF i <= n THEN i ELSE i + 1 IN j \in 1..Len(t) /\ t[j] = s[i]
    <2>1. CASE i <= n
      BY <1>1, <1>4, <2>1
    <2>2. CASE i > n
      <3>1. (i + 1) - n - 1 = i - n
        BY <1>1
      <3>2. i + 1 \in 1..(n + 1 + Len(b)) /\ ~(i + 1 <= n) /\ i + 1 # n + 1
        BY <1>1, <2>2
      <3>3. t[i + 1] = b[i - n]
        BY <1>4, <3>1, <3>2
      <3> QED BY <1>1, <1>4, <2>2, <3>2, <3>3
    <2> QED BY <1>1, <2>1, <2>2
  <1>6. ASSUME NEW j \in 1..Len(t), t[j].key \in Keys
        PROVE  LET i == IF j <= n THEN j ELSE j - 1
               IN  i \in 1..Len(s) /\ s[i] = t[j] /\ j # n + 1
    <2>1. CASE j <= n
      BY <1>1, <1>4, <2>1
    <2>2. CASE j = n + 1
      <3>1. t[j] = Garbage
        BY <1>1, <1>4, <2>2
      <3> QED BY <1>0, <1>6, <3>1
    <2>3. CASE j > n + 1
      <3>1. t[j] = b[j - n - 1]
        BY <1>1, <1>4, <2>3
      <3>2. (j - 1) - n = j - n - 1 /\ j - 1 \in 1..(n + Len(b)) /\ ~(j - 1 <= n)
        BY <1>1, <1>4, <2>3
      <3>3. s[j - 1] = b[j - n - 1]
        BY <1>1, <3>2
      <3> QED BY <1>1, <2>3, <3>1, <3>2, <3>3
    <2> QED BY <1>1, <1>4, <2>1, <2>2, <2>3
  <1>7. ASSUME NEW k \in Keys PROVE MapOf(t)[k] = MapOf(s)[k]
    <2>1. CASE \A i \in 1..Len(s) : s[i].key # k
      <3>1. \A j \in 1..Len(t) : t[j].key # k
        BY <1>6, <2>1
      <3> QED BY <1>1, <1>4, <2>1, <3>1, MapOfNone
    <2>2. CASE \E i \in 1..Len(s) : LastOf(s, k, i)
      <3>1. PICK i \in 1..Len(s) : LastOf(s, k, i)
        BY <2>2
      <3> DEFINE l == IF i <= n THEN i ELSE i + 1
      <3>2. l \in 1..Len(t) /\ t[l] = s[i] /\ t[l].key = k
        BY <1>5, <3>1 DEF LastOf
      <3>3. ASSUME NEW j \in 1..Len(t), t[j].key = k PROVE j <= l
        <4> DEFINE h == IF j <= n THEN j ELSE j - 1
        <4>1. h \in 1..Len(s) /\ s[h].key = k /\ j # n + 1
          BY <1>6, <3>3
        <4>2. h <= i
          BY <3>1, <4>1 DEF LastOf
        <4> QED BY <1>1, <1>4, <4>1, <4>2
      <3>4. LastOf(t, k, l)
        BY <3>2, <3>3 DEF LastOf
      <3> HIDE DEF l
      <3>5. MapOf(t)[k] = t[l].val
        BY <1>4, <3>2, <3>4, MapOfLast
      <3>6. MapOf(s)[k] = s[i].val
        BY <1>1, <3>1, MapOfLast
      <3> QED BY <3>2, <3>5, <3>6
    <2> QED BY <1>1, <2>1, <2>2, LastExists
  <1>8. MapOf(t) = MapOf(s)
    BY <1>1, <1>4, <1>7, SameMap
  <1> QED BY <1>8 DEF s, t, g

-----------------------------------------------------------------------------
(***************************************************************************)
(* The inductive invariant.                                                *)
(***************************************************************************)

\* The index idx finds the map m in the log.
PointsHome(idx, log, m) ==
    \A k \in Keys :
        IF idx.entries[k].st = "live"
        THEN /\ idx.entries[k].off < Len(log)
             /\ log[idx.entries[k].off + 1] = PutRecord(k, m[k])
        ELSE m[k] = None

\* What a process that has just ended, or not finished to start, leaves.
LifeInv ==
    /\ synced <= Len(file)
    /\ mode \in {"down", "rebuild", "failed"} => buf = <<>> /\ ~split /\ ~werr
    /\ mode \in {"down", "failed"} => index = NewIndex /\ scan = 0
    /\ mode = "rebuild" => fd /\ position = Len(file)
    /\ mode = "open" /\ (~fd \/ werr) => diskFaults

\* Keys that are not in the index are not stored, even when the file is closed:
\* Compact opens a new one when there is nothing to copy.
HomeInv ==
    mode = "open" /\ ~werr =>
        /\ \A k \in Keys : index.entries[k].st # "live" => mem[k] = None
        /\ fd => PointsHome(index, Log, mem) /\ position = Len(Log)

ReaderOK(r) ==
    LET me == rd[r] IN
    /\ me.pc # "idle" => mode = "open" /\ me.key \in Keys
    /\ me.pc \in {"flush", "write", "reset", "seek", "read"} =>
          index.entries[me.key].st = "live" /\ me.off = index.entries[me.key].off
    /\ me.pc \in {"write", "reset", "seek", "read"} => ~werr
    /\ me.pc = "reset" => fd /\ ~split
    /\ me.pc \in {"seek", "read"} => buf = <<>>
    /\ me.pc = "read" => fd /\ cursor = me.off
    /\ me.pc = "done" => me.ret = mem[me.key] \/ (diskFaults /\ me.ret = Err)

\* Readers in each other's way find the buffer empty, so none of them writes.
ReaderInv ==
    \A r \in Readers :
        IF SingleReader
        THEN ReaderOK(r)
        ELSE rd[r].pc \notin {"write", "reset"} /\ (rd[r].pc # "idle" => mode = "open")

\* Half way through, the index stands for the records replayed so far.
RebuildInv ==
    mode = "rebuild" =>
        /\ scan <= Len(file)
        /\ PointsHome(index, SubSeq(file, 1, scan), MapOf(SubSeq(file, 1, scan)))

\* With SyncWrites and a disk that works, the file always is the map.
SyncInv ==
    syncWrite /\ ~diskFaults =>
        buf = <<>> /\ ~split /\ ~werr /\ synced = Len(file) /\ mem = MapOf(file)

IInv ==
    TypeOK /\ LifeInv /\ HomeInv /\ ReaderInv /\ RebuildInv /\ SyncInv /\ DeletedCountExact

-----------------------------------------------------------------------------
(***************************************************************************)
(* The index.                                                              *)
(***************************************************************************)

CountExact(idx) == idx.deleted = Cardinality(DeadKeys(idx))

\* Keys and their tombstones are finitely many.
LEMMA DeadFinite ==
    ASSUME NEW idx \in IndexType
    PROVE  IsFiniteSet(DeadKeys(idx)) /\ Cardinality(DeadKeys(idx)) \in Nat
  <1>1. DeadKeys(idx) \subseteq Keys
    BY DEF DeadKeys
  <1> QED BY <1>1, KeysFinite, FS_Subset, FS_CardinalityType

\* An empty index.
LEMMA NewIndexOK ==
    /\ NewIndex \in IndexType /\ CountExact(NewIndex)
    /\ \A k \in Keys : NewIndex.entries[k].st = "none"
    /\ PointsHome(NewIndex, <<>>, [k \in Keys |-> None])
  <1>1. NewIndex \in IndexType /\ \A k \in Keys : NewIndex.entries[k].st = "none"
    BY DEF NewIndex, NoEntry, IndexType, IndexEntry
  <1>2. DeadKeys(NewIndex) = {}
    BY <1>1 DEF DeadKeys
  <1>3. CountExact(NewIndex)
    BY <1>2, FS_EmptySet DEF CountExact, NewIndex
  <1> QED BY <1>1, <1>3 DEF PointsHome

\* Index.Put makes the key live at its offset and touches no other.
LEMMA IndexPutDoes ==
    ASSUME NEW idx \in IndexType, NEW k \in Keys, NEW off \in Nat
    PROVE  LET new == IndexPut(idx, k, off) IN
           /\ new \in IndexType
           /\ new.entries[k] = [st |-> "live", off |-> off]
           /\ \A j \in Keys \ {k} : new.entries[j] = idx.entries[j]
           /\ CountExact(idx) => CountExact(new)
  <1> DEFINE new == IndexPut(idx, k, off)
             dead == DeadKeys(idx)
  <1>1. /\ new \in IndexType
        /\ new.entries[k] = [st |-> "live", off |-> off]
        /\ \A j \in Keys \ {k} : new.entries[j] = idx.entries[j]
        /\ new.deleted = idx.deleted - (IF k \in dead THEN 1 ELSE 0)
    BY DEF IndexPut, IndexType, IndexEntry, DeadKeys
  <1> HIDE DEF new
  <1>2. DeadKeys(new) = dead \ {k}
    BY <1>1 DEF DeadKeys
  <1>3. IsFiniteSet(dead) /\ Cardinality(dead) \in Nat
    BY DeadFinite
  <1>4. Cardinality(dead \ {k}) = IF k \in dead THEN Cardinality(dead) - 1 ELSE Cardinality(dead)
    BY <1>3, FS_RemoveElement
  <1>5. CountExact(idx) => CountExact(new)
    BY <1>1, <1>2, <1>3, <1>4 DEF CountExact
  <1> QED BY <1>1, <1>5 DEF new

\* Index.Delete leaves the key with a tombstone and touches no other.
LEMMA IndexDeleteDoes ==
    ASSUME NEW idx \in IndexType, NEW k \in Keys
    PROVE  LET new == IndexDelete(idx, k) IN
           /\ new \in IndexType
           /\ new.entries[k].st = "dead"
           /\ \A j \in Keys \ {k} : new.entries[j] = idx.entries[j]
           /\ CountExact(idx) => CountExact(new)
  <1> DEFINE new == IndexDelete(idx, k)
             dead == DeadKeys(idx)
             st == idx.entries[k].st
  <1>0. st \in {"none", "live", "dead"}
    BY DEF IndexType, IndexEntry
  <1>1. /\ new \in IndexType /\ new.entries[k].st = "dead"
        /\ \A j \in Keys \ {k} : new.entries[j] = idx.entries[j]
        /\ new.deleted = idx.deleted + (IF k \in dead THEN 0 ELSE 1)
    <2>1. CASE st = "none"
      <3>1. new = [idx EXCEPT !.entries[k] = [st |-> "dead", off |-> 0], !.deleted = @ + 1]
        BY <2>1, Zenon DEF IndexDelete
      <3>2. /\ new.entries = [idx.entries EXCEPT ![k] = [st |-> "dead", off |-> 0]]
            /\ new.active = idx.active /\ new.deleted = idx.deleted + 1
            /\ new = [entries |-> new.entries, active |-> new.active, deleted |-> new.deleted]
        BY <3>1 DEF IndexType
      <3> HIDE DEF new
      <3>3. /\ new.entries \in [Keys -> IndexEntry] /\ new.entries[k].st = "dead"
            /\ \A j \in Keys \ {k} : new.entries[j] = idx.entries[j]
        BY <3>2 DEF IndexType, IndexEntry
      <3>4. idx.active \in Int /\ idx.deleted \in Int /\ k \notin dead
        BY <2>1 DEF IndexType, DeadKeys
      <3> QED BY <3>2, <3>3, <3>4 DEF IndexType
    <2>2. CASE st = "live"
      <3>1. st # "none"
        BY <2>2
      <3>2. new = [idx EXCEPT !.entries[k].st = "dead", !.active = @ - 1, !.deleted = @ + 1]
        BY <2>2, <3>1 DEF IndexDelete
      <3>3. /\ new.entries = [idx.entries EXCEPT ![k].st = "dead"]
            /\ new.active = idx.active - 1 /\ new.deleted = idx.deleted + 1
            /\ new = [entries |-> new.entries, active |-> new.active, deleted |-> new.deleted]
        BY <3>2 DEF IndexType
      <3> HIDE DEF new
      <3>4. /\ new.entries \in [Keys -> IndexEntry] /\ new.entries[k].st = "dead"
            /\ \A j \in Keys \ {k} : new.entries[j] = idx.entries[j]
        BY <3>3 DEF IndexType, IndexEntry
      <3>5. idx.active \in Int /\ idx.deleted \in Int /\ k \notin dead
        BY <2>2 DEF IndexType, DeadKeys
      <3> QED BY <3>3, <3>4, <3>5 DEF IndexType
    <2>3. CASE st = "dead"
      <3>1. st # "none" /\ st # "live"
        BY <2>3
      <3>2. new = idx
        BY <3>1 DEF IndexDelete
      <3> HIDE DEF new
      <3> QED BY <2>3, <3>2 DEF IndexType, IndexEntry, DeadKeys
    <2> QED BY <1>0, <2>1, <2>2, <2>3
  <1> HIDE DEF new
  <1>2. DeadKeys(new) = dead \cup {k}
    BY <1>1 DEF DeadKeys
  <1>3. IsFiniteSet(dead) /\ Cardinality(dead) \in Nat
    BY DeadFinite
  <1>4. Cardinality(dead \cup {k}) = IF k \in dead THEN Cardinality(dead) ELSE Cardinality(dead) + 1
    BY <1>3, FS_AddElement
  <1>5. CountExact(idx) => CountExact(new)
    BY <1>1, <1>2, <1>3, <1>4 DEF CountExact
  <1> QED BY <1>1, <1>5 DEF new

\* Records that are not in the index do no harm.
LEMMA HomeExtends ==
    ASSUME NEW idx \in IndexType, NEW log \in Seq(Record), NEW m, PointsHome(idx, log, m),
           NEW rec \in Record
    PROVE  PointsHome(idx, Append(log, rec), m)
  <1> DEFINE new == Append(log, rec)
  <1>1. Len(log) \in Nat /\ Len(new) = Len(log) + 1 /\ \A i \in 1..Len(log) : new[i] = log[i]
    BY AppendProperties, LenProperties
  <1> HIDE DEF new
  <1>2. ASSUME NEW k \in Keys, idx.entries[k].st = "live"
        PROVE  idx.entries[k].off < Len(new) /\ new[idx.entries[k].off + 1] = PutRecord(k, m[k])
    <2>1. idx.entries[k].off \in Nat
      BY DEF IndexType, IndexEntry
    <2>2. idx.entries[k].off < Len(log) /\ log[idx.entries[k].off + 1] = PutRecord(k, m[k])
      BY <1>2 DEF PointsHome
    <2> QED BY <1>1, <2>1, <2>2
  <1>3. PointsHome(idx, new, m)
    BY <1>2 DEF PointsHome
  <1> QED BY <1>3 DEF new

\* A record written at the end and indexed there.
LEMMA HomePut ==
    ASSUME NEW idx \in IndexType, NEW log \in Seq(Record), NEW m \in [Keys -> Values \cup {None}],
           PointsHome(idx, log, m), NEW k \in Keys, NEW v \in Values
    PROVE  PointsHome(IndexPut(idx, k, Len(log)), Append(log, PutRecord(k, v)), [m EXCEPT ![k] = v])
  <1> DEFINE rec == PutRecord(k, v)
             new == Append(log, rec)
             n == [m EXCEPT ![k] = v]
             ix == IndexPut(idx, k, Len(log))
  <1>1. rec \in Record
    BY RecordFields
  <1> HIDE DEF rec
  <1>2. Len(log) \in Nat /\ Len(new) = Len(log) + 1 /\ new[Len(log) + 1] = rec
    BY <1>1, AppendProperties, LenProperties
  <1>3. PointsHome(idx, new, m)
    BY <1>1, HomeExtends
  <1>4. /\ ix.entries[k] = [st |-> "live", off |-> Len(log)]
        /\ \A j \in Keys \ {k} : ix.entries[j] = idx.entries[j]
    BY <1>2, IndexPutDoes
  <1>5. n[k] = v /\ \A j \in Keys \ {k} : n[j] = m[j]
    OBVIOUS
  <1> HIDE DEF new, n, ix
  <1>6. PointsHome(ix, new, n)
    <2> SUFFICES ASSUME NEW j \in Keys
                 PROVE  IF ix.entries[j].st = "live"
                        THEN ix.entries[j].off < Len(new) /\ new[ix.entries[j].off + 1] = PutRecord(j, n[j])
                        ELSE n[j] = None
      BY DEF PointsHome
    <2>1. CASE j = k
      BY <1>2, <1>4, <1>5, <2>1 DEF rec
    <2>2. CASE j # k
      <3>1. ix.entries[j] = idx.entries[j] /\ n[j] = m[j]
        BY <1>4, <1>5, <2>2
      <3> QED BY <1>3, <3>1 DEF PointsHome
    <2> QED BY <2>1, <2>2
  <1> QED BY <1>6 DEF ix, new, n, rec

\* A tombstone written at the end.
LEMMA HomeDelete ==
    ASSUME NEW idx \in IndexType, NEW log \in Seq(Record), NEW m \in [Keys -> Values \cup {None}],
           PointsHome(idx, log, m), NEW k \in Keys
    PROVE  PointsHome(IndexDelete(idx, k), Append(log, Tombstone(k)), [m EXCEPT ![k] = None])
  <1> DEFINE rec == Tombstone(k)
             new == Append(log, rec)
             n == [m EXCEPT ![k] = None]
             ix == IndexDelete(idx, k)
  <1>1. rec \in Record
    BY RecordFields
  <1> HIDE DEF rec
  <1>3. PointsHome(idx, new, m)
    BY <1>1, HomeExtends
  <1>4. ix.entries[k].st = "dead" /\ \A j \in Keys \ {k} : ix.entries[j] = idx.entries[j]
    BY IndexDeleteDoes
  <1>5. n[k] = None /\ \A j \in Keys \ {k} : n[j] = m[j]
    OBVIOUS
  <1> HIDE DEF new, n, ix
  <1>6. PointsHome(ix, new, n)
    <2> SUFFICES ASSUME NEW j \in Keys
                 PROVE  IF ix.entries[j].st = "live"
                        THEN ix.entries[j].off < Len(new) /\ new[ix.entries[j].off + 1] = PutRecord(j, n[j])
                        ELSE n[j] = None
      BY DEF PointsHome
    <2>1. CASE j = k
      BY <1>4, <1>5, <2>1
    <2>2. CASE j # k
      <3>1. ix.entries[j] = idx.entries[j] /\ n[j] = m[j]
        BY <1>4, <1>5, <2>2
      <3> QED BY <1>3, <3>1 DEF PointsHome
    <2> QED BY <2>1, <2>2
  <1> QED BY <1>6 DEF ix, new, n, rec

-----------------------------------------------------------------------------
(***************************************************************************)
(* The writer and the file.                                                *)
(***************************************************************************)

\* Prefixes and suffixes of a log are logs.
LEMMA PrefixProps ==
    ASSUME NEW s \in Seq(Record), NEW n \in 0..Len(s)
    PROVE  /\ SubSeq(s, 1, n) \in Seq(Record) /\ Len(SubSeq(s, 1, n)) = n
           /\ \A i \in 1..n : SubSeq(s, 1, n)[i] = s[i]
           /\ SubSeq(s, n + 1, Len(s)) \in Seq(Record)
           /\ Len(SubSeq(s, n + 1, Len(s))) = Len(s) - n
  <1>1. Len(s) \in Nat /\ n \in Nat /\ n <= Len(s)
    BY LenProperties
  <1>2. \A i \in 1..n : s[i] \in Record
    BY <1>1, ElementOfSeq
  <1>3. \A i \in (n + 1)..Len(s) : s[i] \in Record
    BY <1>1, ElementOfSeq
  <1>4. /\ SubSeq(s, 1, n) \in Seq(Record) /\ Len(SubSeq(s, 1, n)) = IF 1 <= n THEN n - 1 + 1 ELSE 0
        /\ \A i \in 1..(n - 1 + 1) : SubSeq(s, 1, n)[i] = s[1 + i - 1]
    BY <1>1, <1>2, SubSeqProperties
  <1>5. /\ SubSeq(s, n + 1, Len(s)) \in Seq(Record)
        /\ Len(SubSeq(s, n + 1, Len(s))) = IF n + 1 <= Len(s) THEN Len(s) - (n + 1) + 1 ELSE 0
    BY <1>1, <1>3, SubSeqProperties
  <1>6. \A i \in 1..n : SubSeq(s, 1, n)[i] = s[i]
    BY <1>1, <1>4
  <1> QED BY <1>1, <1>4, <1>5, <1>6

\* Three parts of a log.
LEMMA LogsAssociate ==
    \A s, t, u \in Seq(Record) : (s \o t) \o u = s \o (t \o u)
  BY ConcatAssociative

\* Appending to the second part of a log appends to the log.
LEMMA AppendConcat ==
    ASSUME NEW s \in Seq(Record), NEW t \in Seq(Record), NEW rec \in Record
    PROVE  s \o Append(t, rec) = Append(s \o t, rec)
  <1>1. Append(t, rec) = t \o <<rec>> /\ <<rec>> \in Seq(Record)
    BY AppendIsConcat
  <1>2. s \o t \in Seq(Record)
    BY ConcatProperties
  <1>3. Append(s \o t, rec) = (s \o t) \o <<rec>>
    BY <1>2, AppendIsConcat
  <1> QED BY <1>1, <1>3, ConcatAssociative

\* The torn tail is at most one element.
LEMMA TornTailProps ==
    ASSUME NEW torn \in BOOLEAN
    PROVE  TornTail(torn) \in Seq(Record) /\ Len(TornTail(torn)) \in Nat
  <1>1. Garbage \in Record
    BY RecordFields
  <1> QED BY <1>1 DEF TornTail

\* What the types say of the log.
LEMMA LogType ==
    ASSUME TypeOK
    PROVE  /\ Flushed \in Seq(Record) /\ Log \in Seq(Record)
           /\ Len(file) \in Nat /\ Len(buf) \in Nat /\ Len(Log) \in Nat
           /\ Len(Flushed) = Len(file) + Len(buf)
           /\ Log = IF \E r \in Readers : rd[r].pc = "reset" THEN file ELSE Flushed
  <1>1. file \in Seq(Record) /\ buf \in Seq(Record)
    BY DEF TypeOK
  <1>2. /\ Flushed \in Seq(Record) /\ Len(Flushed) = Len(file) + Len(buf)
        /\ Len(file) \in Nat /\ Len(buf) \in Nat
    BY <1>1, ConcatProperties, LenProperties DEF Flushed
  <1>3. Log = IF \E r \in Readers : rd[r].pc = "reset" THEN file ELSE Flushed
    BY <1>1, ConcatEmptySeq DEF Log, Flushed
  <1>4. Log \in Seq(Record)
    BY <1>1, <1>2, <1>3
  <1> QED BY <1>2, <1>3, <1>4, LenProperties

\* A call that holds the lock: no flush of a reader is half done.
LEMMA LogExclusive ==
    ASSUME Exclusive, rd' = rd
    PROVE  Log = Flushed /\ Log' = file' \o buf'
  <1>1. ~\E r \in Readers : rd[r].pc = "reset"
    BY DEF Exclusive
  <1>2. ~\E r \in Readers : rd'[r].pc = "reset"
    BY <1>1
  <1> QED BY <1>1, <1>2 DEF Log, Flushed

\* A write that succeeds adds its record to the log.
LEMMA WriteOkDoes ==
    ASSUME TypeOK, synced <= Len(file), Exclusive, NEW rec \in Record, WriteOk(rec), rd' = rd
    PROVE  /\ ~werr /\ ~werr' /\ position' = position + 1
           /\ file' \in Seq(Record) /\ buf' \in Seq(Record) /\ split' \in BOOLEAN
           /\ synced' \in Nat /\ synced <= synced' /\ synced' <= Len(file')
           /\ Log' = Append(Log, rec)
           /\ syncWrite => /\ buf' = <<>> /\ split' = FALSE
                           /\ file' = Append(Flushed, rec) /\ synced' = Len(file')
  <1>1. /\ file \in Seq(Record) /\ buf \in Seq(Record) /\ split \in BOOLEAN /\ synced \in Nat
        /\ werr \in BOOLEAN
    BY DEF TypeOK
  <1>2. /\ Flushed \in Seq(Record) /\ Len(Flushed) = Len(file) + Len(buf)
        /\ Len(file) \in Nat /\ Len(buf) \in Nat
    BY LogType
  <1>3. Append(Flushed, rec) \in Seq(Record) /\ Len(Append(Flushed, rec)) = Len(Flushed) + 1
    BY <1>2, AppendProperties
  <1>4. Append(buf, rec) \in Seq(Record) /\ <<rec>> \in Seq(Record) /\ <<>> \in Seq(Record)
    BY <1>1, AppendProperties
  <1>5. Log = Flushed /\ Log' = file' \o buf'
    BY LogExclusive
  <1>6. /\ file \o Append(buf, rec) = Append(Flushed, rec)
        /\ Flushed \o <<rec>> = Append(Flushed, rec)
        /\ Append(Flushed, rec) \o <<>> = Append(Flushed, rec)
    <2>1. file \o Append(buf, rec) = Append(Flushed, rec)
      BY <1>1, AppendConcat DEF Flushed
    <2>2. Flushed \o <<rec>> = Append(Flushed, rec)
      BY <1>2, AppendIsConcat
    <2>3. Append(Flushed, rec) \o <<>> = Append(Flushed, rec)
      BY <1>3, ConcatEmptySeq
    <2> QED BY <2>1, <2>2, <2>3
  <1> DEFINE full == Append(Flushed, rec)
  <1>7. ~werr /\ ~werr' /\ position' = position + 1
    BY DEF WriteOk
  <1>8. /\ full \in Seq(Record) /\ Len(full) = Len(Flushed) + 1 /\ full = Append(Log, rec)
        /\ file \o Append(buf, rec) = full /\ Flushed \o <<rec>> = full /\ full \o <<>> = full
    BY <1>3, <1>5, <1>6
  <1>9. CASE syncWrite
    <2>1. file' = full /\ buf' = <<>> /\ split' = FALSE /\ synced' = Len(Flushed) + 1
      BY <1>9 DEF WriteOk, WrittenThrough
    <2>2. Log' = full
      BY <1>5, <1>8, <2>1
    <2>3. file' \in Seq(Record) /\ buf' \in Seq(Record) /\ split' \in BOOLEAN
      BY <1>4, <1>8, <2>1
    <2> HIDE DEF full
    <2>4. synced' \in Nat /\ synced <= synced' /\ synced' = Len(file')
      BY <1>1, <1>2, <1>8, <2>1
    <2>5. synced' <= Len(file')
      BY <2>4
    <2>6. Log' = Append(Log, rec)
      BY <1>8, <2>2
    <2> QED BY <1>7, <2>1, <2>3, <2>4, <2>5, <2>6 DEF full
  <1>10. CASE ~syncWrite
    <2>1. Buffered(rec) /\ synced' = synced
      BY <1>10 DEF WriteOk
    <2>2. CASE buf' = Append(buf, rec) /\ UNCHANGED <<file, split>>
      BY <1>1, <1>2, <1>4, <1>5, <1>6, <1>7, <1>10, <2>1, <2>2
    <2>3. CASE file' = Flushed /\ buf' = <<rec>> /\ split' \in BOOLEAN
      BY <1>1, <1>2, <1>4, <1>5, <1>6, <1>7, <1>10, <2>1, <2>3
    <2>4. CASE file' = full /\ buf' = <<>> /\ split' = FALSE
      <3>1. Log' = full
        BY <1>5, <1>8, <2>4
      <3>2. file' \in Seq(Record) /\ buf' \in Seq(Record) /\ split' \in BOOLEAN
        BY <1>4, <1>8, <2>4
      <3> HIDE DEF full
      <3>3. synced' \in Nat /\ synced <= synced' /\ synced' <= Len(file')
        BY <1>1, <1>2, <1>8, <2>1, <2>4
      <3>4. Log' = Append(Log, rec)
        BY <1>8, <3>1
      <3> QED BY <1>7, <1>10, <3>2, <3>3, <3>4
    <2> QED BY <2>1, <2>2, <2>3, <2>4 DEF Buffered
  <1> QED BY <1>9, <1>10

\* A flush that fails leaves part of the buffer in the file and the error set.
LEMMA FlushFailsDoes ==
    ASSUME TypeOK, LifeInv, mode = "open", FlushFails
    PROVE  /\ diskFaults /\ werr' = TRUE /\ split' = FALSE
           /\ file' \in Seq(Record) /\ buf' \in Seq(Record) /\ Len(file) <= Len(file')
  <1>1. file \in Seq(Record) /\ buf \in Seq(Record)
    BY DEF TypeOK
  <1>2. diskFaults
    BY DEF FlushFails, LifeInv
  <1>3. PICK n \in 0..Len(buf), torn \in BOOLEAN :
           /\ file' = file \o SubSeq(buf, 1, n) \o TornTail(torn)
           /\ buf' = SubSeq(buf, n + 1, Len(buf))
    BY DEF FlushFails
  <1> DEFINE h == SubSeq(buf, 1, n)
             t == TornTail(torn)
  <1>4. h \in Seq(Record) /\ SubSeq(buf, n + 1, Len(buf)) \in Seq(Record)
    BY <1>1, PrefixProps
  <1>5. t \in Seq(Record)
    BY TornTailProps
  <1> HIDE DEF h, t
  <1>6. /\ file \o h \in Seq(Record) /\ Len(file \o h) = Len(file) + Len(h)
        /\ Len(file) \in Nat /\ Len(h) \in Nat /\ Len(t) \in Nat
    BY <1>1, <1>4, <1>5, ConcatProperties, LenProperties
  <1>7. (file \o h) \o t \in Seq(Record) /\ Len((file \o h) \o t) = Len(file \o h) + Len(t)
    BY <1>5, <1>6, ConcatProperties
  <1>8. file' = (file \o h) \o t
    BY <1>3 DEF h, t
  <1>9. file' \in Seq(Record) /\ Len(file) <= Len(file')
    BY <1>6, <1>7, <1>8
  <1>10. werr' = TRUE /\ split' = FALSE
    BY DEF FlushFails
  <1> QED BY <1>2, <1>3, <1>4, <1>9, <1>10

\* A flush that succeeds moves the buffer to the file.
LEMMA FlushOkDoes ==
    ASSUME TypeOK, FlushOk
    PROVE  /\ ~werr /\ ~werr' /\ split' = FALSE /\ buf' = <<>> /\ file' = Flushed
           /\ file' \in Seq(Record) /\ buf' \in Seq(Record) /\ Len(file) <= Len(file')
           /\ file' \o buf' = Flushed
  <1>1. /\ Flushed \in Seq(Record) /\ Len(Flushed) = Len(file) + Len(buf)
        /\ Len(file) \in Nat /\ Len(buf) \in Nat
    BY LogType
  <1>2. ~werr /\ ~werr' /\ split' = FALSE /\ buf' = <<>> /\ file' = Flushed
    BY DEF FlushOk
  <1>3. Flushed \o <<>> = Flushed
    BY <1>1, ConcatEmptySeq
  <1> QED BY <1>1, <1>2, <1>3

\* A write that fails: the disk is to blame, and either the writer refuses
\* everything from now on or the record is in the file with its position.
LEMMA WriteFailsDoes ==
    ASSUME TypeOK, LifeInv, Exclusive, NEW rec \in Record, WriteFails(rec), rd' = rd
    PROVE  /\ diskFaults
           /\ file' \in Seq(Record) /\ buf' \in Seq(Record) /\ split' \in BOOLEAN
           /\ werr' \in BOOLEAN /\ synced' = synced /\ Len(file) <= Len(file') /\ position' \in Nat
           /\ \/ werr' = TRUE
              \/ werr' = FALSE /\ fd /\ ~werr /\ Log' = Append(Log, rec) /\ position' = position + 1
  <1>1. /\ file \in Seq(Record) /\ buf \in Seq(Record) /\ split \in BOOLEAN /\ werr \in BOOLEAN
        /\ position \in Nat /\ mode = "open"
    BY DEF TypeOK, Exclusive
  <1>2. CASE werr /\ UNCHANGED <<file, synced, buf, split, position, werr>>
    <2>1. diskFaults
      BY <1>1, <1>2 DEF LifeInv
    <2> QED BY <1>1, <1>2, <2>1, LenProperties
  <1>3. CASE FlushFails /\ position' \in {position, IF syncWrite THEN position + 1 ELSE position}
             /\ UNCHANGED synced
    BY <1>1, <1>3, FlushFailsDoes
  <1>4. CASE /\ diskFaults /\ fd /\ ~werr /\ file' = Append(Flushed, rec) /\ buf' = <<>>
             /\ split' = FALSE /\ position' = position + 1 /\ UNCHANGED <<synced, werr>>
    <2>1. /\ Flushed \in Seq(Record) /\ Len(Flushed) = Len(file) + Len(buf)
          /\ Len(file) \in Nat /\ Len(buf) \in Nat
      BY LogType
    <2>2. Append(Flushed, rec) \in Seq(Record) /\ Len(Append(Flushed, rec)) = Len(Flushed) + 1
      BY <2>1, AppendProperties
    <2>3. Log = Flushed /\ Log' = file' \o buf'
      BY LogExclusive
    <2>4. Append(Flushed, rec) \o <<>> = Append(Flushed, rec)
      BY <2>2, ConcatEmptySeq
    <2>5. Log' = Append(Log, rec)
      BY <1>4, <2>3, <2>4
    <2>6. buf' \in Seq(Record)
      BY <1>4
    <2>7. Len(file) <= Len(file')
      BY <1>4, <2>1, <2>2
    <2>8. file' \in Seq(Record) /\ split' \in BOOLEAN
      BY <1>4, <2>2, Zenon
    <2>10. position' \in Nat
      BY <1>1, <1>4
    <2>9. werr' = FALSE /\ werr' \in BOOLEAN
      BY <1>1, <1>4
    <2> QED BY <1>4, <2>5, <2>6, <2>7, <2>8, <2>9, <2>10, Zenon
  <1> QED BY <1>2, <1>3, <1>4 DEF WriteFails

\* Flush and fsync: the log stays, or the writer has failed.
LEMMA FlushAndSyncDoes ==
    ASSUME TypeOK, LifeInv, Exclusive, FlushAndSync, rd' = rd
    PROVE  /\ file' \in Seq(Record) /\ buf' \in Seq(Record) /\ split' \in BOOLEAN
           /\ werr' \in BOOLEAN /\ synced' \in Nat /\ synced <= synced' /\ synced' <= Len(file')
           /\ \/ werr' = TRUE /\ diskFaults
              \/ werr' = FALSE /\ werr = FALSE /\ Log' = Log
           /\ buf = <<>> /\ ~split /\ synced = Len(file) /\ ~diskFaults =>
                 UNCHANGED <<file, buf, split, synced, werr>>
  <1>1. /\ file \in Seq(Record) /\ buf \in Seq(Record) /\ split \in BOOLEAN /\ synced \in Nat
        /\ werr \in BOOLEAN /\ mode = "open" /\ synced <= Len(file)
    BY DEF TypeOK, Exclusive, LifeInv
  <1>2. /\ Len(file) \in Nat /\ Len(Flushed) \in Nat /\ Len(file) <= Len(Flushed)
        /\ Log = Flushed /\ Log' = file' \o buf'
    BY LogType, LogExclusive
  <1>3. buf = <<>> => Flushed = file
    BY <1>1, ConcatEmptySeq DEF Flushed
  <1>4. CASE FlushOk /\ (synced' = Len(Flushed) \/ (UNCHANGED synced /\ diskFaults))
    <2>1. /\ ~werr /\ ~werr' /\ split' = FALSE /\ buf' = <<>> /\ file' = Flushed
          /\ file' \in Seq(Record) /\ buf' \in Seq(Record) /\ Len(file) <= Len(file')
          /\ file' \o buf' = Flushed
      BY <1>4, FlushOkDoes
    <2>2. synced' \in Nat /\ synced <= synced' /\ synced' <= Len(file')
      BY <1>1, <1>2, <1>4, <2>1
    <2>3. werr' = FALSE /\ werr = FALSE /\ Log' = Log /\ split' \in BOOLEAN
      BY <1>1, <1>2, <1>4, <2>1 DEF FlushOk
    <2>4. ASSUME buf = <<>>, ~split, synced = Len(file), ~diskFaults
          PROVE  UNCHANGED <<file, buf, split, synced, werr>>
      BY <1>1, <1>3, <1>4, <2>1, <2>3, <2>4
    <2> QED BY <2>1, <2>2, <2>3, <2>4
  <1>5. CASE FlushFails /\ UNCHANGED synced
    <2>1. /\ diskFaults /\ werr' = TRUE /\ split' = FALSE
          /\ file' \in Seq(Record) /\ buf' \in Seq(Record) /\ Len(file) <= Len(file')
      BY <1>1, <1>5, FlushFailsDoes
    <2>2. Len(file') \in Nat
      BY <2>1, LenProperties
    <2>3. synced' \in Nat /\ synced <= synced' /\ synced' <= Len(file')
      BY <1>1, <1>2, <1>5, <2>1, <2>2
    <2>4. split' \in BOOLEAN /\ werr' \in BOOLEAN
      BY <2>1
    <2> QED BY <2>1, <2>3, <2>4, Zenon
  <1>6. CASE UNCHANGED diskVars
    <2>1. UNCHANGED <<file, buf, split, synced, werr>>
      BY <1>6 DEF diskVars
    <2>2. Log' = Log
      BY <1>2, <2>1 DEF Flushed
    <2>3. werr => diskFaults
      BY <1>1 DEF LifeInv
    <2> QED BY <1>1, <2>1, <2>2, <2>3
  <1>7. \/ FlushOk /\ (synced' = Len(Flushed) \/ (UNCHANGED synced /\ diskFaults))
        \/ FlushFails /\ UNCHANGED synced
        \/ UNCHANGED diskVars
    BY DEF FlushAndSync
  <1> QED BY <1>4, <1>5, <1>6, <1>7

-----------------------------------------------------------------------------
(***************************************************************************)
(* Every step keeps the invariant: calls that hold the lock.               *)
(***************************************************************************)

\* No Get is in progress.
LEMMA ReadersIdle ==
    ASSUME \A r \in Readers : rd'[r].pc = "idle"
    PROVE  ReaderInv'
  BY DEF ReaderInv, ReaderOK

\* What is to be shown of a step that leaves the engine open.
LEMMA StaysOpen ==
    ASSUME TypeOK', mode' = "open", synced' <= Len(file'), (~fd' \/ werr') => diskFaults',
           HomeInv', ReaderInv', SyncInv', CountExact(index')
    PROVE  IInv'
  <1>1. LifeInv' /\ RebuildInv' /\ DeletedCountExact'
    BY DEF LifeInv, RebuildInv, DeletedCountExact, CountExact
  <1> QED BY <1>1 DEF IInv

\* A write that succeeds.
LEMMA StoreStep ==
    ASSUME IInv, UNCHANGED setup, Exclusive, NEW rec \in Record, rec # Garbage, WriteOk(rec),
           UNCHANGED <<fd, mode, scan, cursor, rd>>,
           index' \in IndexType, CountExact(index'),
           mem' = [mem EXCEPT ![rec.key] = rec.val],
           \A k \in Keys \ {rec.key} : index'.entries[k] = index.entries[k],
           index'.entries[rec.key].st # "live" => rec.val = None,
           fd /\ PointsHome(index, Log, mem) /\ position = Len(Log) =>
              PointsHome(index', Append(Log, rec), mem')
    PROVE  IInv'
  <1>1. TypeOK /\ LifeInv /\ mode = "open" /\ synced <= Len(file)
    BY DEF IInv, Exclusive, LifeInv
  <1>2. /\ ~werr /\ ~werr' /\ position' = position + 1
        /\ file' \in Seq(Record) /\ buf' \in Seq(Record) /\ split' \in BOOLEAN
        /\ synced' \in Nat /\ synced <= synced' /\ synced' <= Len(file')
        /\ Log' = Append(Log, rec)
        /\ syncWrite => /\ buf' = <<>> /\ split' = FALSE
                        /\ file' = Append(Flushed, rec) /\ synced' = Len(file')
    BY <1>1, WriteOkDoes
  <1>3. werr' = werr
    BY DEF WriteOk
  <1>4. rec.key \in Keys /\ rec.val \in Values \cup {None}
    BY RecordFields
  <1>5. mem \in [Keys -> Values \cup {None}]
    BY <1>1 DEF TypeOK
  <1>6. mem' \in [Keys -> Values \cup {None}]
    BY <1>4, <1>5
  <1>7. position' \in Nat
    BY <1>1, <1>2 DEF TypeOK
  <1>8. TypeOK'
    <2>1. /\ syncWrite' \in BOOLEAN /\ diskFaults' \in BOOLEAN /\ fd' \in BOOLEAN /\ werr' \in BOOLEAN
          /\ mode' \in {"open", "closed", "down", "rebuild", "failed"} /\ scan' \in Nat
          /\ cursor' \in Nat \cup {Misaligned} /\ rd' \in [Readers -> ReaderState]
      BY <1>1, <1>3 DEF TypeOK, setup
    <2> QED BY <1>2, <1>6, <1>7, <2>1 DEF TypeOK
  <1>9. Log \in Seq(Record) /\ Len(Log) \in Nat
    BY <1>1, LogType
  <1>10. HomeInv'
    <2>1. /\ \A k \in Keys : index.entries[k].st # "live" => mem[k] = None
          /\ fd => PointsHome(index, Log, mem) /\ position = Len(Log)
      BY <1>1, <1>2 DEF IInv, HomeInv
    <2>2. ASSUME NEW k \in Keys, index'.entries[k].st # "live" PROVE mem'[k] = None
      <3>1. CASE k = rec.key
        BY <1>4, <1>5, <2>2, <3>1
      <3>2. CASE k # rec.key
        BY <1>4, <1>5, <2>1, <2>2, <3>2
      <3> QED BY <3>1, <3>2
    <2>3. ASSUME fd' PROVE PointsHome(index', Log', mem') /\ position' = Len(Log')
      <3>1. fd /\ PointsHome(index, Log, mem) /\ position = Len(Log)
        BY <2>1, <2>3
      <3>2. Len(Log') = Len(Log) + 1
        BY <1>2, <1>9, AppendProperties
      <3>3. PointsHome(index', Log', mem')
        BY <1>2, <3>1
      <3>4. position' = Len(Log')
        BY <1>2, <3>1, <3>2
      <3> QED BY <3>3, <3>4
    <2> QED BY <2>2, <2>3 DEF HomeInv
  <1>11. SyncInv'
    <2> SUFFICES ASSUME syncWrite, ~diskFaults
                 PROVE  buf' = <<>> /\ ~split' /\ ~werr' /\ synced' = Len(file') /\ mem' = MapOf(file')
      BY DEF SyncInv, setup
    <2>1. buf = <<>> /\ mem = MapOf(file) /\ file \in Seq(Record)
      BY <1>1 DEF IInv, SyncInv, TypeOK
    <2>2. Flushed = file
      BY <2>1, ConcatEmptySeq DEF Flushed
    <2>3. file' = Append(file, rec)
      BY <1>2, <2>2
    <2>4. mem' = MapOf(file')
      BY <2>1, <2>3, MapOfAppend
    <2> QED BY <1>2, <2>4
  <1>12. ReaderInv'
    <2>1. \A r \in Readers : rd'[r].pc = "idle"
      BY DEF Exclusive
    <2> QED BY <2>1, ReadersIdle
  <1>13. (~fd' \/ werr') => diskFaults'
    BY <1>1, <1>2 DEF LifeInv, setup
  <1> QED BY <1>1, <1>2, <1>8, <1>10, <1>11, <1>12, <1>13, StaysOpen

\* A write that fails.
LEMMA StoreFailsStep ==
    ASSUME IInv, UNCHANGED setup, Exclusive, NEW rec \in Record, WriteFails(rec),
           UNCHANGED <<index, mem, fd, mode, scan, cursor, rd>>
    PROVE  IInv'
  <1>1. TypeOK /\ LifeInv /\ mode = "open" /\ synced <= Len(file)
    BY DEF IInv, Exclusive, LifeInv
  <1>2. /\ diskFaults
        /\ file' \in Seq(Record) /\ buf' \in Seq(Record) /\ split' \in BOOLEAN
        /\ werr' \in BOOLEAN /\ synced' = synced /\ Len(file) <= Len(file') /\ position' \in Nat
        /\ \/ werr' = TRUE
           \/ werr' = FALSE /\ fd /\ ~werr /\ Log' = Append(Log, rec) /\ position' = position + 1
    BY <1>1, WriteFailsDoes
  <1>3. TypeOK'
    <2>1. /\ syncWrite' \in BOOLEAN /\ diskFaults' \in BOOLEAN /\ fd' \in BOOLEAN
          /\ mode' \in {"open", "closed", "down", "rebuild", "failed"} /\ scan' \in Nat
          /\ cursor' \in Nat \cup {Misaligned} /\ rd' \in [Readers -> ReaderState]
          /\ index' \in IndexType /\ mem' \in [Keys -> Values \cup {None}] /\ synced' \in Nat
      BY <1>1, <1>2 DEF TypeOK, setup
    <2> QED BY <1>2, <2>1 DEF TypeOK
  <1>4. synced' <= Len(file')
    <2>1. Len(file) \in Nat /\ Len(file') \in Nat /\ synced \in Nat
      BY <1>1, <1>2, LenProperties DEF TypeOK
    <2> QED BY <1>1, <1>2, <2>1
  <1>5. HomeInv'
    <2>1. CASE werr' = TRUE
      BY <2>1 DEF HomeInv
    <2>2. CASE fd /\ ~werr /\ Log' = Append(Log, rec) /\ position' = position + 1
      <3>1. /\ \A k \in Keys : index.entries[k].st # "live" => mem[k] = None
            /\ PointsHome(index, Log, mem) /\ position = Len(Log)
        BY <1>1, <2>2 DEF IInv, HomeInv
      <3>2. Log \in Seq(Record) /\ index \in IndexType
        BY <1>1, LogType DEF TypeOK
      <3>3. PointsHome(index, Append(Log, rec), mem)
        BY <3>1, <3>2, HomeExtends
      <3>4. position' = Len(Log')
        BY <2>2, <3>1, <3>2, AppendProperties
      <3>5. PointsHome(index', Log', mem')
        BY <2>2, <3>3
      <3>6. \A k \in Keys : index'.entries[k].st # "live" => mem'[k] = None
        BY <3>1
      <3> QED BY <3>4, <3>5, <3>6 DEF HomeInv
    <2> QED BY <1>2, <2>1, <2>2
  <1>6. SyncInv' /\ diskFaults'
    BY <1>2 DEF SyncInv, setup
  <1>7. ReaderInv'
    <2>1. \A r \in Readers : rd'[r].pc = "idle"
      BY DEF Exclusive
    <2> QED BY <2>1, ReadersIdle
  <1>8. CountExact(index')
    BY DEF IInv, DeletedCountExact, CountExact
  <1> QED BY <1>1, <1>3, <1>4, <1>5, <1>6, <1>7, <1>8, StaysOpen

\* Put.
LEMMA PutStep ==
    ASSUME IInv, UNCHANGED setup, NEW k \in Keys, NEW v \in Values, Put(k, v)
    PROVE  IInv'
  <1> DEFINE rec == PutRecord(k, v)
  <1>1. rec \in Record /\ rec # Garbage /\ rec.key = k /\ rec.val = v
    BY RecordFields
  <1>2. Exclusive /\ UNCHANGED <<fd, mode, scan, cursor, rd>>
    BY DEF Put
  <1>3. CASE WriteFails(rec) /\ UNCHANGED <<index, mem>>
    <2> HIDE DEF rec
    <2> QED BY <1>1, <1>2, <1>3, StoreFailsStep
  <1>4. CASE WriteOk(rec) /\ index' = IndexPut(index, k, position) /\ mem' = [mem EXCEPT ![k] = v]
    <2>1. /\ index \in IndexType /\ position \in Nat /\ CountExact(index) /\ Log \in Seq(Record)
          /\ mem \in [Keys -> Values \cup {None}]
      BY LogType DEF IInv, TypeOK, DeletedCountExact, CountExact
    <2>2. /\ index' \in IndexType /\ CountExact(index')
          /\ index'.entries[k] = [st |-> "live", off |-> position]
          /\ \A j \in Keys \ {k} : index'.entries[j] = index.entries[j]
      BY <1>4, <2>1, IndexPutDoes
    <2>3. ASSUME PointsHome(index, Log, mem), position = Len(Log)
          PROVE  PointsHome(index', Append(Log, rec), mem')
      BY <1>4, <2>1, <2>3, HomePut
    <2> HIDE DEF rec
    <2>4. mem' = [mem EXCEPT ![rec.key] = rec.val]
      BY <1>1, <1>4
    <2>5. \A j \in Keys \ {rec.key} : index'.entries[j] = index.entries[j]
      BY <1>1, <2>2
    <2>6. index'.entries[rec.key].st = "live"
      BY <1>1, <2>2
    <2> QED BY <1>1, <1>2, <1>4, <2>2, <2>3, <2>4, <2>5, <2>6, StoreStep
  <1> QED BY <1>3, <1>4 DEF Put

\* Delete.
LEMMA DeleteStep ==
    ASSUME IInv, UNCHANGED setup, NEW k \in Keys, Delete(k)
    PROVE  IInv'
  <1> DEFINE rec == Tombstone(k)
  <1>1. rec \in Record /\ rec # Garbage /\ rec.key = k /\ rec.val = None
    BY RecordFields
  <1>2. Exclusive /\ UNCHANGED <<fd, mode, scan, cursor, rd>>
    BY DEF Delete
  <1>3. CASE WriteFails(rec) /\ UNCHANGED <<index, mem>>
    <2> HIDE DEF rec
    <2> QED BY <1>1, <1>2, <1>3, StoreFailsStep
  <1>4. CASE WriteOk(rec) /\ index' = IndexDelete(index, k) /\ mem' = [mem EXCEPT ![k] = None]
    <2>1. /\ index \in IndexType /\ CountExact(index) /\ Log \in Seq(Record)
          /\ mem \in [Keys -> Values \cup {None}]
      BY LogType DEF IInv, TypeOK, DeletedCountExact, CountExact
    <2>2. /\ index' \in IndexType /\ CountExact(index')
          /\ index'.entries[k].st = "dead"
          /\ \A j \in Keys \ {k} : index'.entries[j] = index.entries[j]
      BY <1>4, <2>1, IndexDeleteDoes
    <2>3. ASSUME PointsHome(index, Log, mem)
          PROVE  PointsHome(index', Append(Log, rec), mem')
      BY <1>4, <2>1, <2>3, HomeDelete
    <2> HIDE DEF rec
    <2>4. mem' = [mem EXCEPT ![rec.key] = rec.val]
      BY <1>1, <1>4
    <2>5. \A j \in Keys \ {rec.key} : index'.entries[j] = index.entries[j]
      BY <1>1, <2>2
    <2> QED BY <1>1, <1>2, <1>4, <2>2, <2>3, <2>4, <2>5, StoreStep
  <1> QED BY <1>3, <1>4 DEF Delete

\* Sync.
LEMMA SyncStep ==
    ASSUME IInv, UNCHANGED setup, Sync
    PROVE  IInv'
  <1>1. TypeOK /\ LifeInv /\ mode = "open"
    BY DEF IInv, Sync, Exclusive
  <1>2. Exclusive /\ FlushAndSync /\ UNCHANGED <<index, position, fd, mode, scan, cursor, rd, mem>>
    BY DEF Sync
  <1>3. /\ file' \in Seq(Record) /\ buf' \in Seq(Record) /\ split' \in BOOLEAN
        /\ werr' \in BOOLEAN /\ synced' \in Nat /\ synced <= synced' /\ synced' <= Len(file')
        /\ \/ werr' = TRUE /\ diskFaults
           \/ werr' = FALSE /\ werr = FALSE /\ Log' = Log
        /\ buf = <<>> /\ ~split /\ synced = Len(file) /\ ~diskFaults =>
              UNCHANGED <<file, buf, split, synced, werr>>
    BY <1>1, <1>2, FlushAndSyncDoes
  <1>4. TypeOK'
    <2>1. /\ syncWrite' \in BOOLEAN /\ diskFaults' \in BOOLEAN /\ fd' \in BOOLEAN
          /\ mode' \in {"open", "closed", "down", "rebuild", "failed"} /\ scan' \in Nat
          /\ cursor' \in Nat \cup {Misaligned} /\ rd' \in [Readers -> ReaderState]
          /\ index' \in IndexType /\ mem' \in [Keys -> Values \cup {None}] /\ position' \in Nat
      BY <1>1, <1>2 DEF TypeOK, setup
    <2> QED BY <1>3, <2>1 DEF TypeOK
  <1>5. HomeInv'
    <2>1. CASE werr' = TRUE
      BY <2>1 DEF HomeInv
    <2>2. CASE werr = FALSE /\ Log' = Log
      <3>1. /\ \A k \in Keys : index.entries[k].st # "live" => mem[k] = None
            /\ fd => PointsHome(index, Log, mem) /\ position = Len(Log)
        BY <1>1, <2>2 DEF IInv, HomeInv
      <3> QED BY <1>2, <2>2, <3>1 DEF HomeInv
    <2> QED BY <1>3, <2>1, <2>2
  <1>6. SyncInv'
    <2> SUFFICES ASSUME syncWrite, ~diskFaults
                 PROVE  buf' = <<>> /\ ~split' /\ ~werr' /\ synced' = Len(file') /\ mem' = MapOf(file')
      BY DEF SyncInv, setup
    <2>1. buf = <<>> /\ ~split /\ ~werr /\ synced = Len(file) /\ mem = MapOf(file)
      BY DEF IInv, SyncInv
    <2>2. UNCHANGED <<file, buf, split, synced, werr>>
      BY <1>3, <2>1
    <2> QED BY <1>2, <2>1, <2>2
  <1>7. ReaderInv'
    <2>1. \A r \in Readers : rd'[r].pc = "idle"
      BY <1>2 DEF Exclusive
    <2> QED BY <2>1, ReadersIdle
  <1>8. CountExact(index')
    BY <1>2 DEF IInv, DeletedCountExact, CountExact
  <1>9. (~fd' \/ werr') => diskFaults'
    BY <1>1, <1>2, <1>3 DEF LifeInv, setup
  <1> QED BY <1>1, <1>2, <1>3, <1>4, <1>5, <1>6, <1>7, <1>8, <1>9, StaysOpen

\* Close.
LEMMA CloseStep ==
    ASSUME IInv, UNCHANGED setup, Close
    PROVE  IInv'
  <1>1. TypeOK /\ LifeInv
    BY DEF IInv
  <1>2. /\ Exclusive /\ FlushAndSync /\ mode' = "closed" /\ fd' = FALSE
        /\ UNCHANGED <<index, position, scan, cursor, rd, mem>>
    BY DEF Close
  <1>3. /\ file' \in Seq(Record) /\ buf' \in Seq(Record) /\ split' \in BOOLEAN
        /\ werr' \in BOOLEAN /\ synced' \in Nat /\ synced <= synced' /\ synced' <= Len(file')
        /\ buf = <<>> /\ ~split /\ synced = Len(file) /\ ~diskFaults =>
              UNCHANGED <<file, buf, split, synced, werr>>
    BY <1>1, <1>2, FlushAndSyncDoes
  <1>4. TypeOK'
    <2>1. /\ syncWrite' \in BOOLEAN /\ diskFaults' \in BOOLEAN /\ fd' \in BOOLEAN
          /\ mode' \in {"open", "closed", "down", "rebuild", "failed"} /\ scan' \in Nat
          /\ cursor' \in Nat \cup {Misaligned} /\ rd' \in [Readers -> ReaderState]
          /\ index' \in IndexType /\ mem' \in [Keys -> Values \cup {None}] /\ position' \in Nat
      BY <1>1, <1>2 DEF TypeOK, setup
    <2> QED BY <1>3, <2>1 DEF TypeOK
  <1>5. LifeInv' /\ HomeInv' /\ RebuildInv'
    BY <1>2, <1>3 DEF LifeInv, HomeInv, RebuildInv
  <1>6. SyncInv'
    <2> SUFFICES ASSUME syncWrite, ~diskFaults
                 PROVE  buf' = <<>> /\ ~split' /\ ~werr' /\ synced' = Len(file') /\ mem' = MapOf(file')
      BY DEF SyncInv, setup
    <2>1. buf = <<>> /\ ~split /\ ~werr /\ synced = Len(file) /\ mem = MapOf(file)
      BY DEF IInv, SyncInv
    <2>2. UNCHANGED <<file, buf, split, synced, werr>>
      BY <1>3, <2>1
    <2> QED BY <1>2, <2>1, <2>2
  <1>7. ReaderInv'
    <2>1. \A r \in Readers : rd'[r].pc = "idle"
      BY <1>2 DEF Exclusive
    <2> QED BY <2>1, ReadersIdle
  <1>8. DeletedCountExact'
    BY <1>2 DEF IInv, DeletedCountExact
  <1> QED BY <1>4, <1>5, <1>6, <1>7, <1>8 DEF IInv

-----------------------------------------------------------------------------
(***************************************************************************)
(* The steps of Get.                                                       *)
(***************************************************************************)

\* The only reader moves.
LEMMA OneReader ==
    ASSUME SingleReader, TypeOK, NEW r \in Readers, NEW me \in ReaderState,
           rd' = [rd EXCEPT ![r] = me]
    PROVE  /\ rd' \in [Readers -> ReaderState] /\ rd'[r] = me
           /\ \A s \in Readers : s = r
           /\ (\E s \in Readers : rd[s].pc = "reset") <=> rd[r].pc = "reset"
           /\ (\E s \in Readers : rd'[s].pc = "reset") <=> me.pc = "reset"
  <1>1. rd \in [Readers -> ReaderState]
    BY DEF TypeOK
  <1>2. \A s \in Readers : s = r
    BY DEF SingleReader
  <1>3. rd' \in [Readers -> ReaderState] /\ rd'[r] = me
    BY <1>1
  <1> QED BY <1>2, <1>3

\* Steps of a Get that read: only the reader and the file position change.
LEMMA ReadOnlyStep ==
    ASSUME SingleReader, IInv, UNCHANGED setup, NEW r \in Readers, NEW me \in ReaderState,
           mode = "open", rd' = [rd EXCEPT ![r] = me], rd[r].pc # "reset", me.pc # "reset",
           cursor' \in Nat \cup {Misaligned}, ReaderOK(r)',
           UNCHANGED <<file, synced, buf, split, werr, index, position, fd, mode, scan, mem>>
    PROVE  IInv'
  <1>1. TypeOK
    BY DEF IInv
  <1>2. /\ rd' \in [Readers -> ReaderState] /\ rd'[r] = me
        /\ \A s \in Readers : s = r
        /\ ~\E s \in Readers : rd[s].pc = "reset"
        /\ ~\E s \in Readers : rd'[s].pc = "reset"
    BY <1>1, OneReader
  <1>3. TypeOK'
    BY <1>1, <1>2 DEF TypeOK, setup
  <1>4. Log' = Log
    BY <1>2 DEF Log
  <1>5. ReaderInv'
    BY <1>2 DEF ReaderInv
  <1>6. HomeInv'
    BY <1>4 DEF IInv, HomeInv
  <1>7. LifeInv' /\ SyncInv' /\ RebuildInv' /\ DeletedCountExact'
    BY DEF IInv, LifeInv, SyncInv, RebuildInv, DeletedCountExact, setup
  <1> QED BY <1>3, <1>5, <1>6, <1>7 DEF IInv

\* Looking the key up in the index.
LEMMA GetLookupStep ==
    ASSUME SingleReader, IInv, UNCHANGED setup, NEW r \in Readers, NEW k \in Keys, GetLookup(r, k)
    PROVE  IInv'
  <1> DEFINE me == [pc |-> "flush", key |-> k, off |-> index.entries[k].off, ret |-> None]
  <1>1. TypeOK /\ index \in IndexType
    BY DEF IInv, TypeOK
  <1>2. me \in ReaderState
    BY <1>1 DEF ReaderState, IndexType, IndexEntry
  <1>3. /\ rd' = [rd EXCEPT ![r] = me] /\ mode = "open" /\ rd[r].pc = "idle"
        /\ index.entries[k].st = "live"
        /\ UNCHANGED <<file, synced, buf, split, werr, index, position, fd, mode, scan, cursor, mem>>
    BY DEF GetLookup, diskVars
  <1>4. /\ me.pc = "flush" /\ me.key = k /\ me.off = index.entries[k].off
        /\ rd[r].pc # "reset" /\ me.pc # "reset"
    BY <1>3
  <1> HIDE DEF me
  <1>5. rd'[r] = me
    BY <1>1, <1>2, <1>3, OneReader
  <1>6. ReaderOK(r)'
    BY <1>3, <1>4, <1>5 DEF ReaderOK
  <1>7. cursor' \in Nat \cup {Misaligned}
    BY <1>1, <1>3 DEF TypeOK
  <1> QED BY <1>2, <1>3, <1>4, <1>6, <1>7, ReadOnlyStep

\* The tests that Flush makes first.
LEMMA GetFlushStep ==
    ASSUME SingleReader, IInv, UNCHANGED setup, NEW r \in Readers, GetFlush(r)
    PROVE  IInv'
  <1> DEFINE pc == IF werr THEN "done" ELSE IF buf = <<>> THEN "seek" ELSE "write"
             ret == IF werr THEN Err ELSE rd[r].ret
             me == [rd[r] EXCEPT !.pc = pc, !.ret = ret]
  <1>1. TypeOK /\ LifeInv /\ ReaderOK(r)
    BY DEF IInv, ReaderInv
  <1>2. rd[r] \in ReaderState
    BY <1>1 DEF TypeOK
  <1>3. /\ rd[r].pc = "flush"
        /\ UNCHANGED <<file, synced, buf, split, werr, index, position, fd, mode, scan, cursor, mem>>
    BY DEF GetFlush, diskVars
  <1>4. rd' = [rd EXCEPT ![r] = me]
    BY <1>1 DEF GetFlush, TypeOK
  <1>5. pc \in {"done", "seek", "write"} /\ ret \in Values \cup {None, Err}
    BY <1>2 DEF ReaderState
  <1>6. werr => pc = "done" /\ ret = Err
    OBVIOUS
  <1>7. ~werr => pc \in {"seek", "write"} /\ (pc = "seek" => buf = <<>>)
    OBVIOUS
  <1> HIDE DEF pc, ret
  <1>8. me \in ReaderState /\ me.pc = pc /\ me.key = rd[r].key /\ me.off = rd[r].off /\ me.ret = ret
    BY <1>2, <1>5 DEF ReaderState
  <1>9. /\ mode = "open" /\ rd[r].key \in Keys /\ index.entries[rd[r].key].st = "live"
        /\ rd[r].off = index.entries[rd[r].key].off
    BY <1>1, <1>3 DEF ReaderOK
  <1> HIDE DEF me
  <1>10. rd'[r] = me
    BY <1>1, <1>4, <1>8, OneReader
  <1>11. ReaderOK(r)'
    <2>1. CASE werr
      <3>1. diskFaults'
        BY <1>1, <1>9, <2>1 DEF LifeInv, setup
      <3> QED BY <1>3, <1>6, <1>8, <1>9, <1>10, <2>1, <3>1 DEF ReaderOK
    <2>2. CASE ~werr
      BY <1>3, <1>7, <1>8, <1>9, <1>10, <2>2 DEF ReaderOK
    <2> QED BY <2>1, <2>2
  <1>12. cursor' \in Nat \cup {Misaligned} /\ rd[r].pc # "reset" /\ me.pc # "reset"
    BY <1>1, <1>3, <1>5, <1>8 DEF TypeOK
  <1> QED BY <1>3, <1>4, <1>8, <1>9, <1>11, <1>12, ReadOnlyStep

\* Seeking to the indexed offset.
LEMMA GetSeekStep ==
    ASSUME SingleReader, IInv, UNCHANGED setup, NEW r \in Readers, GetSeek(r)
    PROVE  IInv'
  <1>1. TypeOK /\ LifeInv /\ ReaderOK(r)
    BY DEF IInv, ReaderInv
  <1>2. rd[r] \in ReaderState /\ rd \in [Readers -> ReaderState]
    BY <1>1 DEF TypeOK
  <1>3. /\ rd[r].pc = "seek" /\ rd[r].pc # "reset"
        /\ UNCHANGED <<file, synced, buf, split, werr, index, position, fd, mode, scan, mem>>
    BY DEF GetSeek, diskVars
  <1>4. /\ mode = "open" /\ rd[r].key \in Keys /\ index.entries[rd[r].key].st = "live"
        /\ rd[r].off = index.entries[rd[r].key].off /\ ~werr /\ buf = <<>>
    BY <1>1, <1>3 DEF ReaderOK
  <1>5. CASE fd
    <2> DEFINE me == [rd[r] EXCEPT !.pc = "read"]
    <2>1. rd' = [rd EXCEPT ![r] = me] /\ cursor' = rd[r].off
      BY <1>2, <1>5 DEF GetSeek
    <2>2. /\ me \in ReaderState /\ me.pc = "read" /\ me.key = rd[r].key /\ me.off = rd[r].off
          /\ me.pc # "reset"
      BY <1>2 DEF ReaderState
    <2> HIDE DEF me
    <2>3. rd'[r] = me
      BY <1>1, <2>1, <2>2, OneReader
    <2>4. ReaderOK(r)'
      BY <1>3, <1>4, <1>5, <2>1, <2>2, <2>3 DEF ReaderOK
    <2>5. cursor' \in Nat \cup {Misaligned}
      BY <1>2, <2>1 DEF ReaderState
    <2> QED BY <1>3, <1>4, <2>1, <2>2, <2>4, <2>5, ReadOnlyStep
  <1>6. CASE ~fd
    <2> DEFINE me == [rd[r] EXCEPT !.pc = "done", !.ret = Err]
    <2>1. rd' = [rd EXCEPT ![r] = me] /\ cursor' = cursor
      BY <1>2, <1>6 DEF GetSeek
    <2>2. /\ me \in ReaderState /\ me.pc = "done" /\ me.key = rd[r].key /\ me.ret = Err
          /\ me.pc # "reset"
      BY <1>2 DEF ReaderState
    <2> HIDE DEF me
    <2>3. rd'[r] = me
      BY <1>1, <2>1, <2>2, OneReader
    <2>4. diskFaults'
      BY <1>1, <1>4, <1>6 DEF LifeInv, setup
    <2>5. ReaderOK(r)'
      BY <1>3, <1>4, <2>2, <2>3, <2>4 DEF ReaderOK
    <2>6. cursor' \in Nat \cup {Misaligned}
      BY <1>1, <2>1 DEF TypeOK
    <2> QED BY <1>3, <1>4, <2>1, <2>2, <2>5, <2>6, ReadOnlyStep
  <1> QED BY <1>5, <1>6

\* Reading the record: it is the one of the key, with the last value.
LEMMA GetReadStep ==
    ASSUME SingleReader, IInv, UNCHANGED setup, NEW r \in Readers, GetRead(r)
    PROVE  IInv'
  <1>1. TypeOK /\ LifeInv /\ ReaderOK(r) /\ HomeInv
    BY DEF IInv, ReaderInv
  <1>2. /\ rd[r] \in ReaderState /\ rd \in [Readers -> ReaderState] /\ file \in Seq(Record)
        /\ mem \in [Keys -> Values \cup {None}] /\ index \in IndexType
    BY <1>1 DEF TypeOK
  <1>3. /\ rd[r].pc = "read" /\ rd[r].pc # "reset"
        /\ UNCHANGED <<file, synced, buf, split, werr, index, position, fd, mode, scan, mem>>
    BY DEF GetRead, diskVars
  <1> DEFINE k == rd[r].key
  <1>4. /\ mode = "open" /\ k \in Keys /\ index.entries[k].st = "live"
        /\ cursor = index.entries[k].off /\ ~werr /\ buf = <<>> /\ fd
    BY <1>1, <1>3 DEF ReaderOK
  <1>5. cursor \in Nat
    BY <1>2, <1>4 DEF IndexType, IndexEntry
  <1>6. Log = file
    <2>1. Flushed = file
      BY <1>2, <1>4, ConcatEmptySeq DEF Flushed
    <2> QED BY <1>1, <2>1, LogType
  <1>7. cursor < Len(file) /\ file[cursor + 1] = PutRecord(k, mem[k])
    BY <1>1, <1>4, <1>6 DEF HomeInv, PointsHome
  <1>8. Len(file) \in Nat
    BY <1>2, LenProperties
  <1>9. file[cursor + 1].val = mem[k] /\ file[cursor + 1].key = k
    BY <1>7 DEF PutRecord
  <1>10. file[cursor + 1] # Garbage
    BY <1>4, <1>9, RecordFields
  <1>11. Readable(cursor)
    BY <1>5, <1>7, <1>8, <1>10 DEF Readable
  <1> DEFINE me == [rd[r] EXCEPT !.pc = "done", !.ret = mem[k]]
  <1>12. /\ rd' = [rd EXCEPT ![r] = me]
         /\ cursor' \in ((cursor + 1)..Len(file)) \cup {Misaligned}
    BY <1>2, <1>9, <1>11 DEF GetRead
  <1>13. mem[k] \in Values \cup {None}
    BY <1>2, <1>4
  <1>14. /\ me \in ReaderState /\ me.pc = "done" /\ me.key = k /\ me.ret = mem[k] /\ me.pc # "reset"
    BY <1>2, <1>13 DEF ReaderState
  <1> HIDE DEF me
  <1>15. rd'[r] = me
    BY <1>1, <1>12, <1>14, OneReader
  <1>16. ReaderOK(r)'
    <2> HIDE DEF k
    <2> QED BY <1>3, <1>4, <1>14, <1>15 DEF ReaderOK
  <1>17. cursor' \in Nat \cup {Misaligned}
    BY <1>5, <1>8, <1>12
  <1> QED BY <1>3, <1>4, <1>12, <1>14, <1>16, <1>17, ReadOnlyStep

\* Returning.
LEMMA GetReturnStep ==
    ASSUME SingleReader, IInv, UNCHANGED setup, NEW r \in Readers, GetReturn(r)
    PROVE  IInv'
  <1>1. TypeOK /\ ReaderOK(r)
    BY DEF IInv, ReaderInv
  <1>2. /\ rd' = [rd EXCEPT ![r] = Idle] /\ rd[r].pc = "done" /\ rd[r].pc # "reset"
        /\ UNCHANGED <<file, synced, buf, split, werr, index, position, fd, mode, scan, cursor, mem>>
    BY DEF GetReturn, diskVars
  <1>3. Idle \in ReaderState /\ Idle.pc = "idle" /\ Idle.pc # "reset"
    BY DEF Idle, ReaderState
  <1>4. rd'[r] = Idle
    BY <1>1, <1>2, <1>3, OneReader
  <1>5. ReaderOK(r)'
    BY <1>3, <1>4 DEF ReaderOK
  <1>6. mode = "open" /\ cursor' \in Nat \cup {Misaligned}
    BY <1>1, <1>2 DEF ReaderOK, TypeOK
  <1> QED BY <1>2, <1>3, <1>5, <1>6, ReadOnlyStep

\* The write of Flush: the buffered records are in the file, and count once.
LEMMA GetWriteStep ==
    ASSUME SingleReader, IInv, UNCHANGED setup, NEW r \in Readers, GetWrite(r)
    PROVE  IInv'
  <1>1. TypeOK /\ LifeInv /\ ReaderOK(r) /\ HomeInv /\ SyncInv
    BY DEF IInv, ReaderInv
  <1>2. /\ rd[r] \in ReaderState /\ rd \in [Readers -> ReaderState] /\ file \in Seq(Record)
        /\ buf \in Seq(Record) /\ split \in BOOLEAN /\ synced \in Nat /\ werr \in BOOLEAN
    BY <1>1 DEF TypeOK
  <1>3. rd[r].pc = "write" /\ UNCHANGED <<synced, index, position, fd, mode, scan, mem>>
    BY DEF GetWrite
  <1>4. /\ mode = "open" /\ rd[r].key \in Keys /\ index.entries[rd[r].key].st = "live"
        /\ rd[r].off = index.entries[rd[r].key].off /\ ~werr
    BY <1>1, <1>3 DEF ReaderOK
  <1>5. /\ Flushed \in Seq(Record) /\ Len(Flushed) = Len(file) + Len(buf)
        /\ Len(file) \in Nat /\ Len(buf) \in Nat
    BY <1>1, LogType
  <1>6. synced <= Len(file) /\ CountExact(index') /\ (~fd => diskFaults)
    BY <1>1, <1>3, <1>4 DEF IInv, LifeInv, DeletedCountExact, CountExact
  <1>7. CASE /\ fd /\ file' = Flushed /\ split' = FALSE /\ cursor' = Len(Flushed) /\ UNCHANGED werr
             /\ buf' = IF split /\ buf # <<>> THEN <<Garbage>> \o Tail(buf) ELSE buf
             /\ rd' = [rd EXCEPT ![r].pc = "reset"]
    <2> DEFINE me == [rd[r] EXCEPT !.pc = "reset"]
    <2>1. rd' = [rd EXCEPT ![r] = me]
      BY <1>2, <1>7
    <2>2. me \in ReaderState /\ me.pc = "reset" /\ me.key = rd[r].key /\ me.off = rd[r].off
      BY <1>2 DEF ReaderState
    <2> HIDE DEF me
    <2>3. /\ rd' \in [Readers -> ReaderState] /\ rd'[r] = me
          /\ \A s \in Readers : s = r
          /\ ~\E s \in Readers : rd[s].pc = "reset"
          /\ \E s \in Readers : rd'[s].pc = "reset"
      BY <1>1, <1>3, <2>1, <2>2, OneReader
    <2>4. buf' \in Seq(Record)
      <3>1. <<Garbage>> \in Seq(Record)
        BY RecordFields
      <3>2. buf # <<>> => <<Garbage>> \o Tail(buf) \in Seq(Record)
        BY <1>2, <3>1, HeadTailProperties, ConcatProperties
      <3> QED BY <1>2, <1>7, <3>2
    <2>5. file' \in Seq(Record) /\ cursor' \in Nat \cup {Misaligned} /\ split' \in BOOLEAN
      <3>1. Len(Flushed) \in Nat
        BY <1>5
      <3>2. file' \in Seq(Record) /\ cursor' \in Nat
        BY <1>5, <1>7, <3>1, Zenon
      <3>3. split' \in BOOLEAN
        BY <1>7, Zenon
      <3> QED BY <3>2, <3>3
    <2>6. TypeOK'
      BY <1>1, <1>3, <1>7, <2>3, <2>4, <2>5 DEF TypeOK, setup
    <2>7. Log = Flushed /\ Log' = file'
      BY <1>1, <2>3, <2>5, LogType, ConcatEmptySeq DEF Log
    <2>8. Log' = Log
      BY <1>7, <2>7
    <2>9. HomeInv'
      BY <1>1, <1>3, <1>7, <2>8 DEF HomeInv
    <2>10. ReaderInv'
      <3>1. ReaderOK(r)'
        BY <1>3, <1>4, <1>7, <2>2, <2>3 DEF ReaderOK
      <3> QED BY <2>3, <3>1 DEF ReaderInv
    <2>11. SyncInv'
      <3>1. buf = <<>> => Flushed = file /\ buf' = <<>>
        BY <1>2, <1>7, ConcatEmptySeq DEF Flushed
      <3> QED BY <1>1, <1>3, <1>7, <3>1 DEF SyncInv, setup
    <2>12. synced' <= Len(file')
      BY <1>2, <1>3, <1>5, <1>6, <1>7
    <2>13. (~fd' \/ werr') => diskFaults'
      BY <1>3, <1>4, <1>7
    <2> QED BY <1>3, <1>4, <1>6, <2>6, <2>9, <2>10, <2>11, <2>12, <2>13, StaysOpen
  <1>8. CASE FlushFails /\ rd' = [rd EXCEPT ![r].pc = "done", ![r].ret = Err] /\ UNCHANGED cursor
    <2> DEFINE me == [rd[r] EXCEPT !.pc = "done", !.ret = Err]
    <2>1. rd' = [rd EXCEPT ![r] = me]
      BY <1>2, <1>8
    <2>2. me \in ReaderState /\ me.pc = "done" /\ me.key = rd[r].key /\ me.ret = Err
      BY <1>2 DEF ReaderState
    <2> HIDE DEF me
    <2>3. /\ rd' \in [Readers -> ReaderState] /\ rd'[r] = me /\ \A s \in Readers : s = r
      BY <1>1, <2>1, <2>2, OneReader
    <2>4. /\ diskFaults /\ werr' = TRUE /\ split' = FALSE
          /\ file' \in Seq(Record) /\ buf' \in Seq(Record) /\ Len(file) <= Len(file')
      BY <1>1, <1>4, <1>8, FlushFailsDoes
    <2>5. split' \in BOOLEAN /\ werr' \in BOOLEAN
      BY <2>4
    <2>6. TypeOK'
      BY <1>1, <1>3, <1>8, <2>3, <2>4, <2>5 DEF TypeOK, setup
    <2>7. HomeInv' /\ SyncInv' /\ diskFaults'
      BY <2>4 DEF HomeInv, SyncInv, setup
    <2>8. ReaderInv'
      <3>1. ReaderOK(r)'
        BY <1>3, <1>4, <2>2, <2>3, <2>7 DEF ReaderOK
      <3> QED BY <2>3, <3>1 DEF ReaderInv
    <2>9. synced' <= Len(file')
      <3>1. Len(file') \in Nat
        BY <2>4, LenProperties
      <3> QED BY <1>2, <1>3, <1>5, <1>6, <2>4, <3>1
    <2> QED BY <1>3, <1>4, <1>6, <2>6, <2>7, <2>8, <2>9, StaysOpen
  <1> QED BY <1>7, <1>8 DEF GetWrite

\* Emptying the buffer after the write.
LEMMA GetResetStep ==
    ASSUME SingleReader, IInv, UNCHANGED setup, NEW r \in Readers, GetReset(r)
    PROVE  IInv'
  <1>1. TypeOK /\ LifeInv /\ ReaderOK(r) /\ HomeInv /\ SyncInv
    BY DEF IInv, ReaderInv
  <1>2. rd[r] \in ReaderState /\ rd \in [Readers -> ReaderState] /\ file \in Seq(Record)
    BY <1>1 DEF TypeOK
  <1>3. /\ rd[r].pc = "reset" /\ buf' = <<>>
        /\ UNCHANGED <<file, synced, split, werr, index, position, fd, mode, scan, cursor, mem>>
    BY DEF GetReset
  <1>4. /\ mode = "open" /\ rd[r].key \in Keys /\ index.entries[rd[r].key].st = "live"
        /\ rd[r].off = index.entries[rd[r].key].off /\ ~werr
    BY <1>1, <1>3 DEF ReaderOK
  <1> DEFINE me == [rd[r] EXCEPT !.pc = "seek"]
  <1>5. rd' = [rd EXCEPT ![r] = me]
    BY <1>2 DEF GetReset
  <1>6. me \in ReaderState /\ me.pc = "seek" /\ me.key = rd[r].key /\ me.off = rd[r].off
    BY <1>2 DEF ReaderState
  <1> HIDE DEF me
  <1>7. /\ rd' \in [Readers -> ReaderState] /\ rd'[r] = me
        /\ \A s \in Readers : s = r
        /\ \E s \in Readers : rd[s].pc = "reset"
        /\ ~\E s \in Readers : rd'[s].pc = "reset"
    BY <1>1, <1>3, <1>5, <1>6, OneReader
  <1>8. buf' \in Seq(Record)
    BY <1>3
  <1>9. TypeOK'
    BY <1>1, <1>3, <1>7, <1>8 DEF TypeOK, setup
  <1>10. Log' = Log
    <2>1. Log = file \o <<>> /\ Log' = file \o <<>>
      BY <1>3, <1>7 DEF Log
    <2> QED BY <2>1
  <1>11. HomeInv'
    BY <1>1, <1>3, <1>10 DEF HomeInv
  <1>12. ReaderInv'
    <2>1. ReaderOK(r)'
      BY <1>3, <1>4, <1>6, <1>7 DEF ReaderOK
    <2> QED BY <1>7, <2>1 DEF ReaderInv
  <1>13. SyncInv' /\ synced' <= Len(file') /\ ((~fd' \/ werr') => diskFaults')
    BY <1>1, <1>3, <1>4 DEF SyncInv, LifeInv, setup
  <1>14. CountExact(index')
    BY <1>3 DEF IInv, DeletedCountExact, CountExact
  <1> QED BY <1>3, <1>4, <1>9, <1>11, <1>12, <1>13, <1>14, StaysOpen

\* Gets that run at the same time while every write is in the file at once.
LEMMA ConcurrentGetStep ==
    ASSUME ~SingleReader, WrittenAtOnce, IInv, UNCHANGED setup, NEW r \in Readers, GetSteps(r)
    PROVE  IInv'
  <1>1. /\ TypeOK /\ LifeInv /\ HomeInv /\ SyncInv /\ RebuildInv /\ DeletedCountExact
        /\ buf = <<>> /\ ~werr
    BY DEF IInv, SyncInv, WrittenAtOnce
  <1>2. /\ rd \in [Readers -> ReaderState] /\ rd[r] \in ReaderState /\ file \in Seq(Record)
        /\ cursor \in Nat \cup {Misaligned} /\ index \in IndexType /\ Len(file) \in Nat
    BY <1>1, LenProperties DEF TypeOK
  <1>3. /\ \A q \in Readers : rd[q].pc \notin {"write", "reset"}
        /\ \A q \in Readers : rd[q].pc # "idle" => mode = "open"
    BY DEF IInv, ReaderInv
  <1>4. SUFFICES /\ UNCHANGED <<file, synced, buf, split, werr, index, position, fd, mode, scan, mem>>
                 /\ cursor' \in Nat \cup {Misaligned} /\ mode = "open"
                 /\ \E me \in ReaderState : /\ rd' = [rd EXCEPT ![r] = me]
                                           /\ me.pc \notin {"write", "reset"}
    <2>1. PICK me \in ReaderState : rd' = [rd EXCEPT ![r] = me] /\ me.pc \notin {"write", "reset"}
      BY <1>4
    <2>2. /\ rd' \in [Readers -> ReaderState]
          /\ \A q \in Readers : rd'[q].pc \notin {"write", "reset"}
      BY <1>2, <1>3, <2>1
    <2>3. TypeOK'
      BY <1>1, <1>4, <2>2 DEF TypeOK, setup
    <2>4. Log' = Log
      BY <1>3, <1>4, <2>2 DEF Log
    <2>5. HomeInv'
      BY <1>1, <1>4, <2>4 DEF HomeInv
    <2>6. LifeInv' /\ SyncInv' /\ RebuildInv' /\ DeletedCountExact'
      BY <1>1, <1>4 DEF LifeInv, SyncInv, RebuildInv, DeletedCountExact, setup
    <2>7. ReaderInv'
      BY <1>4, <2>2 DEF ReaderInv
    <2> QED BY <2>3, <2>5, <2>6, <2>7 DEF IInv
  <1>5. CASE \E k \in Keys : GetLookup(r, k)
    <2>1. PICK k \in Keys : GetLookup(r, k)
      BY <1>5
    <2> DEFINE me == [pc |-> "flush", key |-> k, off |-> index.entries[k].off, ret |-> None]
    <2>2. me \in ReaderState /\ me.pc = "flush"
      BY <1>2 DEF ReaderState, IndexType, IndexEntry
    <2>3. rd' = [rd EXCEPT ![r] = me]
      BY <2>1 DEF GetLookup
    <2> HIDE DEF me
    <2> QED BY <1>2, <2>1, <2>2, <2>3 DEF GetLookup, diskVars
  <1>6. CASE GetFlush(r)
    <2> DEFINE me == [rd[r] EXCEPT !.pc = "seek"]
    <2>1. rd[r].pc = "flush" /\ mode = "open"
      BY <1>3, <1>6 DEF GetFlush
    <2>2. me \in ReaderState /\ me.pc = "seek"
      BY <1>2 DEF ReaderState
    <2>3. rd' = [rd EXCEPT ![r].pc = "seek", ![r].ret = @]
      BY <1>1, <1>6 DEF GetFlush
    <2>4. rd' = [rd EXCEPT ![r] = me]
      BY <1>2, <2>3 DEF ReaderState
    <2> HIDE DEF me
    <2> QED BY <1>2, <1>6, <2>1, <2>2, <2>4 DEF GetFlush, diskVars
  <1>7. CASE GetSeek(r)
    <2>1. rd[r].pc = "seek" /\ mode = "open"
      BY <1>3, <1>7 DEF GetSeek
    <2>2. fd
      BY <1>1, <2>1 DEF LifeInv, WrittenAtOnce
    <2> DEFINE me == [rd[r] EXCEPT !.pc = "read"]
    <2>3. me \in ReaderState /\ me.pc = "read" /\ rd[r].off \in Nat
      BY <1>2 DEF ReaderState
    <2>4. rd' = [rd EXCEPT ![r] = me] /\ cursor' = rd[r].off
      BY <1>2, <1>7, <2>2 DEF GetSeek
    <2> HIDE DEF me
    <2> QED BY <1>7, <2>1, <2>3, <2>4 DEF GetSeek, diskVars
  <1>8. CASE GetRead(r)
    <2>1. rd[r].pc = "read" /\ mode = "open"
      BY <1>3, <1>8 DEF GetRead
    <2>2. \E ret \in Values \cup {None, Err} : rd' = [rd EXCEPT ![r].pc = "done", ![r].ret = ret]
      <3>1. CASE Readable(cursor)
        <4>1. cursor + 1 \in 1..Len(file)
          BY <1>2, <3>1 DEF Readable
        <4>2. file[cursor + 1] \in Record
          BY <1>2, <4>1, ElementOfSeq
        <4>3. file[cursor + 1].val \in Values \cup {None}
          BY <4>2, RecordFields DEF Garbage
        <4> QED BY <1>8, <3>1, <4>3 DEF GetRead
      <3>2. CASE ~Readable(cursor)
        BY <1>8, <3>2 DEF GetRead
      <3> QED BY <3>1, <3>2
    <2>3. PICK ret \in Values \cup {None, Err} : rd' = [rd EXCEPT ![r].pc = "done", ![r].ret = ret]
      BY <2>2
    <2> DEFINE me == [rd[r] EXCEPT !.pc = "done", !.ret = ret]
    <2>4. me \in ReaderState /\ me.pc = "done"
      BY <1>2 DEF ReaderState
    <2>5. rd' = [rd EXCEPT ![r] = me]
      BY <1>2, <2>3
    <2>6. cursor' \in Nat \cup {Misaligned}
      BY <1>2, <1>8 DEF GetRead, Readable
    <2> HIDE DEF me
    <2> QED BY <1>8, <2>1, <2>4, <2>5, <2>6 DEF GetRead, diskVars
  <1>9. CASE GetReturn(r)
    <2>1. Idle \in ReaderState /\ Idle.pc = "idle"
      BY DEF Idle, ReaderState
    <2> QED BY <1>2, <1>3, <1>9, <2>1 DEF GetReturn, diskVars
  <1>10. ~GetWrite(r) /\ ~GetReset(r)
    BY <1>3 DEF GetWrite, GetReset
  <1> QED BY <1>5, <1>6, <1>7, <1>8, <1>9, <1>10 DEF GetSteps

-----------------------------------------------------------------------------
(***************************************************************************)
(* Compaction.                                                             *)
(***************************************************************************)

\* The index finds in the log exactly the map.
LEMMA HomeVisible ==
    ASSUME NEW idx \in IndexType, NEW log, NEW m \in [Keys -> Values \cup {None}],
           PointsHome(idx, log, m)
    PROVE  Visible(idx, log) = m
  <1>1. ASSUME NEW k \in Keys PROVE Visible(idx, log)[k] = m[k]
    <2>1. CASE idx.entries[k].st = "live"
      <3>1. log[idx.entries[k].off + 1] = PutRecord(k, m[k])
        BY <2>1 DEF PointsHome
      <3>2. log[idx.entries[k].off + 1].val = m[k]
        BY <3>1 DEF PutRecord
      <3> QED BY <2>1, <3>2 DEF Visible
    <2>2. CASE idx.entries[k].st # "live"
      BY <2>2 DEF Visible, PointsHome
    <2> QED BY <2>1, <2>2
  <1>2. Visible(idx, log) = [k \in Keys |-> Visible(idx, log)[k]]
    BY DEF Visible
  <1> QED BY <1>1, <1>2

\* A live key holds a value.
LEMMA LiveHasValue ==
    ASSUME NEW idx \in IndexType, NEW log \in Seq(Record), NEW m \in [Keys -> Values \cup {None}],
           PointsHome(idx, log, m), NEW k \in Keys, idx.entries[k].st = "live"
    PROVE  m[k] \in Values
  <1> DEFINE off == idx.entries[k].off
             rec == log[off + 1]
  <1>1. off \in Nat /\ off < Len(log) /\ rec = PutRecord(k, m[k])
    BY DEF PointsHome, IndexType, IndexEntry
  <1>2. Len(log) \in Nat
    BY LenProperties
  <1>3. rec \in Record
    BY <1>1, <1>2, ElementOfSeq
  <1>4. rec.key = k /\ rec.val = m[k] /\ rec.del = FALSE
    BY <1>1 DEF PutRecord
  <1> HIDE DEF rec
  <1>5. rec # Garbage
    BY <1>4, RecordFields
  <1>6. rec.del # TRUE
    BY <1>4
  <1>7. rec.val \in Values
    BY <1>3, <1>5, <1>6, RecordFields, Zenon
  <1> QED BY <1>4, <1>7

\* The compacted file holds one record for each live key, where the new index
\* says, and nothing else.
LEMMA CompactedDoes ==
    ASSUME TypeOK, HomeInv, Exclusive, ~werr, CopyReadable, NEW order \in CopyOrders
    PROVE  /\ Compacted(order) \in Seq(Record) /\ Len(Compacted(order)) = Len(order)
           /\ Len(order) \in Nat
           /\ CompactedIndex(order) \in IndexType /\ CountExact(CompactedIndex(order))
           /\ PointsHome(CompactedIndex(order), Compacted(order), mem)
           /\ MapOf(Compacted(order)) = mem
  <1> DEFINE live == LiveKeys(index)
             n == Cardinality(live)
             new == Compacted(order)
             idx == CompactedIndex(order)
  <1>1. index \in IndexType /\ mem \in [Keys -> Values \cup {None}] /\ mode = "open"
    BY DEF TypeOK, Exclusive
  <1>2. n \in Nat
    BY KeysFinite, FS_Subset, FS_CardinalityType DEF LiveKeys
  <1>3. order \in [1..n -> live] /\ \A k \in live : \E i \in 1..n : order[i] = k
    <2>1. order \in [1..n -> live] /\ {order[i] : i \in DOMAIN order} = live
      BY DEF CopyOrders
    <2> QED BY <2>1
  <1>4. \A k \in Keys : k \in live <=> index.entries[k].st = "live"
    BY DEF LiveKeys
  <1>5. live \subseteq Keys
    BY DEF LiveKeys
  <1>6. DOMAIN order = 1..n
    BY <1>3
  <1>7. Len(order) = n
    BY <1>2, <1>3
  <1> HIDE DEF n
  <1>8. ASSUME NEW k \in live
        PROVE  Flushed[index.entries[k].off + 1].val = mem[k] /\ mem[k] \in Values
    <2>1. fd
      BY <1>8 DEF CopyReadable
    <2>2. PointsHome(index, Log, mem)
      BY <1>1, <2>1 DEF HomeInv
    <2>3. Log = Flushed
      <3>1. ~\E r \in Readers : rd[r].pc = "reset"
        BY DEF Exclusive
      <3> QED BY <3>1 DEF Log, Flushed
    <2>4. Log \in Seq(Record)
      BY LogType
    <2>5. Log[index.entries[k].off + 1] = PutRecord(k, mem[k])
      BY <1>4, <1>5, <2>2 DEF PointsHome
    <2>6. mem[k] \in Values
      BY <1>1, <1>4, <1>5, <2>2, <2>4, LiveHasValue
    <2> QED BY <2>3, <2>5, <2>6 DEF PutRecord
  <1> HIDE DEF live
  <1>9. new = [i \in 1..n |-> PutRecord(order[i], mem[order[i]])]
    BY <1>3, <1>6, <1>8 DEF Compacted
  <1>10. \A i \in 1..n : PutRecord(order[i], mem[order[i]]) \in Record
    BY <1>3, <1>5, <1>8, RecordFields
  <1>11. new \in Seq(Record) /\ Len(new) = n
    BY <1>2, <1>9, <1>10
  <1>12. \A i \in 1..n : new[i] = PutRecord(order[i], mem[order[i]]) /\ new[i].key = order[i]
    BY <1>9 DEF PutRecord
  <1> HIDE DEF new
  <1>13. ASSUME NEW k \in live
         PROVE  LET i == CHOOSE i \in DOMAIN order : order[i] = k
                IN  i \in 1..n /\ order[i] = k
    BY <1>3, <1>6
  <1>14. /\ \A k \in Keys : k \in live =>
               /\ idx.entries[k].st = "live" /\ idx.entries[k].off + 1 \in 1..n
               /\ idx.entries[k].off \in Nat /\ order[idx.entries[k].off + 1] = k
         /\ \A k \in Keys : k \notin live => idx.entries[k] = NoEntry
         /\ idx.deleted = 0 /\ idx.active = n /\ DOMAIN idx.entries = Keys
         /\ idx = [entries |-> idx.entries, active |-> idx.active, deleted |-> idx.deleted]
         /\ idx.entries = [k \in Keys |-> idx.entries[k]]
         /\ \A k \in Keys : idx.entries[k] \in IndexEntry
    <2>1. ASSUME NEW k \in Keys, k \in live
          PROVE  /\ idx.entries[k].st = "live" /\ idx.entries[k].off + 1 \in 1..n
                 /\ idx.entries[k].off \in Nat /\ order[idx.entries[k].off + 1] = k
                 /\ idx.entries[k] \in IndexEntry
      <3> DEFINE i == CHOOSE i \in DOMAIN order : order[i] = k
      <3>1. i \in 1..n /\ order[i] = k
        BY <1>13, <2>1
      <3>2. idx.entries[k] = [st |-> "live", off |-> i - 1]
        BY <2>1 DEF CompactedIndex, live
      <3> HIDE DEF i
      <3>3. i - 1 \in Nat /\ (i - 1) + 1 = i
        BY <1>2, <3>1
      <3> QED BY <3>1, <3>2, <3>3 DEF IndexEntry
    <2>2. ASSUME NEW k \in Keys, k \notin live
          PROVE  idx.entries[k] = NoEntry /\ idx.entries[k] \in IndexEntry
      <3>1. idx.entries[k] = NoEntry
        BY <2>2 DEF CompactedIndex, live
      <3> QED BY <3>1 DEF NoEntry, IndexEntry
    <2>3. /\ idx.deleted = 0 /\ idx.active = n
          /\ idx = [entries |-> idx.entries, active |-> idx.active, deleted |-> idx.deleted]
          /\ idx.entries = [k \in Keys |-> idx.entries[k]] /\ DOMAIN idx.entries = Keys
      BY <1>7 DEF CompactedIndex
    <2> QED BY <2>1, <2>2, <2>3
  <1> HIDE DEF idx
  <1>15. idx \in IndexType
    BY <1>2, <1>14 DEF IndexType
  <1>16. CountExact(idx)
    <2>1. DeadKeys(idx) = {}
      BY <1>14 DEF DeadKeys, NoEntry
    <2> QED BY <1>14, <2>1, FS_EmptySet DEF CountExact
  <1>17. \A k \in Keys : k \notin live => mem[k] = None
    BY <1>1, <1>4 DEF HomeInv
  <1>18. PointsHome(idx, new, mem)
    <2> SUFFICES ASSUME NEW k \in Keys
                 PROVE  IF idx.entries[k].st = "live"
                        THEN idx.entries[k].off < Len(new) /\ new[idx.entries[k].off + 1] = PutRecord(k, mem[k])
                        ELSE mem[k] = None
      BY DEF PointsHome
    <2>1. CASE k \in live
      <3> DEFINE off == idx.entries[k].off
      <3>1. idx.entries[k].st = "live" /\ off + 1 \in 1..n /\ off \in Nat /\ order[off + 1] = k
        BY <1>14, <2>1
      <3> HIDE DEF off
      <3>2. off < n
        BY <1>2, <3>1
      <3>3. new[off + 1] = PutRecord(k, mem[k])
        BY <1>12, <3>1
      <3> QED BY <1>11, <3>1, <3>2, <3>3 DEF off
    <2>2. CASE k \notin live
      BY <1>14, <1>17, <2>2 DEF NoEntry
    <2> QED BY <2>1, <2>2
  <1>19. MapOf(new) = mem
    <2>1. ASSUME NEW k \in Keys PROVE MapOf(new)[k] = mem[k]
      <3>1. CASE \A i \in 1..Len(new) : new[i].key # k
        <4>1. k \notin live
          BY <1>3, <1>11, <1>12, <3>1
        <4> QED BY <1>11, <1>17, <3>1, <4>1, MapOfNone
      <3>2. CASE \E i \in 1..Len(new) : LastOf(new, k, i)
        <4>1. PICK i \in 1..Len(new) : LastOf(new, k, i)
          BY <3>2
        <4>2. new[i].key = k
          BY <4>1 DEF LastOf
        <4>3. new[i] = PutRecord(k, mem[k])
          BY <1>11, <1>12, <4>2
        <4>4. new[i].val = mem[k]
          BY <4>3 DEF PutRecord
        <4> QED BY <1>11, <4>1, <4>4, MapOfLast
      <3> QED BY <1>11, <3>1, <3>2, LastExists
    <2> QED BY <1>1, <1>11, <2>1, MapOfType
  <1> QED BY <1>2, <1>7, <1>11, <1>15, <1>16, <1>18, <1>19 DEF new, idx

\* Compact.
LEMMA CompactStep ==
    ASSUME IInv, UNCHANGED setup, Compact
    PROVE  IInv'
  <1>1. TypeOK /\ LifeInv /\ HomeInv /\ mode = "open"
    BY DEF IInv, Compact, Exclusive
  <1>2. /\ Exclusive /\ ~werr /\ CopyReadable /\ buf' = <<>> /\ split' = FALSE /\ fd' = TRUE
        /\ UNCHANGED <<werr, mode, scan, cursor, rd, mem>>
    BY DEF Compact
  <1>3. PICK order \in CopyOrders :
           /\ file' = Compacted(order) /\ index' = CompactedIndex(order)
           /\ position' = Len(order) /\ synced' = Len(order)
    BY DEF Compact
  <1>4. /\ file' \in Seq(Record) /\ Len(file') = Len(order) /\ Len(order) \in Nat
        /\ index' \in IndexType /\ CountExact(index')
        /\ PointsHome(index', file', mem) /\ MapOf(file') = mem
    BY <1>1, <1>2, <1>3, CompactedDoes
  <1>5. Log' = file'
    <2>1. Log' = file' \o <<>>
      BY <1>2, LogExclusive
    <2> QED BY <1>4, <2>1, ConcatEmptySeq
  <1>6. TypeOK'
    <2>1. /\ syncWrite' \in BOOLEAN /\ diskFaults' \in BOOLEAN /\ werr' \in BOOLEAN
          /\ mode' \in {"open", "closed", "down", "rebuild", "failed"} /\ scan' \in Nat
          /\ cursor' \in Nat \cup {Misaligned} /\ rd' \in [Readers -> ReaderState]
          /\ mem' \in [Keys -> Values \cup {None}]
      BY <1>1, <1>2 DEF TypeOK, setup
    <2>2. buf' \in Seq(Record) /\ position' \in Nat /\ synced' \in Nat
      BY <1>2, <1>3, <1>4
    <2>3. split' \in BOOLEAN /\ fd' \in BOOLEAN
      BY <1>2
    <2> QED BY <1>4, <2>1, <2>2, <2>3 DEF TypeOK
  <1>7. HomeInv'
    <2>1. \A k \in Keys : index'.entries[k].st # "live" => mem'[k] = None
      BY <1>2, <1>4 DEF PointsHome
    <2>2. PointsHome(index', Log', mem') /\ position' = Len(Log')
      BY <1>2, <1>3, <1>4, <1>5
    <2> QED BY <2>1, <2>2 DEF HomeInv
  <1>8. SyncInv'
    BY <1>2, <1>3, <1>4 DEF SyncInv
  <1>9. ReaderInv'
    <2>1. \A r \in Readers : rd'[r].pc = "idle"
      BY <1>2 DEF Exclusive
    <2> QED BY <2>1, ReadersIdle
  <1>10. synced' <= Len(file') /\ ((~fd' \/ werr') => diskFaults')
    BY <1>2, <1>3, <1>4
  <1> QED BY <1>1, <1>2, <1>4, <1>6, <1>7, <1>8, <1>9, <1>10, StaysOpen

\* Compact that fails: the index still fits, or the file is closed.
LEMMA CompactFailsStep ==
    ASSUME IInv, UNCHANGED setup, CompactFails
    PROVE  IInv'
  <1>1. TypeOK /\ LifeInv /\ HomeInv /\ SyncInv /\ mode = "open" /\ synced <= Len(file)
    BY DEF IInv, CompactFails, Exclusive, LifeInv
  <1>2. Exclusive /\ UNCHANGED <<index, position, mode, scan, cursor, rd, mem>>
    BY DEF CompactFails
  <1>3. file \in Seq(Record) /\ buf \in Seq(Record) /\ synced \in Nat /\ Len(file) \in Nat
    BY <1>1, LenProperties DEF TypeOK
  <1>4. /\ syncWrite' \in BOOLEAN /\ diskFaults' \in BOOLEAN
        /\ mode' \in {"open", "closed", "down", "rebuild", "failed"} /\ scan' \in Nat
        /\ cursor' \in Nat \cup {Misaligned} /\ rd' \in [Readers -> ReaderState]
        /\ index' \in IndexType /\ mem' \in [Keys -> Values \cup {None}] /\ position' \in Nat
    BY <1>1, <1>2 DEF TypeOK, setup
  <1>5. ReaderInv'
    <2>1. \A r \in Readers : rd'[r].pc = "idle"
      BY <1>2 DEF Exclusive
    <2> QED BY <2>1, ReadersIdle
  <1>6. CountExact(index')
    BY <1>2 DEF IInv, DeletedCountExact, CountExact
  <1>7. ~werr => \A k \in Keys : index'.entries[k].st # "live" => mem'[k] = None
    BY <1>1, <1>2 DEF HomeInv
  <1>8. CASE FlushFails /\ UNCHANGED <<synced, fd>>
    <2>1. /\ diskFaults /\ werr' = TRUE /\ split' = FALSE
          /\ file' \in Seq(Record) /\ buf' \in Seq(Record) /\ Len(file) <= Len(file')
      BY <1>1, <1>8, FlushFailsDoes
    <2>2. split' \in BOOLEAN /\ werr' \in BOOLEAN /\ fd' \in BOOLEAN /\ synced' \in Nat
      BY <1>1, <1>8, <2>1 DEF TypeOK
    <2>3. TypeOK'
      BY <1>4, <2>1, <2>2 DEF TypeOK
    <2>4. HomeInv' /\ SyncInv' /\ diskFaults'
      BY <2>1 DEF HomeInv, SyncInv, setup
    <2>5. synced' <= Len(file')
      <3>1. Len(file') \in Nat
        BY <2>1, LenProperties
      <3> QED BY <1>1, <1>3, <1>8, <2>1, <3>1
    <2> QED BY <1>1, <1>2, <1>5, <1>6, <2>3, <2>4, <2>5, StaysOpen
  <1>9. CASE FlushOk /\ UNCHANGED synced /\ (UNCHANGED fd \/ (diskFaults /\ fd' = FALSE))
    <2>1. /\ ~werr /\ ~werr' /\ split' = FALSE /\ buf' = <<>> /\ file' = Flushed
          /\ file' \in Seq(Record) /\ buf' \in Seq(Record) /\ Len(file) <= Len(file')
          /\ file' \o buf' = Flushed
      BY <1>1, <1>9, FlushOkDoes
    <2>2. split' \in BOOLEAN /\ werr' \in BOOLEAN
      BY <1>1, <1>9, <2>1 DEF FlushOk, TypeOK
    <2>3. fd' \in BOOLEAN /\ synced' \in Nat
      BY <1>1, <1>9 DEF TypeOK
    <2>4. TypeOK'
      BY <1>4, <2>1, <2>2, <2>3 DEF TypeOK
    <2>5. Log' = Log
      BY <1>2, <2>1, LogExclusive
    <2>6. HomeInv'
      <3>1. fd' => PointsHome(index', Log', mem') /\ position' = Len(Log')
        BY <1>1, <1>2, <1>9, <2>1, <2>5 DEF HomeInv
      <3> QED BY <1>7, <2>1, <3>1 DEF HomeInv
    <2>7. SyncInv'
      <3> SUFFICES ASSUME syncWrite, ~diskFaults
                   PROVE  buf' = <<>> /\ ~split' /\ ~werr' /\ synced' = Len(file') /\ mem' = MapOf(file')
        BY DEF SyncInv, setup
      <3>1. buf = <<>> /\ synced = Len(file) /\ mem = MapOf(file)
        BY <1>1 DEF SyncInv
      <3>2. file' = file
        BY <1>3, <2>1, <3>1, ConcatEmptySeq DEF Flushed
      <3> QED BY <1>2, <1>9, <2>1, <3>1, <3>2
    <2>8. synced' <= Len(file')
      <3>1. Len(file') \in Nat
        BY <2>1, LenProperties
      <3> QED BY <1>1, <1>3, <1>9, <2>1, <3>1
    <2>9. (~fd' \/ werr') => diskFaults'
      BY <1>1, <1>9, <2>1 DEF LifeInv, setup
    <2> QED BY <1>1, <1>2, <1>5, <1>6, <2>4, <2>6, <2>7, <2>8, <2>9, StaysOpen
  <1>10. CASE /\ ~werr /\ diskFaults /\ CopyReadable
              /\ \E order \in CopyOrders : file' = Compacted(order) /\ synced' = Len(order)
              /\ buf' = <<>> /\ split' = FALSE /\ fd' = FALSE /\ UNCHANGED werr
    <2>1. PICK order \in CopyOrders : file' = Compacted(order) /\ synced' = Len(order)
      BY <1>10
    <2>2. file' \in Seq(Record) /\ synced' = Len(file') /\ synced' \in Nat
      BY <1>1, <1>2, <1>10, <2>1, CompactedDoes
    <2>3. split' \in BOOLEAN /\ fd' \in BOOLEAN /\ buf' \in Seq(Record)
      <3>1. split' \in BOOLEAN /\ fd' \in BOOLEAN
        BY <1>10, Zenon
      <3>2. buf' \in Seq(Record)
        BY <1>10, EmptySeq, Zenon
      <3> QED BY <3>1, <3>2
    <2>4. werr' \in BOOLEAN
      BY <1>1, <1>10 DEF TypeOK
    <2>5. TypeOK'
      BY <1>4, <2>2, <2>3, <2>4 DEF TypeOK
    <2>6. HomeInv'
      BY <1>7, <1>10 DEF HomeInv
    <2>7. SyncInv' /\ diskFaults'
      BY <1>10 DEF SyncInv, setup
    <2>8. synced' <= Len(file')
      BY <2>2
    <2> QED BY <1>1, <1>2, <1>5, <1>6, <2>5, <2>6, <2>7, <2>8, StaysOpen
  <1>11. \/ FlushFails /\ UNCHANGED <<synced, fd>>
         \/ FlushOk /\ UNCHANGED synced /\ (UNCHANGED fd \/ (diskFaults /\ fd' = FALSE))
         \/ /\ ~werr /\ diskFaults /\ CopyReadable
            /\ \E order \in CopyOrders : file' = Compacted(order) /\ synced' = Len(order)
            /\ buf' = <<>> /\ split' = FALSE /\ fd' = FALSE /\ UNCHANGED werr
    BY DEF CompactFails
  <1> QED BY <1>8, <1>9, <1>10, <1>11

-----------------------------------------------------------------------------
(***************************************************************************)
(* Crash and recovery.                                                     *)
(***************************************************************************)

\* A process that ends leaves its file, and nothing else.
LEMMA EndsStep ==
    ASSUME IInv, UNCHANGED setup, ProcessEnds, mode' \in {"down", "failed"}, mem' = mem,
           file' \in Seq(Record), synced' \in Nat, synced' <= Len(file'),
           (syncWrite /\ ~diskFaults) => (file' = file /\ synced' = Len(file'))
    PROVE  IInv'
  <1>1. /\ buf' = <<>> /\ split' = FALSE /\ werr' = FALSE /\ index' = NewIndex /\ position' = 0
        /\ fd' = FALSE /\ scan' = 0 /\ cursor' = 0 /\ rd' = [r \in Readers |-> Idle]
    BY DEF ProcessEnds
  <1>2. NewIndex \in IndexType /\ CountExact(NewIndex)
    BY NewIndexOK
  <1>3. Idle \in ReaderState /\ Idle.pc = "idle"
    BY DEF Idle, ReaderState
  <1>4. rd' \in [Readers -> ReaderState] /\ \A r \in Readers : rd'[r].pc = "idle"
    BY <1>1, <1>3
  <1>5. /\ split' \in BOOLEAN /\ werr' \in BOOLEAN /\ fd' \in BOOLEAN
    BY <1>1
  <1>6. /\ buf' \in Seq(Record) /\ position' \in Nat /\ scan' \in Nat
        /\ cursor' \in Nat \cup {Misaligned}
    BY <1>1
  <1>7. /\ syncWrite' \in BOOLEAN /\ diskFaults' \in BOOLEAN
        /\ mem' \in [Keys -> Values \cup {None}]
        /\ mode' \in {"open", "closed", "down", "rebuild", "failed"} /\ index' \in IndexType
    BY <1>1, <1>2 DEF IInv, TypeOK, setup
  <1>8. TypeOK'
    BY <1>4, <1>5, <1>6, <1>7 DEF TypeOK
  <1>9. LifeInv' /\ HomeInv' /\ RebuildInv'
    BY <1>1 DEF LifeInv, HomeInv, RebuildInv
  <1>10. SyncInv'
    BY <1>1 DEF IInv, SyncInv, setup
  <1>11. DeletedCountExact'
    BY <1>1, <1>2 DEF DeletedCountExact, CountExact
  <1>12. ReaderInv'
    BY <1>4, ReadersIdle
  <1> QED BY <1>8, <1>9, <1>10, <1>11, <1>12 DEF IInv

\* A killed process, or one that exits.
LEMMA KillStep ==
    ASSUME IInv, UNCHANGED setup, Kill
    PROVE  IInv'
  <1>1. /\ file \in Seq(Record) /\ split \in BOOLEAN /\ synced \in Nat /\ synced <= Len(file)
        /\ SyncInv
    BY DEF IInv, TypeOK, LifeInv
  <1>2. file' = file \o TornTail(split) /\ ProcessEnds /\ mode' = "down" /\ UNCHANGED <<synced, mem>>
    BY DEF Kill
  <1>3. TornTail(split) \in Seq(Record) /\ Len(TornTail(split)) \in Nat
    BY <1>1, TornTailProps
  <1>4. file' \in Seq(Record) /\ Len(file') = Len(file) + Len(TornTail(split)) /\ Len(file) \in Nat
    BY <1>1, <1>2, <1>3, ConcatProperties, LenProperties
  <1>5. synced' \in Nat /\ synced' <= Len(file')
    BY <1>1, <1>2, <1>3, <1>4
  <1>6. ASSUME syncWrite, ~diskFaults PROVE file' = file /\ synced' = Len(file')
    <2>1. ~split /\ synced = Len(file)
      BY <1>1, <1>6 DEF SyncInv
    <2>2. TornTail(split) = <<>>
      BY <2>1 DEF TornTail
    <2>3. file' = file
      BY <1>1, <1>2, <2>2, ConcatEmptySeq
    <2> QED BY <1>2, <2>1, <2>3
  <1> QED BY <1>2, <1>4, <1>5, <1>6, EndsStep

\* A machine that stops.
LEMMA PowerLossStep ==
    ASSUME IInv, UNCHANGED setup, PowerLoss
    PROVE  IInv'
  <1>1. /\ file \in Seq(Record) /\ split \in BOOLEAN /\ synced \in Nat /\ synced <= Len(file)
        /\ SyncInv /\ Len(file) \in Nat
    BY LenProperties DEF IInv, TypeOK, LifeInv
  <1>2. ProcessEnds /\ mode' = "down" /\ UNCHANGED mem
    BY DEF PowerLoss
  <1>3. PICK n \in synced..Len(file), torn \in BOOLEAN :
           /\ torn => n < Len(file) \/ split
           /\ file' = SubSeq(file, 1, n) \o TornTail(torn)
           /\ synced' = Len(file')
    BY DEF PowerLoss
  <1>4. n \in 0..Len(file)
    BY <1>1
  <1>5. SubSeq(file, 1, n) \in Seq(Record) /\ TornTail(torn) \in Seq(Record)
    BY <1>1, <1>4, PrefixProps, TornTailProps
  <1>6. file' \in Seq(Record)
    BY <1>3, <1>5, ConcatProperties
  <1>7. synced' \in Nat /\ synced' <= Len(file')
    <2>1. Len(file') \in Nat
      BY <1>6, LenProperties
    <2> QED BY <1>3, <2>1
  <1>8. ASSUME syncWrite, ~diskFaults PROVE file' = file /\ synced' = Len(file')
    <2>1. ~split /\ synced = Len(file)
      BY <1>1, <1>8 DEF SyncInv
    <2>2. n = Len(file)
      BY <1>1, <2>1
    <2>3. ~torn
      BY <1>1, <1>3, <2>1, <2>2
    <2>4. TornTail(torn) = <<>>
      BY <2>3 DEF TornTail
    <2>5. SubSeq(file, 1, n) = file
      BY <1>1, <2>2, SubSeqFull
    <2>6. file' = file
      BY <1>1, <1>3, <2>4, <2>5, ConcatEmptySeq
    <2> QED BY <1>3, <2>6
  <1> QED BY <1>2, <1>6, <1>7, <1>8, EndsStep

\* An engine that is not open serves nobody.
LEMMA NobodyReads ==
    ASSUME IInv, mode # "open"
    PROVE  \A r \in Readers : rd[r].pc = "idle"
  BY DEF IInv, ReaderInv, ReaderOK

\* Opening the file.
LEMMA OpenStep ==
    ASSUME IInv, UNCHANGED setup, Open
    PROVE  IInv'
  <1>1. /\ mode \in {"down", "failed"} /\ mode' = "rebuild" /\ position' = Len(file) /\ fd' = TRUE
        /\ cursor' = Len(file)
        /\ UNCHANGED <<file, synced, buf, split, werr, index, scan, rd, mem>>
    BY DEF Open, diskVars
  <1>2. /\ TypeOK /\ LifeInv /\ SyncInv /\ file \in Seq(Record) /\ Len(file) \in Nat
        /\ synced <= Len(file) /\ buf = <<>> /\ ~split /\ ~werr /\ index = NewIndex /\ scan = 0
    BY <1>1, LenProperties DEF IInv, TypeOK, LifeInv
  <1>3. fd' \in BOOLEAN
    BY <1>1
  <1>4. position' \in Nat /\ cursor' \in Nat \cup {Misaligned}
    BY <1>1, <1>2
  <1>5. TypeOK'
    BY <1>1, <1>2, <1>3, <1>4 DEF TypeOK, setup
  <1>6. LifeInv' /\ HomeInv'
    BY <1>1, <1>2 DEF LifeInv, HomeInv
  <1>7. RebuildInv'
    <2>1. SubSeq(file, 1, 0) = <<>>
      BY SubSeqEmpty
    <2>2. PointsHome(NewIndex, <<>>, MapOf(<<>>))
      BY NewIndexOK, MapOfEmpty
    <2>3. PointsHome(index', SubSeq(file', 1, scan'), MapOf(SubSeq(file', 1, scan')))
      BY <1>1, <1>2, <2>1, <2>2
    <2>4. scan' <= Len(file')
      BY <1>1, <1>2
    <2> QED BY <2>3, <2>4 DEF RebuildInv
  <1>8. SyncInv' /\ DeletedCountExact'
    BY <1>1 DEF IInv, SyncInv, DeletedCountExact, setup
  <1>9. ReaderInv'
    <2>1. \A r \in Readers : rd[r].pc = "idle"
      BY <1>1, NobodyReads
    <2>2. \A r \in Readers : rd'[r].pc = "idle"
      BY <1>1, <2>1
    <2> QED BY <2>2, ReadersIdle
  <1> QED BY <1>5, <1>6, <1>7, <1>8, <1>9 DEF IInv

\* Replaying one record.
LEMMA RebuildStepStep ==
    ASSUME IInv, UNCHANGED setup, RebuildStep
    PROVE  IInv'
  <1>1. /\ mode = "rebuild" /\ scan < Len(file) /\ UNCHANGED <<file, synced, mem>>
    BY DEF RebuildStep
  <1>2. /\ TypeOK /\ LifeInv /\ SyncInv /\ RebuildInv /\ file \in Seq(Record) /\ Len(file) \in Nat
        /\ synced \in Nat /\ synced <= Len(file) /\ scan \in Nat /\ index \in IndexType
    BY LenProperties DEF IInv, TypeOK, LifeInv
  <1> DEFINE rec == file[scan + 1]
             pre == SubSeq(file, 1, scan)
             nxt == SubSeq(file, 1, scan + 1)
  <1>3. CASE rec = Garbage
    <2>1. mode' = "failed" /\ ProcessEnds
      BY <1>3 DEF RebuildStep
    <2>2. (syncWrite /\ ~diskFaults) => (file' = file /\ synced' = Len(file'))
      BY <1>1, <1>2 DEF SyncInv
    <2> QED BY <1>1, <1>2, <2>1, <2>2, EndsStep
  <1>4. CASE rec # Garbage
    <2>1. /\ index' = Replay(rec) /\ scan' = scan + 1
          /\ UNCHANGED <<buf, split, werr, mode, fd, position, cursor, rd>>
      BY <1>4 DEF RebuildStep
    <2>2. scan + 1 \in 1..Len(file) /\ scan + 1 \in 0..Len(file) /\ scan \in 0..Len(file)
      BY <1>1, <1>2
    <2>3. rec \in Record
      BY <1>2, <2>2, ElementOfSeq
    <2>4. /\ pre \in Seq(Record) /\ Len(pre) = scan /\ nxt \in Seq(Record)
      BY <1>2, <2>2, PrefixProps
    <2>5. nxt = Append(pre, rec)
      <3>1. SubSeq(file, 1, scan + 1) = SubSeq(file, 1, scan + 1 - 1) \o <<file[scan + 1]>>
        BY <1>2, <2>2, SubSeqRecursiveSecond
      <3>2. scan + 1 - 1 = scan
        BY <1>2
      <3>3. nxt = pre \o <<rec>>
        BY <3>1, <3>2
      <3> QED BY <2>3, <2>4, <3>3, AppendIsConcat
    <2>6. PointsHome(index, pre, MapOf(pre)) /\ CountExact(index)
      BY <1>1, <1>2 DEF IInv, RebuildInv, DeletedCountExact, CountExact
    <2>7. MapOf(pre) \in [Keys -> Values \cup {None}]
      BY <2>4, MapOfType
    <2> HIDE DEF pre, nxt, rec
    <2>8. MapOf(nxt) = [MapOf(pre) EXCEPT ![rec.key] = rec.val]
      BY <1>4, <2>3, <2>4, <2>5, MapOfAppend
    <2>9. rec.key \in Keys
      BY <1>4, <2>3, RecordFields
    <2>10. index' \in IndexType /\ CountExact(index') /\ PointsHome(index', nxt, MapOf(nxt))
      <3>1. CASE rec.del = TRUE /\ rec.val = None
        <4>1. index' = IndexDelete(index, rec.key)
          BY <2>1, <3>1, Zenon DEF Replay
        <4>2. rec = Tombstone(rec.key)
          <5>1. (\E k \in Keys, v \in Values : rec = PutRecord(k, v)) \/ \E k \in Keys : rec = Tombstone(k)
            BY <1>4, <2>3 DEF Record
          <5>2. ~\E k \in Keys, v \in Values : rec = PutRecord(k, v)
            BY <3>1, RecordFields, Zenon
          <5> QED BY <5>1, <5>2, RecordFields, Zenon
        <4>3. index' \in IndexType /\ CountExact(index')
          BY <1>2, <2>6, <2>9, <4>1, IndexDeleteDoes
        <4>4. PointsHome(IndexDelete(index, rec.key), Append(pre, Tombstone(rec.key)),
                         [MapOf(pre) EXCEPT ![rec.key] = None])
          BY <1>2, <2>4, <2>6, <2>7, <2>9, HomeDelete
        <4>5. Append(pre, Tombstone(rec.key)) = nxt
          BY <2>5, <4>2, Zenon
        <4>6. [MapOf(pre) EXCEPT ![rec.key] = None] = MapOf(nxt)
          BY <2>8, <3>1, Zenon
        <4> QED BY <4>1, <4>3, <4>4, <4>5, <4>6, Zenon
      <3>2. CASE rec.del = FALSE /\ rec.val \in Values /\ rec = PutRecord(rec.key, rec.val)
        <4>1. index' = IndexPut(index, rec.key, scan)
          BY <2>1, <3>2, Zenon DEF Replay
        <4>2. index' \in IndexType /\ CountExact(index')
          BY <1>2, <2>6, <2>9, <4>1, IndexPutDoes
        <4>3. PointsHome(IndexPut(index, rec.key, Len(pre)), Append(pre, PutRecord(rec.key, rec.val)),
                         [MapOf(pre) EXCEPT ![rec.key] = rec.val])
          BY <1>2, <2>4, <2>6, <2>7, <2>9, <3>2, HomePut
        <4>4. Append(pre, PutRecord(rec.key, rec.val)) = nxt
          BY <2>5, <3>2, Zenon
        <4> QED BY <2>4, <2>8, <4>1, <4>2, <4>3, <4>4, Zenon
      <3> QED BY <1>4, <2>3, <3>1, <3>2, RecordFields, Zenon
    <2>11. scan' \in Nat /\ scan' <= Len(file')
      BY <1>1, <1>2, <2>1, <2>2
    <2>12. TypeOK'
      BY <1>1, <1>2, <2>1, <2>10, <2>11 DEF TypeOK, setup
    <2>13. RebuildInv'
      <3>1. SubSeq(file', 1, scan') = nxt
        BY <1>1, <2>1 DEF nxt
      <3> QED BY <2>10, <2>11, <3>1 DEF RebuildInv
    <2>14. LifeInv' /\ HomeInv' /\ SyncInv'
      BY <1>1, <1>2, <2>1 DEF LifeInv, HomeInv, SyncInv, setup
    <2>15. ReaderInv'
      <3>1. \A r \in Readers : rd[r].pc = "idle"
        BY <1>1, NobodyReads
      <3>2. \A r \in Readers : rd'[r].pc = "idle"
        BY <2>1, <3>1
      <3> QED BY <3>2, ReadersIdle
    <2>16. DeletedCountExact'
      BY <2>10 DEF DeletedCountExact, CountExact
    <2> QED BY <2>12, <2>13, <2>14, <2>15, <2>16 DEF IInv
  <1> QED BY <1>3, <1>4

\* What a restart serves is the map of the file.
LEMMA ServesFile ==
    ASSUME IInv, RebuildDone
    PROVE  mem' = MapOf(file) /\ PointsHome(index, file, MapOf(file))
  <1>1. mode = "rebuild" /\ scan = Len(file) /\ mem' = Visible(index, file)
    BY DEF RebuildDone
  <1>2. file \in Seq(Record) /\ index \in IndexType /\ RebuildInv
    BY DEF IInv, TypeOK
  <1>3. SubSeq(file, 1, scan) = file
    BY <1>1, <1>2, SubSeqFull
  <1>4. PointsHome(index, file, MapOf(file))
    BY <1>1, <1>2, <1>3 DEF RebuildInv
  <1> QED BY <1>1, <1>2, <1>4, MapOfType, HomeVisible

\* The end of the replay.
LEMMA RebuildDoneStep ==
    ASSUME IInv, UNCHANGED setup, RebuildDone
    PROVE  IInv'
  <1>1. /\ mode = "rebuild" /\ mode' = "open" /\ scan' = 0
        /\ UNCHANGED <<file, synced, buf, split, werr, index, position, fd, cursor, rd>>
    BY DEF RebuildDone, diskVars
  <1>2. /\ TypeOK /\ LifeInv /\ SyncInv /\ file \in Seq(Record) /\ synced <= Len(file)
        /\ buf = <<>> /\ ~werr /\ fd /\ position = Len(file)
    BY <1>1 DEF IInv, TypeOK, LifeInv
  <1>3. mem' = MapOf(file) /\ PointsHome(index, file, MapOf(file))
    BY ServesFile
  <1>4. mem' \in [Keys -> Values \cup {None}] /\ scan' \in Nat
    BY <1>1, <1>2, <1>3, MapOfType
  <1>5. TypeOK'
    BY <1>1, <1>2, <1>4 DEF TypeOK, setup
  <1>6. \A r \in Readers : rd[r].pc = "idle" /\ rd'[r].pc = "idle"
    <2>1. \A r \in Readers : rd[r].pc = "idle"
      BY <1>1, NobodyReads
    <2> QED BY <1>1, <2>1
  <1>7. Log' = file
    <2>1. ~\E r \in Readers : rd'[r].pc = "reset"
      BY <1>6
    <2>2. Log' = file \o <<>>
      BY <1>1, <1>2, <2>1 DEF Log
    <2> QED BY <1>2, <2>2, ConcatEmptySeq
  <1>8. HomeInv'
    <2>1. \A k \in Keys : index'.entries[k].st # "live" => mem'[k] = None
      BY <1>1, <1>3 DEF PointsHome
    <2>2. PointsHome(index', Log', mem') /\ position' = Len(Log')
      BY <1>1, <1>2, <1>3, <1>7
    <2> QED BY <2>1, <2>2 DEF HomeInv
  <1>9. SyncInv'
    BY <1>1, <1>2, <1>3 DEF SyncInv, setup
  <1>10. ReaderInv'
    BY <1>6, ReadersIdle
  <1>11. synced' <= Len(file') /\ ((~fd' \/ werr') => diskFaults')
    BY <1>1, <1>2
  <1>12. CountExact(index')
    BY <1>1 DEF IInv, DeletedCountExact, CountExact
  <1> QED BY <1>1, <1>5, <1>8, <1>9, <1>10, <1>11, <1>12, StaysOpen

-----------------------------------------------------------------------------
(***************************************************************************)
(* The theorems.                                                           *)
(***************************************************************************)

\* An empty data directory satisfies the invariant.
LEMMA InitOK ==
    ASSUME Init
    PROVE  IInv
  <1>1. /\ syncWrite \in SyncModes /\ diskFaults \in FaultModes /\ file = <<>> /\ synced = 0
        /\ buf = <<>> /\ split = FALSE /\ index = NewIndex /\ position = 0 /\ fd = TRUE
        /\ werr = FALSE /\ mode = "open" /\ scan = 0 /\ cursor = 0
        /\ rd = [r \in Readers |-> Idle] /\ mem = [k \in Keys |-> None]
    BY DEF Init
  <1>2. /\ NewIndex \in IndexType /\ CountExact(NewIndex)
        /\ PointsHome(NewIndex, <<>>, [k \in Keys |-> None])
    BY NewIndexOK
  <1>3. Idle \in ReaderState /\ Idle.pc = "idle"
    BY DEF Idle, ReaderState
  <1>4. rd \in [Readers -> ReaderState] /\ \A r \in Readers : rd[r].pc = "idle"
    BY <1>1, <1>3
  <1>5. syncWrite \in BOOLEAN /\ diskFaults \in BOOLEAN /\ split \in BOOLEAN /\ fd \in BOOLEAN
        /\ werr \in BOOLEAN
    BY <1>1, BitcaskConstants
  <1>6. /\ file \in Seq(Record) /\ buf \in Seq(Record) /\ synced \in Nat /\ position \in Nat
        /\ scan \in Nat /\ cursor \in Nat \cup {Misaligned} /\ Len(file) = 0
    BY <1>1
  <1>7. mem \in [Keys -> Values \cup {None}] /\ \A k \in Keys : mem[k] = None
    BY <1>1
  <1>8. TypeOK
    BY <1>1, <1>2, <1>4, <1>5, <1>6, <1>7 DEF TypeOK
  <1>9. LifeInv /\ RebuildInv
    BY <1>1, <1>6 DEF LifeInv, RebuildInv
  <1>10. Log = <<>>
    <2>1. Log = <<>> \o <<>>
      BY <1>1, <1>4 DEF Log
    <2> QED BY <2>1
  <1>11. HomeInv
    <2>1. PointsHome(index, Log, mem)
      BY <1>1, <1>2, <1>10
    <2>2. position = Len(Log)
      BY <1>1, <1>10
    <2> QED BY <1>7, <2>1, <2>2 DEF HomeInv
  <1>12. ReaderInv
    BY <1>4 DEF ReaderInv, ReaderOK
  <1>13. SyncInv
    <2>1. mem = MapOf(file)
      BY <1>1, MapOfEmpty
    <2> QED BY <1>1, <1>6, <2>1 DEF SyncInv
  <1>14. DeletedCountExact
    BY <1>1, <1>2 DEF DeletedCountExact, CountExact
  <1> QED BY <1>8, <1>9, <1>11, <1>12, <1>13, <1>14 DEF IInv

\* Every step keeps the invariant.
LEMMA StepKeeps ==
    ASSUME Calm, IInv, Next
    PROVE  IInv'
  <1>1. Step /\ UNCHANGED setup
    BY DEF Next
  <1>2. CASE \E k \in Keys, v \in Values : Put(k, v)
    BY <1>1, <1>2, PutStep
  <1>3. CASE \E k \in Keys : Delete(k)
    BY <1>1, <1>3, DeleteStep
  <1>4. CASE SingleReader /\ \E r \in Readers : GetSteps(r)
    <2>1. PICK r \in Readers : GetSteps(r)
      BY <1>4
    <2>2. CASE \E k \in Keys : GetLookup(r, k)
      BY <1>1, <1>4, <2>2, GetLookupStep
    <2>3. CASE GetFlush(r)
      BY <1>1, <1>4, <2>3, GetFlushStep
    <2>4. CASE GetWrite(r)
      BY <1>1, <1>4, <2>4, GetWriteStep
    <2>5. CASE GetReset(r)
      BY <1>1, <1>4, <2>5, GetResetStep
    <2>6. CASE GetSeek(r)
      BY <1>1, <1>4, <2>6, GetSeekStep
    <2>7. CASE GetRead(r)
      BY <1>1, <1>4, <2>7, GetReadStep
    <2>8. CASE GetReturn(r)
      BY <1>1, <1>4, <2>8, GetReturnStep
    <2> QED BY <2>1, <2>2, <2>3, <2>4, <2>5, <2>6, <2>7, <2>8 DEF GetSteps
  <1>5. CASE Sync
    BY <1>1, <1>5, SyncStep
  <1>6. CASE Close
    BY <1>1, <1>6, CloseStep
  <1>7. CASE Compact
    BY <1>1, <1>7, CompactStep
  <1>8. CASE CompactFails
    BY <1>1, <1>8, CompactFailsStep
  <1>9. CASE Kill
    BY <1>1, <1>9, KillStep
  <1>10. CASE PowerLoss
    BY <1>1, <1>10, PowerLossStep
  <1>11. CASE Open
    BY <1>1, <1>11, OpenStep
  <1>12. CASE RebuildStep
    BY <1>1, <1>12, RebuildStepStep
  <1>13. CASE RebuildDone
    BY <1>1, <1>13, RebuildDoneStep
  <1>14. CASE ~SingleReader /\ \E r \in Readers : GetSteps(r)
    BY <1>1, <1>14, ConcurrentGetStep DEF Calm
  <1> QED BY <1>1, <1>2, <1>3, <1>4, <1>5, <1>6, <1>7, <1>8, <1>9, <1>10, <1>11, <1>12, <1>13, <1>14
      DEF Step

\* A stuttering step keeps it, too.
LEMMA StutterKeeps ==
    ASSUME IInv, UNCHANGED vars
    PROVE  IInv'
  <1>1. UNCHANGED <<syncWrite, diskFaults, file, synced, buf, split, index, position, fd, werr,
                    mode, scan, cursor, rd, mem>>
    BY DEF vars, setup
  <1>2. TypeOK'
    BY <1>1 DEF IInv, TypeOK
  <1>3. Log' = Log
    BY <1>1 DEF Log
  <1>4. HomeInv'
    BY <1>1, <1>3 DEF IInv, HomeInv
  <1>5. LifeInv' /\ RebuildInv' /\ SyncInv' /\ DeletedCountExact'
    BY <1>1 DEF IInv, LifeInv, RebuildInv, SyncInv, DeletedCountExact
  <1>6. ReaderInv'
    BY <1>1 DEF IInv, ReaderInv, ReaderOK
  <1> QED BY <1>2, <1>4, <1>5, <1>6 DEF IInv

\* IInv is an invariant of the engine.
LEMMA CalmInvariance == Spec => [](Calm => IInv)
  <1>1. Init => (Calm => IInv)
    BY InitOK
  <1>2. (Calm => IInv) /\ [Next]_vars => (Calm => IInv)'
    <2> SUFFICES ASSUME Calm => IInv, [Next]_vars, Calm' PROVE IInv'
      OBVIOUS
    <2>1. UNCHANGED setup
      BY DEF Next, vars
    <2>2. Calm
      BY <2>1 DEF Calm, WrittenAtOnce, setup
    <2> QED BY <2>2, StepKeeps, StutterKeeps
  <1> QED BY <1>1, <1>2, PTL DEF Spec

\* The same with one Get at a time.
LEMMA Invariance ==
    ASSUME SingleReader
    PROVE  Spec => []IInv
  <1>1. Calm
    BY DEF Calm
  <1>2. (Calm => IInv) => IInv
    BY <1>1
  <1> QED BY <1>2, CalmInvariance, PTL

\* Type correctness of the engine.
THEOREM TypeCorrect ==
    ASSUME SingleReader
    PROVE  Spec => []TypeOK
  <1>1. IInv => TypeOK
    BY DEF IInv
  <1> QED BY <1>1, Invariance, PTL

\* bitcask.go, Get and Compact: every live index entry points at the record of
\* its own key with the last value stored, whatever writes, flushes, failed
\* system calls, compactions and replays came before.
THEOREM IndexSafe ==
    ASSUME SingleReader
    PROVE  Spec => []IndexPointsHome
  <1>1. IInv => IndexPointsHome
    <2> SUFFICES ASSUME IInv, Healthy PROVE PointsHome(index, Log, mem)
      BY DEF IndexPointsHome, PointsHome
    <2> QED BY DEF IInv, HomeInv, Healthy
  <1> QED BY <1>1, Invariance, PTL

\* bitcask.go, writeEntry: the position counted in memory is the end of the log.
THEOREM PositionSafe ==
    ASSUME SingleReader
    PROVE  Spec => []PositionExact
  <1>1. IInv => PositionExact
    BY DEF IInv, HomeInv, Healthy, PositionExact
  <1> QED BY <1>1, Invariance, PTL

\* bitcask.go, Get: what is returned is the last value stored, or an error of
\* the disk.
THEOREM GetSafe ==
    ASSUME SingleReader
    PROVE  Spec => []GetReturnsLatest
  <1>1. IInv => GetReturnsLatest
    BY DEF IInv, ReaderInv, ReaderOK, GetReturnsLatest
  <1> QED BY <1>1, Invariance, PTL

\* index.go, Put and Delete: the count of tombstones is exact.
THEOREM DeletedCountSafe ==
    ASSUME SingleReader
    PROVE  Spec => []DeletedCountExact
  <1>1. IInv => DeletedCountExact
    BY DEF IInv
  <1> QED BY <1>1, Invariance, PTL

\* bitcask.go, writeEntry and rebuildIndex: with SyncWrites and a disk that
\* works, a restart serves exactly what was stored before.
THEOREM RecoverySafe == Spec => SyncedWritesSurvive
  <1>1. (Calm => IInv) /\ [Next]_vars =>
          [syncWrite /\ ~diskFaults /\ mode = "rebuild" /\ mode' = "open" => mem' = mem]_vars
    <2> SUFFICES ASSUME Calm => IInv, Next, syncWrite, ~diskFaults, mode = "rebuild", mode' = "open"
                 PROVE  mem' = mem
      OBVIOUS
    <2>1. IInv
      BY DEF Calm, WrittenAtOnce
    <2>2. \A r \in Readers : rd[r].pc = "idle"
      BY <2>1, NobodyReads
    <2>3. ~\E r \in Readers : GetSteps(r)
      BY <2>2 DEF GetSteps, GetLookup, GetFlush, GetWrite, GetReset, GetSeek, GetRead, GetReturn
    <2>4. RebuildDone
      BY <2>3 DEF Next, Step, Put, Delete, Exclusive, Sync, Close, Compact, CompactFails, Kill,
                  PowerLoss, Open, RebuildStep
    <2>5. mem' = MapOf(file)
      BY <2>1, <2>4, ServesFile
    <2> QED BY <2>1, <2>5 DEF IInv, SyncInv
  <1> QED BY <1>1, CalmInvariance, PTL DEF Spec, SyncedWritesSurvive

\* bitcask.go, writeEntry with SyncWrites: while the disk works, Gets may run at
\* the same time without harm to the index, the position and the counts.
THEOREM WrittenAtOnceSafe ==
    Spec => [](WrittenAtOnce => TypeOK /\ IndexPointsHome /\ PositionExact /\ DeletedCountExact)
  <1>1. IInv => TypeOK /\ IndexPointsHome /\ PositionExact /\ DeletedCountExact
    <2>1. IInv => IndexPointsHome
      <3> SUFFICES ASSUME IInv, Healthy PROVE PointsHome(index, Log, mem)
        BY DEF IndexPointsHome, PointsHome
      <3> QED BY DEF IInv, HomeInv, Healthy
    <2> QED BY <2>1 DEF IInv, HomeInv, Healthy, PositionExact
  <1>2. (Calm => IInv) =>
           (WrittenAtOnce => TypeOK /\ IndexPointsHome /\ PositionExact /\ DeletedCountExact)
    BY <1>1 DEF Calm
  <1> QED BY <1>2, CalmInvariance, PTL

=============================================================================
