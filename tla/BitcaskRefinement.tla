------------------------- MODULE BitcaskRefinement --------------------------
(***************************************************************************)
(* The storage engine implements DurableMap.  Every step of the engine is  *)
(* a step of the abstract map or leaves it alone:                          *)
(*                                                                         *)
(*   Put, Delete                    Write, WriteError                      *)
(*   the flushes of Get and Sync    Settle                                 *)
(*   Compact                        Checkpoint                             *)
(*   Close, Kill, PowerLoss         Stop                                   *)
(*   RebuildDone                    Restart                                *)
(***************************************************************************)
EXTENDS BitcaskProofs

\* The maps of the prefixes of a log that are at least s records long.
Cands(log, s) == {MapOf(SubSeq(log, 1, i)) : i \in s..Len(log)}

Tip == MapOf(Reached)

Cand == Cands(Reached, synced)

-----------------------------------------------------------------------------
(***************************************************************************)
(* The steps of DurableMap, in terms of the engine.                        *)
(***************************************************************************)

\* A step that leaves the abstract map alone.
LEMMA AbstractStutter ==
    ASSUME (mode' = "open") = (mode = "open"), mem' = mem, Tip' = Tip, Cand' = Cand
    PROVE  UNCHANGED DM!dvars
  BY DEF DM!dvars, Tip, Cand, Cands

\* Write.
LEMMA AbstractWrite ==
    ASSUME NEW k \in Keys, NEW v \in Values \cup {None}, mode = "open", mode' = "open",
           mem' = [mem EXCEPT ![k] = v], Tip' = [Tip EXCEPT ![k] = v],
           Tip' \in Cand', Cand' \subseteq Cand \cup {Tip'}
    PROVE  DM!DNext
  <1>1. DM!Write(k, v)
    BY DEF DM!Write, Tip, Cand, Cands
  <1> QED BY <1>1 DEF DM!DNext

\* WriteError.
LEMMA AbstractWriteError ==
    ASSUME NEW k \in Keys, NEW v \in Values \cup {None}, mode = "open", mode' = "open",
           mem' = mem, Tip' = [Tip EXCEPT ![k] = v],
           Tip' \in Cand', Cand' \subseteq Cand \cup {Tip'}
    PROVE  DM!DNext
  <1>1. DM!WriteError(k, v)
    BY DEF DM!WriteError, Tip, Cand, Cands
  <1> QED BY <1>1 DEF DM!DNext

\* Settle.
LEMMA AbstractSettle ==
    ASSUME (mode' = "open") = (mode = "open"), mem' = mem, Tip' = Tip,
           Tip \in Cand', Cand' \subseteq Cand
    PROVE  DM!DNext
  <1>1. DM!Settle
    BY DEF DM!Settle, Tip, Cand, Cands
  <1> QED BY <1>1 DEF DM!DNext

\* Checkpoint.
LEMMA AbstractCheckpoint ==
    ASSUME mode = "open", mode' = "open", mem' = mem, Tip' = mem, Cand' = {mem}
    PROVE  DM!DNext
  <1>1. DM!Checkpoint
    BY DEF DM!Checkpoint, Tip, Cand, Cands
  <1> QED BY <1>1 DEF DM!DNext

\* Stop.
LEMMA AbstractStop ==
    ASSUME mode' # "open", mem' = mem, Tip' \in Cand', Cand' \subseteq Cand
    PROVE  DM!DNext
  <1>1. DM!Stop
    BY DEF DM!Stop, Tip, Cand, Cands
  <1> QED BY <1>1 DEF DM!DNext

\* Restart.
LEMMA AbstractRestart ==
    ASSUME mode # "open", mode' = "open", mem' = Tip, Tip' = Tip, Cand' = Cand
    PROVE  DM!DNext
  <1>1. DM!Restart
    BY DEF DM!Restart, Tip, Cand, Cands
  <1> QED BY <1>1 DEF DM!DNext

-----------------------------------------------------------------------------
(***************************************************************************)
(* What may be lost from a log.                                            *)
(***************************************************************************)

\* A short prefix of two logs is one of the first.
LEMMA PrefixInFirst ==
    ASSUME NEW a \in Seq(Record), NEW b \in Seq(Record), NEW i \in 0..Len(a)
    PROVE  SubSeq(a \o b, 1, i) = SubSeq(a, 1, i)
  <1> DEFINE c == a \o b
  <1>1. /\ c \in Seq(Record) /\ Len(c) = Len(a) + Len(b) /\ Len(a) \in Nat /\ Len(b) \in Nat
        /\ \A j \in 1..(Len(a) + Len(b)) : c[j] = IF j <= Len(a) THEN a[j] ELSE b[j - Len(a)]
    BY ConcatProperties, LenProperties
  <1> HIDE DEF c
  <1>2. i \in 0..Len(c)
    BY <1>1
  <1>3. /\ SubSeq(c, 1, i) \in Seq(Record) /\ Len(SubSeq(c, 1, i)) = i
        /\ \A j \in 1..i : SubSeq(c, 1, i)[j] = c[j]
    BY <1>1, <1>2, PrefixProps
  <1>4. /\ SubSeq(a, 1, i) \in Seq(Record) /\ Len(SubSeq(a, 1, i)) = i
        /\ \A j \in 1..i : SubSeq(a, 1, i)[j] = a[j]
    BY PrefixProps
  <1>5. \A j \in 1..i : c[j] = a[j]
    BY <1>1
  <1>6. SubSeq(c, 1, i) = SubSeq(a, 1, i)
    <2> DEFINE x == SubSeq(c, 1, i)
               y == SubSeq(a, 1, i)
    <2>1. x \in Seq(Record) /\ y \in Seq(Record) /\ Len(x) = Len(y) /\ \A j \in 1..Len(x) : x[j] = y[j]
      BY <1>3, <1>4, <1>5
    <2> HIDE DEF x, y
    <2>2. x = y
      BY <2>1, SeqEqual
    <2> QED BY <2>2 DEF x, y
  <1> QED BY <1>6 DEF c

\* A longer one is the first log and a prefix of the second.
LEMMA PrefixInSecond ==
    ASSUME NEW a \in Seq(Record), NEW b \in Seq(Record), NEW i \in 0..Len(b)
    PROVE  SubSeq(a \o b, 1, Len(a) + i) = a \o SubSeq(b, 1, i)
  <1> DEFINE c == a \o b
             h == SubSeq(b, 1, i)
             x == SubSeq(c, 1, Len(a) + i)
             y == a \o h
  <1>1. /\ c \in Seq(Record) /\ Len(c) = Len(a) + Len(b) /\ Len(a) \in Nat /\ Len(b) \in Nat
        /\ \A j \in 1..(Len(a) + Len(b)) : c[j] = IF j <= Len(a) THEN a[j] ELSE b[j - Len(a)]
    BY ConcatProperties, LenProperties
  <1>2. h \in Seq(Record) /\ Len(h) = i /\ \A j \in 1..i : h[j] = b[j]
    BY PrefixProps
  <1> HIDE DEF c, h
  <1>3. Len(a) + i \in 0..Len(c) /\ i \in Nat
    BY <1>1
  <1>4. x \in Seq(Record) /\ Len(x) = Len(a) + i /\ \A j \in 1..(Len(a) + i) : x[j] = c[j]
    BY <1>1, <1>3, PrefixProps
  <1>5. /\ y \in Seq(Record) /\ Len(y) = Len(a) + i
        /\ \A j \in 1..(Len(a) + i) : y[j] = IF j <= Len(a) THEN a[j] ELSE h[j - Len(a)]
    BY <1>2, ConcatProperties
  <1> HIDE DEF x, y
  <1>6. ASSUME NEW j \in 1..(Len(a) + i) PROVE x[j] = y[j]
    <2>1. CASE j <= Len(a)
      BY <1>1, <1>3, <1>4, <1>5, <2>1
    <2>2. CASE j > Len(a)
      <3>1. j - Len(a) \in 1..i /\ j \in 1..(Len(a) + Len(b))
        BY <1>1, <1>3, <2>2
      <3>2. h[j - Len(a)] = b[j - Len(a)]
        BY <1>2, <3>1
      <3> QED BY <1>1, <1>4, <1>5, <2>2, <3>1, <3>2
    <2> QED BY <1>1, <2>1, <2>2
  <1>7. x = y
    BY <1>4, <1>5, <1>6, SeqEqual
  <1> QED BY <1>7 DEF x, y, c, h

\* Nothing lost is always possible.
LEMMA CandsTip ==
    ASSUME NEW log \in Seq(Record), NEW s \in Nat, s <= Len(log)
    PROVE  MapOf(log) \in Cands(log, s)
  <1>1. Len(log) \in s..Len(log)
    BY LenProperties
  <1>2. SubSeq(log, 1, Len(log)) = log
    BY SubSeqFull
  <1> QED BY <1>1, <1>2 DEF Cands

\* What is on stable storage is not lost.
LEMMA CandsMono ==
    ASSUME NEW log \in Seq(Record), NEW s \in Nat, NEW t \in Nat, s <= t
    PROVE  Cands(log, t) \subseteq Cands(log, s)
  <1>1. ASSUME NEW i \in t..Len(log) PROVE i \in s..Len(log)
    BY LenProperties
  <1> QED BY <1>1 DEF Cands

\* A record more is one map more.
LEMMA CandsAppend ==
    ASSUME NEW log \in Seq(Record), NEW rec \in Record, NEW s \in Nat
    PROVE  Cands(Append(log, rec), s) \subseteq Cands(log, s) \cup {MapOf(Append(log, rec))}
  <1> DEFINE new == Append(log, rec)
             e == <<rec>>
  <1>1. new \in Seq(Record) /\ Len(new) = Len(log) + 1 /\ Len(log) \in Nat
    BY AppendProperties, LenProperties
  <1>2. new = log \o e /\ e \in Seq(Record)
    BY AppendIsConcat
  <1> HIDE DEF new, e
  <1>3. ASSUME NEW i \in s..Len(new)
        PROVE  MapOf(SubSeq(new, 1, i)) \in Cands(log, s) \cup {MapOf(new)}
    <2>1. CASE i <= Len(log)
      <3>1. i \in 0..Len(log) /\ i \in s..Len(log)
        BY <1>1, <2>1
      <3>2. SubSeq(new, 1, i) = SubSeq(log, 1, i)
        BY <1>2, <3>1, PrefixInFirst
      <3> QED BY <3>1, <3>2 DEF Cands
    <2>2. CASE i > Len(log)
      <3>1. i = Len(new)
        BY <1>1, <2>2
      <3>2. SubSeq(new, 1, i) = new
        BY <1>1, <3>1, SubSeqFull
      <3> QED BY <3>2
    <2> QED BY <1>1, <2>1, <2>2
  <1>4. Cands(new, s) \subseteq Cands(log, s) \cup {MapOf(new)}
    BY <1>3 DEF Cands
  <1> QED BY <1>4 DEF new

\* Losing a suffix loses candidates.
LEMMA CandsPrefix ==
    ASSUME NEW a \in Seq(Record), NEW b \in Seq(Record), NEW s \in Nat
    PROVE  Cands(a, s) \subseteq Cands(a \o b, s)
  <1> DEFINE c == a \o b
  <1>1. Len(c) = Len(a) + Len(b) /\ Len(a) \in Nat /\ Len(b) \in Nat
    BY ConcatProperties, LenProperties
  <1>2. ASSUME NEW i \in s..Len(a) PROVE i \in s..Len(c) /\ SubSeq(a, 1, i) = SubSeq(c, 1, i)
    <2>1. i \in 0..Len(a)
      BY <1>1
    <2>2. SubSeq(c, 1, i) = SubSeq(a, 1, i)
      BY <2>1, PrefixInFirst
    <2> HIDE DEF c
    <2>3. i \in s..Len(c)
      BY <1>1
    <2> QED BY <2>2, <2>3
  <1> HIDE DEF c
  <1>3. Cands(a, s) \subseteq Cands(c, s)
    BY <1>2 DEF Cands
  <1> QED BY <1>3 DEF c

\* Bytes that are no record, behind what is on stable storage, change nothing.
LEMMA CandsGarbage ==
    ASSUME NEW a \in Seq(Record), NEW b \in Seq(Record), NEW s \in Nat, s <= Len(a)
    PROVE  Cands((a \o <<Garbage>>) \o b, s) = Cands(a \o b, s)
  <1> DEFINE e == <<Garbage>>
             g == a \o e
             t == g \o b
             c == a \o b
  <1>0. e \in Seq(Record) /\ Len(e) = 1
    BY RecordFields
  <1>1. g \in Seq(Record) /\ Len(g) = Len(a) + 1 /\ Len(a) \in Nat /\ Len(b) \in Nat
    BY <1>0, ConcatProperties, LenProperties
  <1>2. t \in Seq(Record) /\ Len(t) = Len(a) + 1 + Len(b)
    <2> HIDE DEF g
    <2>1. t \in Seq(Record) /\ Len(t) = Len(g) + Len(b)
      BY <1>1, ConcatProperties
    <2> QED BY <1>1, <2>1
  <1>3. c \in Seq(Record) /\ Len(c) = Len(a) + Len(b)
    BY ConcatProperties
  <1>4. ASSUME NEW i \in 0..Len(a) PROVE SubSeq(t, 1, i) = SubSeq(c, 1, i)
    <2>1. SubSeq(c, 1, i) = SubSeq(a, 1, i)
      BY PrefixInFirst
    <2>2. SubSeq(g, 1, i) = SubSeq(a, 1, i)
      BY <1>0, PrefixInFirst
    <2> HIDE DEF g
    <2>3. i \in 0..Len(g)
      BY <1>1
    <2>4. SubSeq(t, 1, i) = SubSeq(g, 1, i)
      BY <1>1, <2>3, PrefixInFirst
    <2> QED BY <2>1, <2>2, <2>4
  <1>5. ASSUME NEW j \in 0..Len(b)
        PROVE  MapOf(SubSeq(t, 1, Len(a) + 1 + j)) = MapOf(SubSeq(c, 1, Len(a) + j))
    <2> DEFINE h == SubSeq(b, 1, j)
    <2>1. h \in Seq(Record)
      BY PrefixProps
    <2>2. SubSeq(c, 1, Len(a) + j) = a \o h
      BY PrefixInSecond
    <2>3. SubSeq(t, 1, Len(g) + j) = g \o h
      <3> HIDE DEF g
      <3> QED BY <1>1, PrefixInSecond
    <2>4. MapOf(g \o h) = MapOf(a \o h)
      <3> HIDE DEF h
      <3> QED BY <2>1, MapOfGarbage
    <2> QED BY <1>1, <2>2, <2>3, <2>4
  <1> HIDE DEF t, c, g, e
  <1>6. ASSUME NEW i \in s..Len(t) PROVE MapOf(SubSeq(t, 1, i)) \in Cands(c, s)
    <2>1. CASE i <= Len(a)
      <3>1. i \in 0..Len(a) /\ i \in s..Len(c)
        BY <1>1, <1>3, <2>1
      <3>2. SubSeq(t, 1, i) = SubSeq(c, 1, i)
        BY <1>4, <3>1
      <3> QED BY <3>1, <3>2 DEF Cands
    <2>2. CASE i > Len(a)
      <3> DEFINE j == i - Len(a) - 1
      <3>1. j \in 0..Len(b) /\ Len(a) + 1 + j = i /\ Len(a) + j \in s..Len(c)
        BY <1>1, <1>2, <1>3, <2>2
      <3> HIDE DEF j
      <3>2. MapOf(SubSeq(t, 1, i)) = MapOf(SubSeq(c, 1, Len(a) + j))
        BY <1>5, <3>1
      <3> QED BY <3>1, <3>2 DEF Cands
    <2> QED BY <1>1, <2>1, <2>2
  <1>7. ASSUME NEW i \in s..Len(c) PROVE MapOf(SubSeq(c, 1, i)) \in Cands(t, s)
    <2>1. CASE i <= Len(a)
      <3>1. i \in 0..Len(a) /\ i \in s..Len(t)
        BY <1>1, <1>2, <2>1
      <3>2. SubSeq(t, 1, i) = SubSeq(c, 1, i)
        BY <1>4, <3>1
      <3> QED BY <3>1, <3>2 DEF Cands
    <2>2. CASE i > Len(a)
      <3> DEFINE j == i - Len(a)
      <3>1. j \in 0..Len(b) /\ Len(a) + j = i /\ Len(a) + 1 + j \in s..Len(t)
        BY <1>1, <1>2, <1>3, <2>2
      <3> HIDE DEF j
      <3>2. MapOf(SubSeq(t, 1, Len(a) + 1 + j)) = MapOf(SubSeq(c, 1, i))
        BY <1>5, <3>1
      <3> QED BY <3>1, <3>2 DEF Cands
    <2> QED BY <1>1, <2>1, <2>2
  <1>8. Cands(t, s) = Cands(c, s)
    BY <1>6, <1>7 DEF Cands
  <1> QED BY <1>8 DEF t, c, g, e

\* The same with or without a torn record.
LEMMA CandsTorn ==
    ASSUME NEW a \in Seq(Record), NEW b \in Seq(Record), NEW s \in Nat, s <= Len(a),
           NEW torn \in BOOLEAN
    PROVE  /\ Cands((a \o TornTail(torn)) \o b, s) = Cands(a \o b, s)
           /\ MapOf((a \o TornTail(torn)) \o b) = MapOf(a \o b)
           /\ Cands(a \o TornTail(torn), s) = Cands(a, s)
           /\ MapOf(a \o TornTail(torn)) = MapOf(a)
  <1>1. CASE torn
    <2>1. TornTail(torn) = <<Garbage>>
      BY <1>1 DEF TornTail
    <2>2. /\ Cands((a \o <<Garbage>>) \o b, s) = Cands(a \o b, s)
          /\ MapOf((a \o <<Garbage>>) \o b) = MapOf(a \o b)
      BY CandsGarbage, MapOfGarbage
    <2> DEFINE none == <<>>
    <2>3. none \in Seq(Record) /\ a \o none = a
      BY ConcatEmptySeq
    <2>4. a \o <<Garbage>> \in Seq(Record)
      BY RecordFields, ConcatProperties
    <2>5. (a \o <<Garbage>>) \o none = a \o <<Garbage>>
      BY <2>4, ConcatEmptySeq
    <2> HIDE DEF none
    <2>6. /\ Cands((a \o <<Garbage>>) \o none, s) = Cands(a \o none, s)
          /\ MapOf((a \o <<Garbage>>) \o none) = MapOf(a \o none)
      BY <2>3, CandsGarbage, MapOfGarbage
    <2> QED BY <2>1, <2>2, <2>3, <2>5, <2>6, Zenon
  <1>2. CASE ~torn
    <2>1. TornTail(torn) = <<>>
      BY <1>2 DEF TornTail
    <2>2. a \o <<>> = a
      BY ConcatEmptySeq
    <2> QED BY <2>1, <2>2, Zenon
  <1> QED BY <1>1, <1>2

-----------------------------------------------------------------------------
(***************************************************************************)
(* The steps of the engine.                                                *)
(***************************************************************************)

\* What a process that ends leaves is a prefix of what has been written.
LEMMA ReachedFacts ==
    ASSUME IInv
    PROVE  /\ file \in Seq(Record) /\ Len(file) \in Nat /\ synced \in Nat /\ synced <= Len(file)
           /\ Log \in Seq(Record) /\ Reached \in Seq(Record)
           /\ Len(Reached) \in Nat /\ Len(file) <= Len(Reached)
           /\ \E b \in Seq(Record) : Reached = file \o b
  <1>1. /\ TypeOK /\ file \in Seq(Record) /\ buf \in Seq(Record) /\ synced \in Nat
        /\ synced <= Len(file)
    BY DEF IInv, TypeOK, LifeInv
  <1>2. /\ Log \in Seq(Record) /\ Len(file) \in Nat
        /\ Log = IF \E r \in Readers : rd[r].pc = "reset" THEN file ELSE Flushed
    BY <1>1, LogType
  <1> DEFINE none == <<>>
  <1>3. none \in Seq(Record) /\ file \o none = file
    BY <1>1, ConcatEmptySeq
  <1> HIDE DEF none
  <1>4. \E b \in Seq(Record) : Reached = file \o b
    BY <1>1, <1>2, <1>3 DEF Reached, Flushed
  <1>5. PICK b \in Seq(Record) : Reached = file \o b
    BY <1>4
  <1>6. Reached \in Seq(Record) /\ Len(Reached) = Len(file) + Len(b) /\ Len(b) \in Nat
    BY <1>1, <1>5, ConcatProperties, LenProperties
  <1>7. Len(Reached) \in Nat /\ Len(file) <= Len(Reached)
    BY <1>2, <1>6
  <1> QED BY <1>1, <1>2, <1>4, <1>6, <1>7

\* A record that reaches the log, acknowledged or not.
LEMMA StoreRefines ==
    ASSUME IInv, mode = "open", mode' = "open", NEW rec \in Record, rec # Garbage,
           Log' = Append(Log, rec), Log' = file' \o buf', file' \in Seq(Record), buf' \in Seq(Record),
           synced' \in Nat, synced <= synced', synced' <= Len(file')
    PROVE  /\ Tip' = [Tip EXCEPT ![rec.key] = rec.val]
           /\ Tip' \in Cand' /\ Cand' \subseteq Cand \cup {Tip'}
  <1>1. Reached = Log /\ Reached' = Log'
    BY DEF Reached
  <1>2. Log \in Seq(Record) /\ synced \in Nat
    BY ReachedFacts
  <1> DEFINE new == Append(Log, rec)
  <1>3. new \in Seq(Record)
    BY <1>2, AppendProperties
  <1>4. synced' <= Len(new)
    <2>1. Len(file' \o buf') = Len(file') + Len(buf') /\ Len(file') \in Nat /\ Len(buf') \in Nat
      BY ConcatProperties, LenProperties
    <2>2. new = file' \o buf'
      OBVIOUS
    <2> HIDE DEF new
    <2> QED BY <2>1, <2>2
  <1>5. MapOf(new) = [MapOf(Log) EXCEPT ![rec.key] = rec.val]
    BY <1>2, MapOfAppend
  <1>6. Cands(new, synced) \subseteq Cands(Log, synced) \cup {MapOf(new)}
    BY <1>2, CandsAppend
  <1>7. Log' = new
    OBVIOUS
  <1> HIDE DEF new
  <1>8. Cands(new, synced') \subseteq Cands(new, synced)
    BY <1>2, <1>3, CandsMono
  <1>9. MapOf(new) \in Cands(new, synced')
    BY <1>3, <1>4, CandsTip
  <1>10. Tip = MapOf(Log) /\ Tip' = MapOf(new) /\ Cand = Cands(Log, synced) /\ Cand' = Cands(new, synced')
    BY <1>1, <1>7 DEF Tip, Cand
  <1> QED BY <1>5, <1>6, <1>8, <1>9, <1>10

\* A flush that fails tears a record at most: no map is lost, none appears.
LEMMA FlushFailsRefines ==
    ASSUME IInv, mode = "open", FlushFails, ~\E r \in Readers : rd[r].pc = "reset"
    PROVE  /\ MapOf(file' \o buf') = Tip /\ Cands(file' \o buf', synced) = Cand
           /\ MapOf(file') \in Cands(file', synced) /\ Cands(file', synced) \subseteq Cand
  <1>1. /\ TypeOK /\ file \in Seq(Record) /\ buf \in Seq(Record) /\ synced \in Nat
        /\ synced <= Len(file) /\ Len(file) \in Nat
    BY LenProperties DEF IInv, TypeOK, LifeInv
  <1>2. Reached = Flushed
    BY <1>1, LogType DEF Reached
  <1>3. PICK n \in 0..Len(buf), torn \in BOOLEAN :
           /\ file' = file \o SubSeq(buf, 1, n) \o TornTail(torn)
           /\ buf' = SubSeq(buf, n + 1, Len(buf))
    BY DEF FlushFails
  <1> DEFINE h == SubSeq(buf, 1, n)
             t == SubSeq(buf, n + 1, Len(buf))
             a == file \o h
  <1>4. h \in Seq(Record) /\ t \in Seq(Record)
    BY <1>1, PrefixProps
  <1>5. h \o t = buf
    <2>1. Len(buf) \in Nat
      BY <1>1, LenProperties
    <2>2. 1 \in 1..(Len(buf) + 1) /\ n \in (1 - 1)..Len(buf) /\ Len(buf) \in n..Len(buf)
      BY <2>1
    <2>3. SubSeq(buf, 1, n) \o SubSeq(buf, n + 1, Len(buf)) = SubSeq(buf, 1, Len(buf))
      BY <1>1, <2>2, ConcatAdjacentSubSeq
    <2>4. SubSeq(buf, 1, Len(buf)) = buf
      BY <1>1, SubSeqFull
    <2> QED BY <2>3, <2>4
  <1>6. file' = a \o TornTail(torn) /\ buf' = t
    BY <1>3
  <1> HIDE DEF h, t
  <1>7. a \in Seq(Record) /\ Len(a) = Len(file) + Len(h) /\ Len(h) \in Nat /\ a \o t = Flushed
    <2>1. a \in Seq(Record) /\ Len(a) = Len(file) + Len(h) /\ Len(h) \in Nat
      BY <1>1, <1>4, ConcatProperties, LenProperties
    <2>2. (file \o h) \o t = file \o (h \o t)
      <3>1. file \in Seq(Record) /\ h \in Seq(Record) /\ t \in Seq(Record)
        BY <1>1, <1>4
      <3> QED BY <3>1, LogsAssociate, Zenon
    <2> QED BY <1>5, <2>1, <2>2 DEF Flushed
  <1> HIDE DEF a
  <1>8. synced <= Len(a)
    BY <1>1, <1>7
  <1>9. /\ Cands((a \o TornTail(torn)) \o t, synced) = Cands(a \o t, synced)
        /\ MapOf((a \o TornTail(torn)) \o t) = MapOf(a \o t)
        /\ Cands(a \o TornTail(torn), synced) = Cands(a, synced)
        /\ MapOf(a \o TornTail(torn)) = MapOf(a)
    <2>1. a \in Seq(Record) /\ t \in Seq(Record) /\ synced \in Nat /\ torn \in BOOLEAN
      BY <1>1, <1>4, <1>7
    <2> QED BY <1>8, <2>1, CandsTorn, Zenon
  <1>10. Cands(a, synced) \subseteq Cands(a \o t, synced)
    BY <1>1, <1>4, <1>7, CandsPrefix
  <1>11. MapOf(a) \in Cands(a, synced)
    BY <1>1, <1>7, <1>8, CandsTip
  <1> QED BY <1>2, <1>6, <1>7, <1>9, <1>10, <1>11 DEF Tip, Cand

\* A call that holds the lock and whose flush fails.
LEMMA FailedFlushRefines ==
    ASSUME IInv, Exclusive, FlushFails, mode' = mode, rd' = rd, synced' = synced, mem' = mem
    PROVE  UNCHANGED DM!dvars
  <1>1. mode = "open" /\ ~\E r \in Readers : rd[r].pc = "reset"
    BY DEF Exclusive
  <1>2. MapOf(file' \o buf') = Tip /\ Cands(file' \o buf', synced) = Cand
    BY <1>1, FlushFailsRefines
  <1>3. Reached' = file' \o buf'
    BY <1>1, LogExclusive DEF Reached
  <1>4. Tip' = Tip /\ Cand' = Cand
    BY <1>2, <1>3 DEF Tip, Cand
  <1> QED BY <1>4, AbstractStutter

\* Steps that change neither the file nor the log.
LEMMA SameRefines ==
    ASSUME (mode' = "open") = (mode = "open"), Reached' = Reached, synced' = synced, mem' = mem
    PROVE  UNCHANGED DM!dvars
  <1>1. Tip' = Tip /\ Cand' = Cand
    BY DEF Tip, Cand
  <1> QED BY <1>1, AbstractStutter

\* Put and Delete.
LEMMA WriteRefines ==
    ASSUME IInv, Exclusive, NEW rec \in Record, rec # Garbage,
           UNCHANGED <<fd, mode, scan, cursor, rd>>,
           \/ WriteOk(rec) /\ mem' = [mem EXCEPT ![rec.key] = rec.val]
           \/ WriteFails(rec) /\ UNCHANGED mem
    PROVE  DM!DNext \/ UNCHANGED DM!dvars
  <1>1. TypeOK /\ LifeInv /\ mode = "open" /\ mode' = "open" /\ synced <= Len(file)
    BY DEF IInv, Exclusive, LifeInv
  <1>2. rec.key \in Keys /\ rec.val \in Values \cup {None}
    BY RecordFields
  <1>3. CASE WriteOk(rec) /\ mem' = [mem EXCEPT ![rec.key] = rec.val]
    <2>1. /\ file' \in Seq(Record) /\ buf' \in Seq(Record)
          /\ synced' \in Nat /\ synced <= synced' /\ synced' <= Len(file')
          /\ Log' = Append(Log, rec)
      BY <1>1, <1>3, WriteOkDoes
    <2>2. Log' = file' \o buf'
      BY LogExclusive
    <2>3. /\ Tip' = [Tip EXCEPT ![rec.key] = rec.val]
          /\ Tip' \in Cand' /\ Cand' \subseteq Cand \cup {Tip'}
      BY <1>1, <2>1, <2>2, StoreRefines
    <2> QED BY <1>1, <1>2, <1>3, <2>3, AbstractWrite
  <1>4. CASE WriteFails(rec) /\ UNCHANGED mem
    <2>1. CASE UNCHANGED <<file, synced, buf, split, position, werr>>
      <3>1. Log' = Log
        BY <2>1 DEF Log
      <3>2. Reached' = Reached
        BY <1>1, <3>1 DEF Reached
      <3> QED BY <1>4, <2>1, <3>2, SameRefines
    <2>2. CASE FlushFails /\ UNCHANGED synced
      BY <1>4, <2>2, FailedFlushRefines
    <2>3. CASE file' = Append(Flushed, rec) /\ buf' = <<>> /\ UNCHANGED synced
      <3>1. Flushed \in Seq(Record) /\ Log = Flushed /\ Log' = file' \o buf'
        BY <1>1, LogType, LogExclusive
      <3>2. /\ file' \in Seq(Record) /\ file' \o <<>> = file'
        BY <2>3, <3>1, AppendProperties, ConcatEmptySeq
      <3>3. Log' = Append(Log, rec) /\ buf' \in Seq(Record)
        BY <2>3, <3>1, <3>2
      <3>4. synced' \in Nat /\ synced <= synced' /\ synced' <= Len(file')
        <4>1. Len(file') = Len(Flushed) + 1
          BY <2>3, <3>1, AppendProperties
        <4>2. Len(Flushed) = Len(file) + Len(buf) /\ Len(file) \in Nat /\ Len(buf) \in Nat
          BY <1>1, LogType
        <4>3. synced \in Nat
          BY <1>1 DEF TypeOK
        <4> QED BY <1>1, <2>3, <4>1, <4>2, <4>3
      <3>5. /\ Tip' = [Tip EXCEPT ![rec.key] = rec.val]
            /\ Tip' \in Cand' /\ Cand' \subseteq Cand \cup {Tip'}
        BY <1>1, <3>1, <3>2, <3>3, <3>4, StoreRefines
      <3> QED BY <1>1, <1>2, <1>4, <3>5, AbstractWriteError
    <2> QED BY <1>4, <2>1, <2>2, <2>3 DEF WriteFails
  <1> QED BY <1>3, <1>4

\* Put.
LEMMA PutRefines ==
    ASSUME IInv, NEW k \in Keys, NEW v \in Values, Put(k, v)
    PROVE  DM!DNext \/ UNCHANGED DM!dvars
  <1> DEFINE rec == PutRecord(k, v)
  <1>1. rec \in Record /\ rec # Garbage /\ rec.key = k /\ rec.val = v
    BY RecordFields
  <1>2. /\ Exclusive /\ UNCHANGED <<fd, mode, scan, cursor, rd>>
        /\ \/ WriteOk(rec) /\ mem' = [mem EXCEPT ![k] = v]
           \/ WriteFails(rec) /\ UNCHANGED mem
    BY DEF Put
  <1> HIDE DEF rec
  <1> QED BY <1>1, <1>2, WriteRefines

\* Delete.
LEMMA DeleteRefines ==
    ASSUME IInv, NEW k \in Keys, Delete(k)
    PROVE  DM!DNext \/ UNCHANGED DM!dvars
  <1> DEFINE rec == Tombstone(k)
  <1>1. rec \in Record /\ rec # Garbage /\ rec.key = k /\ rec.val = None
    BY RecordFields
  <1>2. /\ Exclusive /\ UNCHANGED <<fd, mode, scan, cursor, rd>>
        /\ \/ WriteOk(rec) /\ mem' = [mem EXCEPT ![k] = None]
           \/ WriteFails(rec) /\ UNCHANGED mem
    BY DEF Delete
  <1> HIDE DEF rec
  <1> QED BY <1>1, <1>2, WriteRefines

\* The steps of Get.
LEMMA GetRefines ==
    ASSUME SingleReader, IInv, NEW r \in Readers, GetSteps(r)
    PROVE  DM!DNext \/ UNCHANGED DM!dvars
  <1>1. /\ TypeOK /\ ReaderOK(r) /\ file \in Seq(Record) /\ rd \in [Readers -> ReaderState]
        /\ rd[r] \in ReaderState
    BY DEF IInv, ReaderInv, TypeOK
  <1>2. \A q \in Readers : q = r
    BY DEF SingleReader
  <1>3. CASE \/ \E k \in Keys : GetLookup(r, k)
             \/ GetFlush(r) \/ GetSeek(r) \/ GetRead(r) \/ GetReturn(r)
    <2>1. UNCHANGED <<file, buf, synced, mode, mem>> /\ rd[r].pc # "reset"
      BY <1>3 DEF GetLookup, GetFlush, GetSeek, GetRead, GetReturn, diskVars
    <2>2. rd'[r].pc # "reset"
      <3>1. CASE \E k \in Keys : GetLookup(r, k)
        BY <1>1, <3>1 DEF GetLookup
      <3>2. CASE GetFlush(r)
        BY <1>1, <3>2 DEF GetFlush, ReaderState
      <3>3. CASE GetSeek(r)
        BY <1>1, <3>3 DEF GetSeek, ReaderState
      <3>4. CASE GetRead(r)
        BY <1>1, <3>4 DEF GetRead, ReaderState
      <3>5. CASE GetReturn(r)
        BY <1>1, <3>5 DEF GetReturn, Idle
      <3> QED BY <1>3, <3>1, <3>2, <3>3, <3>4, <3>5
    <2>3. Log' = Log
      BY <1>2, <2>1, <2>2 DEF Log
    <2>4. Reached' = Reached
      BY <2>1, <2>3 DEF Reached
    <2> QED BY <2>1, <2>4, SameRefines
  <1>4. CASE GetWrite(r)
    <2>1. rd[r].pc = "write" /\ UNCHANGED <<synced, mode, mem>>
      BY <1>4 DEF GetWrite
    <2>2. mode = "open" /\ ~\E q \in Readers : rd[q].pc = "reset"
      BY <1>1, <1>2, <2>1 DEF ReaderOK
    <2>3. Reached = Flushed
      BY <1>1, <2>2, LogType DEF Reached
    <2>4. CASE file' = Flushed /\ rd' = [rd EXCEPT ![r].pc = "reset"]
      <3>1. rd'[r].pc = "reset"
        BY <1>1, <2>4 DEF ReaderState
      <3>2. Reached' = file' \o <<>>
        BY <2>1, <2>2, <3>1 DEF Reached, Log
      <3>3. Flushed \o <<>> = Flushed
        BY <1>1, LogType, ConcatEmptySeq
      <3> QED BY <2>1, <2>3, <2>4, <3>2, <3>3, SameRefines
    <2>5. CASE FlushFails /\ rd' = [rd EXCEPT ![r].pc = "done", ![r].ret = Err]
      <3>1. rd'[r].pc = "done"
        BY <1>1, <2>5 DEF ReaderState
      <3>2. Reached' = file' \o buf'
        BY <1>2, <2>1, <2>2, <3>1 DEF Reached, Log
      <3>3. MapOf(file' \o buf') = Tip /\ Cands(file' \o buf', synced) = Cand
        BY <2>2, <2>5, FlushFailsRefines
      <3>4. Tip' = Tip /\ Cand' = Cand
        BY <2>1, <3>2, <3>3 DEF Tip, Cand
      <3> QED BY <2>1, <3>4, AbstractStutter
    <2> QED BY <1>4, <2>4, <2>5 DEF GetWrite
  <1>5. CASE GetReset(r)
    <2>1. rd[r].pc = "reset" /\ UNCHANGED <<file, synced, mode, mem>> /\ buf' = <<>>
      BY <1>5 DEF GetReset
    <2>2. rd'[r].pc = "seek"
      BY <1>1, <1>5 DEF GetReset, ReaderState
    <2>3. Log = file \o <<>> /\ Log' = file \o <<>>
      BY <1>2, <2>1, <2>2 DEF Log
    <2>4. Reached' = Reached
      BY <2>1, <2>3 DEF Reached
    <2> QED BY <2>1, <2>4, SameRefines
  <1> QED BY <1>3, <1>4, <1>5 DEF GetSteps

\* Flush and fsync.
LEMMA FlushAndSyncRefines ==
    ASSUME IInv, Exclusive, FlushAndSync, rd' = rd
    PROVE  /\ MapOf(file') \in Cands(file', synced') /\ Cands(file', synced') \subseteq Cand
           /\ \/ /\ MapOf(file' \o buf') = Tip
                 /\ Tip \in Cands(file' \o buf', synced') /\ Cands(file' \o buf', synced') \subseteq Cand
              \/ FlushFails /\ synced' = synced
              \/ file' \o buf' = Reached /\ synced' = synced
  <1>1. /\ TypeOK /\ LifeInv /\ mode = "open" /\ ~\E r \in Readers : rd[r].pc = "reset"
        /\ file \in Seq(Record) /\ buf \in Seq(Record)
    BY DEF IInv, Exclusive, TypeOK
  <1>2. /\ Flushed \in Seq(Record) /\ Len(Flushed) = Len(file) + Len(buf) /\ Len(file) \in Nat
        /\ Len(buf) \in Nat /\ synced \in Nat /\ synced <= Len(file) /\ Reached = Flushed
    BY <1>1, LogType, ReachedFacts DEF Reached
  <1>3. CASE FlushOk /\ (synced' = Len(Flushed) \/ synced' = synced)
    <2>1. file' = Flushed /\ file' \o buf' = Flushed
      BY <1>1, <1>3, FlushOkDoes
    <2>2. synced' \in Nat /\ synced <= synced' /\ synced' <= Len(Flushed)
      BY <1>2, <1>3
    <2>3. MapOf(Flushed) \in Cands(Flushed, synced')
      BY <1>2, <2>2, CandsTip
    <2>4. Cands(Flushed, synced') \subseteq Cands(Flushed, synced)
      BY <1>2, <2>2, CandsMono
    <2> QED BY <1>2, <2>1, <2>3, <2>4 DEF Tip, Cand
  <1>4. CASE FlushFails /\ UNCHANGED synced
    BY <1>1, <1>4, FlushFailsRefines
  <1>5. CASE UNCHANGED diskVars
    <2>1. UNCHANGED <<file, buf, synced>>
      BY <1>5 DEF diskVars
    <2>2. MapOf(file) \in Cands(file, synced)
      BY <1>1, <1>2, CandsTip
    <2>3. Cands(file, synced) \subseteq Cands(Flushed, synced)
      BY <1>1, <1>2, CandsPrefix DEF Flushed
    <2>4. file' \o buf' = Reached
      BY <1>2, <2>1 DEF Flushed
    <2> QED BY <1>2, <2>1, <2>2, <2>3, <2>4 DEF Cand
  <1> QED BY <1>3, <1>4, <1>5 DEF FlushAndSync

\* Sync.
LEMMA SyncRefines ==
    ASSUME IInv, Sync
    PROVE  DM!DNext \/ UNCHANGED DM!dvars
  <1>1. /\ Exclusive /\ FlushAndSync /\ UNCHANGED <<mode, rd, mem>> /\ mode = "open" /\ mode' = "open"
    BY DEF Sync, Exclusive
  <1>2. Reached' = file' \o buf'
    BY <1>1, LogExclusive DEF Reached
  <1>3. CASE /\ MapOf(file' \o buf') = Tip
             /\ Tip \in Cands(file' \o buf', synced') /\ Cands(file' \o buf', synced') \subseteq Cand
    <2>1. Tip' = Tip /\ Tip \in Cand' /\ Cand' \subseteq Cand
      BY <1>2, <1>3 DEF Tip, Cand
    <2> QED BY <1>1, <2>1, AbstractSettle
  <1>4. CASE FlushFails /\ synced' = synced
    BY <1>1, <1>4, FailedFlushRefines
  <1>5. CASE file' \o buf' = Reached /\ synced' = synced
    BY <1>1, <1>2, <1>5, SameRefines
  <1> QED BY <1>1, <1>3, <1>4, <1>5, FlushAndSyncRefines

\* Close.
LEMMA CloseRefines ==
    ASSUME IInv, Close
    PROVE  DM!DNext \/ UNCHANGED DM!dvars
  <1>1. /\ Exclusive /\ FlushAndSync /\ UNCHANGED <<rd, mem>> /\ mode' = "closed"
    BY DEF Close
  <1>2. MapOf(file') \in Cands(file', synced') /\ Cands(file', synced') \subseteq Cand
    BY <1>1, FlushAndSyncRefines
  <1>3. Reached' = file'
    BY <1>1 DEF Reached
  <1>4. Tip' \in Cand' /\ Cand' \subseteq Cand
    BY <1>2, <1>3 DEF Tip, Cand
  <1> QED BY <1>1, <1>4, AbstractStop

\* A compacted file: the answers are durable.
LEMMA CompactedRefines ==
    ASSUME IInv, Exclusive, ~werr, CopyReadable, NEW order \in CopyOrders, rd' = rd, mode' = mode,
           mem' = mem, buf' = <<>>, file' = Compacted(order), synced' = Len(order)
    PROVE  DM!DNext
  <1>1. TypeOK /\ HomeInv /\ mode = "open" /\ mode' = "open"
    BY DEF IInv, Exclusive
  <1>2. file' \in Seq(Record) /\ Len(file') = synced' /\ synced' \in Nat /\ MapOf(file') = mem
    BY <1>1, CompactedDoes
  <1>3. Reached' = file'
    <2>1. Reached' = file' \o <<>>
      BY <1>1, LogExclusive DEF Reached
    <2> QED BY <1>2, <2>1, ConcatEmptySeq
  <1>4. Cands(file', synced') = {mem}
    <2>1. synced'..Len(file') = {synced'}
      BY <1>2
    <2>2. SubSeq(file', 1, synced') = file'
      BY <1>2, SubSeqFull
    <2> QED BY <1>2, <2>1, <2>2 DEF Cands
  <1>5. Tip' = mem /\ Cand' = {mem}
    BY <1>2, <1>3, <1>4 DEF Tip, Cand
  <1> QED BY <1>1, <1>5, AbstractCheckpoint

\* Compact.
LEMMA CompactRefines ==
    ASSUME IInv, Compact
    PROVE  DM!DNext \/ UNCHANGED DM!dvars
  <1>1. PICK order \in CopyOrders : file' = Compacted(order) /\ synced' = Len(order)
    BY DEF Compact
  <1>2. Exclusive /\ ~werr /\ CopyReadable /\ UNCHANGED <<rd, mode, mem>> /\ buf' = <<>>
    BY DEF Compact
  <1> QED BY <1>1, <1>2, CompactedRefines

\* Compact that fails.
LEMMA CompactFailsRefines ==
    ASSUME IInv, CompactFails
    PROVE  DM!DNext \/ UNCHANGED DM!dvars
  <1>1. Exclusive /\ UNCHANGED <<mode, rd, mem>> /\ mode = "open" /\ mode' = "open"
    BY DEF CompactFails, Exclusive
  <1>2. CASE FlushFails /\ UNCHANGED synced
    BY <1>1, <1>2, FailedFlushRefines
  <1>3. CASE FlushOk /\ UNCHANGED synced
    <2>1. file' \o buf' = Flushed
      BY <1>3, FlushOkDoes DEF IInv
    <2>2. Log = Flushed /\ Log' = file' \o buf'
      BY <1>1, LogExclusive
    <2>3. Reached' = Reached
      BY <1>1, <2>1, <2>2 DEF Reached
    <2> QED BY <1>1, <1>3, <2>3, SameRefines
  <1>4. CASE /\ ~werr /\ CopyReadable /\ buf' = <<>>
             /\ \E order \in CopyOrders : file' = Compacted(order) /\ synced' = Len(order)
    <2>1. PICK order \in CopyOrders : file' = Compacted(order) /\ synced' = Len(order)
      BY <1>4
    <2> QED BY <1>1, <1>4, <2>1, CompactedRefines
  <1> QED BY <1>2, <1>3, <1>4 DEF CompactFails

\* A process that ends while its file is torn or cut behind what is synced.
LEMMA StopRefines ==
    ASSUME IInv, mode' # "open", mem' = mem, NEW n \in Nat, synced <= n, n <= Len(file),
           NEW torn \in BOOLEAN, file' = SubSeq(file, 1, n) \o TornTail(torn),
           \/ synced' = synced
           \/ synced' = Len(file')
    PROVE  DM!DNext
  <1> DEFINE a == SubSeq(file, 1, n)
             t == SubSeq(file, n + 1, Len(file))
             f == a \o TornTail(torn)
  <1>1. /\ file \in Seq(Record) /\ Len(file) \in Nat /\ synced \in Nat /\ synced <= Len(file)
        /\ Reached \in Seq(Record)
    BY ReachedFacts
  <1>2. PICK b \in Seq(Record) : Reached = file \o b
    BY ReachedFacts
  <1>3. n \in 0..Len(file)
    BY <1>1
  <1>4. a \in Seq(Record) /\ Len(a) = n /\ t \in Seq(Record)
    BY <1>1, <1>3, PrefixProps
  <1>5. a \o t = file
    <2>1. 1 \in 1..(Len(file) + 1) /\ n \in (1 - 1)..Len(file) /\ Len(file) \in n..Len(file)
      BY <1>1, <1>3
    <2>2. SubSeq(file, 1, n) \o SubSeq(file, n + 1, Len(file)) = SubSeq(file, 1, Len(file))
      BY <1>1, <2>1, ConcatAdjacentSubSeq
    <2>3. SubSeq(file, 1, Len(file)) = file
      BY <1>1, SubSeqFull
    <2> QED BY <2>2, <2>3
  <1>6. TornTail(torn) \in Seq(Record) /\ Len(TornTail(torn)) \in Nat
    BY TornTailProps
  <1>7. file' = f
    OBVIOUS
  <1> HIDE DEF a, t
  <1>8. f \in Seq(Record) /\ Len(f) = n + Len(TornTail(torn))
    BY <1>4, <1>6, ConcatProperties
  <1>9. synced <= Len(a)
    BY <1>4
  <1>10. Cands(f, synced) = Cands(a, synced)
    <2>1. a \in Seq(Record) /\ t \in Seq(Record) /\ synced \in Nat /\ torn \in BOOLEAN
      BY <1>1, <1>4
    <2> QED BY <1>9, <2>1, CandsTorn, Zenon
  <1>11. Cands(a, synced) \subseteq Cands(file, synced)
    <2>1. Cands(a, synced) \subseteq Cands(a \o t, synced)
      BY <1>1, <1>4, CandsPrefix
    <2> QED BY <1>5, <2>1
  <1>12. Cands(file, synced) \subseteq Cand
    BY <1>1, <1>2, CandsPrefix DEF Cand
  <1> HIDE DEF f
  <1>13. synced' \in Nat /\ synced <= synced' /\ synced' <= Len(f)
    BY <1>1, <1>6, <1>7, <1>8
  <1>14. Cands(f, synced') \subseteq Cands(f, synced)
    BY <1>1, <1>8, <1>13, CandsMono
  <1>15. MapOf(f) \in Cands(f, synced')
    BY <1>8, <1>13, CandsTip
  <1>16. Reached' = f
    BY <1>7 DEF Reached
  <1>17. Tip' \in Cand' /\ Cand' \subseteq Cand
    BY <1>10, <1>11, <1>12, <1>14, <1>15, <1>16 DEF Tip, Cand
  <1> QED BY <1>17, AbstractStop

\* Kill.
LEMMA KillRefines ==
    ASSUME IInv, Kill
    PROVE  DM!DNext \/ UNCHANGED DM!dvars
  <1>1. /\ file \in Seq(Record) /\ Len(file) \in Nat /\ synced \in Nat /\ synced <= Len(file)
    BY ReachedFacts
  <1>2. SubSeq(file, 1, Len(file)) = file
    BY <1>1, SubSeqFull
  <1>3. file' = SubSeq(file, 1, Len(file)) \o TornTail(split)
    BY <1>2 DEF Kill
  <1>4. mode' # "open" /\ mem' = mem /\ synced' = synced
    BY DEF Kill
  <1>5. split \in BOOLEAN
    BY DEF IInv, TypeOK
  <1>6. Len(file) <= Len(file)
    BY <1>1
  <1> QED BY <1>1, <1>3, <1>4, <1>5, <1>6, StopRefines

\* PowerLoss.
LEMMA PowerLossRefines ==
    ASSUME IInv, PowerLoss
    PROVE  DM!DNext \/ UNCHANGED DM!dvars
  <1>1. /\ file \in Seq(Record) /\ Len(file) \in Nat /\ synced \in Nat /\ synced <= Len(file)
    BY ReachedFacts
  <1>2. PICK n \in synced..Len(file), torn \in BOOLEAN :
           file' = SubSeq(file, 1, n) \o TornTail(torn) /\ synced' = Len(file')
    BY DEF PowerLoss
  <1>3. n \in Nat /\ synced <= n /\ n <= Len(file)
    BY <1>1
  <1>4. mode' # "open" /\ mem' = mem
    BY DEF PowerLoss
  <1> QED BY <1>2, <1>3, <1>4, StopRefines

\* Opening and replaying the file: nobody is served yet.
LEMMA ReplayRefines ==
    ASSUME IInv, Open \/ RebuildStep
    PROVE  DM!DNext \/ UNCHANGED DM!dvars
  <1>1. mode # "open" /\ mode' # "open" /\ UNCHANGED <<file, synced, mem>>
    BY DEF Open, RebuildStep, diskVars
  <1>2. Reached' = Reached
    BY <1>1 DEF Reached
  <1> QED BY <1>1, <1>2, SameRefines

\* The engine answers again: from the map of the file.
LEMMA RebuildDoneRefines ==
    ASSUME IInv, RebuildDone
    PROVE  DM!DNext \/ UNCHANGED DM!dvars
  <1>1. mode = "rebuild" /\ mode' = "open" /\ UNCHANGED <<file, buf, synced, rd>>
    BY DEF RebuildDone, diskVars
  <1>2. file \in Seq(Record) /\ buf = <<>>
    BY <1>1 DEF IInv, TypeOK, LifeInv
  <1>3. \A r \in Readers : rd[r].pc = "idle"
    BY <1>1, NobodyReads
  <1>4. Log' = file
    <2>1. ~\E r \in Readers : rd'[r].pc = "reset"
      BY <1>1, <1>3
    <2>2. Log' = file \o <<>>
      BY <1>1, <1>2, <2>1 DEF Log
    <2> QED BY <1>2, <2>2, ConcatEmptySeq
  <1>5. Reached = file /\ Reached' = file
    BY <1>1, <1>4 DEF Reached
  <1>6. mem' = MapOf(file)
    BY ServesFile
  <1>7. mem' = Tip /\ Tip' = Tip /\ Cand' = Cand
    BY <1>1, <1>5, <1>6 DEF Tip, Cand
  <1> QED BY <1>1, <1>7, AbstractRestart

-----------------------------------------------------------------------------
(***************************************************************************)
(* The theorem.                                                            *)
(***************************************************************************)

\* An empty data directory is an empty map.
LEMMA InitRefines ==
    ASSUME Init
    PROVE  DM!DInit
  <1>1. /\ file = <<>> /\ buf = <<>> /\ synced = 0 /\ mode = "open"
        /\ rd = [r \in Readers |-> Idle] /\ mem = [k \in Keys |-> None]
    BY DEF Init
  <1>2. ~\E r \in Readers : rd[r].pc = "reset"
    BY <1>1 DEF Idle
  <1>3. Reached = <<>>
    <2>1. Reached = <<>> \o <<>>
      BY <1>1, <1>2 DEF Reached, Log
    <2> QED BY <2>1
  <1>4. Tip = mem
    BY <1>1, <1>3, MapOfEmpty DEF Tip
  <1>5. Cand = {mem}
    <2> DEFINE e == <<>>
    <2>1. Len(e) = 0 /\ SubSeq(e, 1, 0) = e /\ 0..0 = {0}
      BY SubSeqEmpty
    <2>2. Reached = e /\ MapOf(e) = mem
      BY <1>3, <1>4 DEF Tip
    <2> HIDE DEF e
    <2>3. Cands(e, 0) = {MapOf(SubSeq(e, 1, i)) : i \in {0}}
      BY <2>1 DEF Cands
    <2>4. Cands(e, 0) = {MapOf(e)}
      BY <2>1, <2>3
    <2> QED BY <1>1, <2>2, <2>4 DEF Cand
  <1>6. mem = [k \in Keys |-> None] /\ (mode = "open") = TRUE
    BY <1>1
  <1> QED BY <1>4, <1>5, <1>6 DEF DM!DInit, Tip, Cand, Cands

\* Every step of the engine is a step of the map, or none.
LEMMA NextRefines ==
    ASSUME SingleReader, IInv, Next
    PROVE  DM!DNext \/ UNCHANGED DM!dvars
  <1>1. Step
    BY DEF Next
  <1>2. CASE \E k \in Keys, v \in Values : Put(k, v)
    BY <1>2, PutRefines
  <1>3. CASE \E k \in Keys : Delete(k)
    BY <1>3, DeleteRefines
  <1>4. CASE \E r \in Readers : GetSteps(r)
    BY <1>4, GetRefines
  <1>5. CASE Sync
    BY <1>5, SyncRefines
  <1>6. CASE Close
    BY <1>6, CloseRefines
  <1>7. CASE Compact
    BY <1>7, CompactRefines
  <1>8. CASE CompactFails
    BY <1>8, CompactFailsRefines
  <1>9. CASE Kill
    BY <1>9, KillRefines
  <1>10. CASE PowerLoss
    BY <1>10, PowerLossRefines
  <1>11. CASE Open \/ RebuildStep
    BY <1>11, ReplayRefines
  <1>12. CASE RebuildDone
    BY <1>12, RebuildDoneRefines
  <1> QED BY <1>1, <1>2, <1>3, <1>4, <1>5, <1>6, <1>7, <1>8, <1>9, <1>10, <1>11, <1>12 DEF Step

\* And a stuttering step is none.
LEMMA StutterRefines ==
    ASSUME UNCHANGED vars
    PROVE  UNCHANGED DM!dvars
  <1>1. UNCHANGED <<file, buf, synced, mode, rd, mem>>
    BY DEF vars
  <1>2. Log' = Log
    BY <1>1 DEF Log
  <1>3. Reached' = Reached
    BY <1>1, <1>2 DEF Reached
  <1> QED BY <1>1, <1>3, SameRefines

\* engine.go and bitcask.go: the engine implements DurableMap.  Whatever
\* mixture of flushes, failed system calls, compactions and crashes happens, a
\* restart serves the map of a prefix of the writes, none older than the last
\* fsync.
THEOREM Refines ==
    ASSUME SingleReader
    PROVE  Spec => ImplementsDurableMap
  <1>1. Init => DM!DInit
    BY InitRefines
  <1>2. IInv /\ [Next]_vars => [DM!DNext]_(DM!dvars)
    BY NextRefines, StutterRefines
  <1> QED BY <1>1, <1>2, Invariance, PTL DEF Spec, ImplementsDurableMap, DM!DSpec

=============================================================================
