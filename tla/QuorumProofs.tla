---------------------------- MODULE QuorumProofs ----------------------------
(***************************************************************************)
(* Proofs about QuorumManager: the channel is closed once, the verdict is  *)
(* right and so is the entry chosen, for any number of replicas and any    *)
(* quorum.                                                                 *)
(***************************************************************************)
EXTENDS QuorumManager, FiniteSetTheorems, TLAPS

\* The goroutines that have counted a success.
Counted == {w \in Succeeded : Recorded(w)}

\* The part of the types that the arguments below need.
WorkType ==
    /\ pc \in [Workers -> {"exec", "lock", "append", "check", "close", "unlock", "wgdone", "exit"}]
    /\ out \in [Workers -> Outcomes \cup {Pending}]
    /\ mu \in Workers \cup {Free}
    /\ success \in Nat
    /\ waiter \in {"wait", "close", "exit"}
    /\ main \in {"wait", "latest", "return", "returned"}
    /\ level \in Levels
    /\ kind \in {"read", "write"}

\* The mutex: a goroutine between lock and unlock is its holder.
Locked ==
    \A w \in Workers : pc[w] \in {"append", "check", "close", "unlock"} <=> mu = w

\* Whoever is about to close "done" has found it open, and nobody else can
\* close it meanwhile: the waiter looks only when all goroutines are through.
Closing ==
    /\ waiter # "wait" => \A w \in Workers : pc[w] = "exit"
    /\ (\E w \in Workers : pc[w] = "close") => ~done
    /\ waiter = "close" => ~done

\* The counter counts the successes recorded, and only the goroutine that
\* completes the quorum, or the waiter, wakes the caller.
Counting ==
    /\ success = Cardinality(Counted)
    /\ \A w \in Workers : pc[w] = "close" => success >= Required
    /\ done => success >= Required \/ waiter = "exit"

Verdict ==
    main # "wait" =>
        /\ verdict => success >= Required
        /\ ~verdict => success < Required /\ waiter = "exit"

QInv == WorkType /\ Locked /\ Closing /\ ~panicked /\ Counting /\ Verdict


LEMMA RequiredNat == level \in Levels => Required \in Nat
BY QuorumConstants DEF Levels, Required

LEMMA InitQ == Init => QInv
<1> SUFFICES ASSUME Init PROVE QInv
    OBVIOUS
<1>1. WorkType
    BY DEF Init, WorkType, Outcomes
<1>2. Locked
    BY QuorumConstants DEF Init, Locked, Free
<1>3. ~done /\ ~panicked
    BY DEF Init
<1>4. Closing
    BY <1>3 DEF Init, Closing
<1>5. Counting
  <2>1. Counted = {}
      BY DEF Init, Counted, Succeeded, Pending
  <2> QED
      BY <1>3, <2>1, FS_EmptySet DEF Init, Counting
<1>6. Verdict
    BY DEF Init, Verdict
<1> QED
    BY <1>1, <1>2, <1>3, <1>4, <1>5, <1>6 DEF QInv

\* The request does not change, and neither does the quorum it needs.
LEMMA SameQuorum == Next => level' = level /\ kind' = kind /\ Required' = Required
<1> SUFFICES ASSUME Next PROVE level' = level /\ kind' = kind
    BY DEF Required
<1> QED
    BY DEF Next, Worker, Waiter, Main, Execute, Record, FillSlot, CheckQuorum, CloseDone, Unlock,
           WgDone, WaitAll, WaiterClose, Wake, PickLatest, Return

LEMMA WorkStep == QInv /\ Next => WorkType'
<1> SUFFICES ASSUME WorkType, Next PROVE WorkType'
    BY DEF QInv
<1>0. level' = level /\ kind' = kind
    BY SameQuorum
<1>1. ASSUME NEW w \in Workers, Execute(w) PROVE WorkType'
    BY <1>0, <1>1 DEF WorkType, Execute, Goto, callVars
<1>2. ASSUME NEW w \in Workers, Record(w) PROVE WorkType'
  <2>1. success' \in Nat /\ mu' \in Workers \cup {Free}
      BY <1>2 DEF WorkType, Record
  <2>2. pc' \in [Workers -> {"exec", "lock", "append", "check", "close", "unlock", "wgdone", "exit"}]
      BY <1>2 DEF WorkType, Record, Goto
  <2> QED
      BY <1>0, <1>2, <2>1, <2>2 DEF WorkType, Record, callVars
<1>3. ASSUME NEW w \in Workers, FillSlot(w) PROVE WorkType'
    BY <1>0, <1>3 DEF WorkType, FillSlot, Goto, callVars
<1>4. ASSUME NEW w \in Workers, CheckQuorum(w) PROVE WorkType'
    BY <1>0, <1>4 DEF WorkType, CheckQuorum, Goto, callVars
<1>5. ASSUME NEW w \in Workers, CloseDone(w) PROVE WorkType'
    BY <1>0, <1>5 DEF WorkType, CloseDone, Goto, callVars
<1>6. ASSUME NEW w \in Workers, Unlock(w) PROVE WorkType'
    BY <1>0, <1>6 DEF WorkType, Unlock, Goto, callVars
<1>7. ASSUME NEW w \in Workers, WgDone(w) PROVE WorkType'
    BY <1>0, <1>7 DEF WorkType, WgDone, Goto, callVars
<1>8. CASE Waiter
    BY <1>0, <1>8 DEF WorkType, Waiter, WaitAll, WaiterClose, workVars
<1>9. CASE Main
    BY <1>0, <1>9 DEF WorkType, Main, Wake, PickLatest, Return, workVars
<1> QED
    BY <1>1, <1>2, <1>3, <1>4, <1>5, <1>6, <1>7, <1>8, <1>9 DEF Next, Worker

LEMMA LockedStep == QInv /\ Next => Locked'
<1> SUFFICES ASSUME WorkType, Locked, Next PROVE Locked'
    BY DEF QInv
<1>1. ASSUME NEW w \in Workers, Worker(w) PROVE Locked'
    BY <1>1, QuorumConstants
    DEF WorkType, Locked, Worker, Execute, Record, FillSlot, CheckQuorum, CloseDone, Unlock,
        WgDone, Goto, Free
<1>2. CASE Waiter \/ Main
  <2>1. pc' = pc /\ mu' = mu
      BY <1>2 DEF Waiter, Main, WaitAll, WaiterClose, Wake, PickLatest, Return, workVars
  <2> QED
      BY <2>1 DEF Locked
<1> QED
    BY <1>1, <1>2 DEF Next

\* The channel is open whenever somebody closes it.
LEMMA ClosingStep == QInv /\ Next => Closing' /\ ~panicked'
<1> SUFFICES ASSUME QInv, Next PROVE Closing' /\ ~panicked'
    OBVIOUS
<1> USE DEF QInv
<1>1. ASSUME NEW w \in Workers, Execute(w) \/ Record(w) \/ FillSlot(w) \/ Unlock(w) \/ WgDone(w)
      PROVE Closing' /\ ~panicked'
  <2>1. done' = done /\ panicked' = panicked /\ waiter' = waiter /\ pc[w] # "exit"
      BY <1>1 DEF Execute, Record, FillSlot, Unlock, WgDone, callVars
  <2>2. waiter = "wait"
      BY <2>1 DEF Closing
  <2>3. \A v \in Workers : pc'[v] = "close" => pc[v] = "close"
      BY <1>1 DEF WorkType, Execute, Record, FillSlot, Unlock, WgDone, Goto
  <2> QED
      BY <2>1, <2>2, <2>3 DEF Closing
<1>2. ASSUME NEW w \in Workers, CheckQuorum(w) PROVE Closing' /\ ~panicked'
  <2>1. done' = done /\ panicked' = panicked /\ waiter' = waiter /\ pc[w] # "exit"
      BY <1>2 DEF CheckQuorum, callVars
  <2>2. waiter = "wait"
      BY <2>1 DEF Closing
  <2>3. \A v \in Workers : pc'[v] = "close" => v = w \/ pc[v] = "close"
      BY <1>2 DEF WorkType, CheckQuorum, Goto
  <2>4. pc'[w] = "close" => ~done
      BY <1>2 DEF WorkType, CheckQuorum, Goto
  <2> QED
      BY <2>1, <2>2, <2>3, <2>4 DEF Closing
<1>3. ASSUME NEW w \in Workers, CloseDone(w) PROVE Closing' /\ ~panicked'
  <2>1. ~done
      BY <1>3 DEF CloseDone, Closing
  <2>2. ~panicked'
      BY <1>3, <2>1, Zenon DEF CloseDone
  <2>3. waiter = "wait" /\ waiter' = waiter
      BY <1>3 DEF CloseDone, Closing, callVars
  <2>4. \A v \in Workers : pc'[v] # "close"
    <3>1. mu = w
        BY <1>3 DEF CloseDone, Locked
    <3> QED
        BY <1>3, <3>1 DEF CloseDone, Goto, WorkType, Locked
  <2> QED
      BY <2>2, <2>3, <2>4 DEF Closing
<1>4. CASE WaitAll
  <2>1. done' = done /\ panicked' = panicked /\ pc' = pc /\ \A v \in Workers : pc[v] = "exit"
      BY <1>4 DEF WaitAll, workVars
  <2>2. waiter' = "close" => ~done
      BY <1>4 DEF WaitAll
  <2> QED
      BY <2>1, <2>2 DEF Closing
<1>5. CASE WaiterClose
  <2>1. ~done /\ \A v \in Workers : pc[v] = "exit"
      BY <1>5 DEF WaiterClose, Closing
  <2>2. ~panicked'
      BY <1>5, <2>1, Zenon DEF WaiterClose
  <2>3. pc' = pc /\ waiter' = "exit"
      BY <1>5 DEF WaiterClose, workVars
  <2> QED
      BY <2>1, <2>2, <2>3 DEF Closing
<1>6. CASE Main
  <2>1. done' = done /\ panicked' = panicked /\ pc' = pc /\ waiter' = waiter
      BY <1>6 DEF Main, Wake, PickLatest, Return, workVars
  <2> QED
      BY <2>1 DEF Closing
<1> QED
    BY <1>1, <1>2, <1>3, <1>4, <1>5, <1>6 DEF Next, Worker, Waiter

\* The counter moves with the set it counts.
LEMMA CounterStep == QInv /\ Next => success' = Cardinality(Counted')
<1> SUFFICES ASSUME WorkType, success = Cardinality(Counted), Next
             PROVE  success' = Cardinality(Counted')
    BY DEF QInv, Counting
<1>1. ASSUME NEW w \in Workers, Execute(w) PROVE success' = Cardinality(Counted')
  <2>1. Counted' = Counted
      BY <1>1 DEF Execute, Goto, WorkType, Counted, Succeeded, Recorded
  <2> QED
      BY <1>1, <2>1 DEF Execute
<1>2. ASSUME NEW w \in Workers, Record(w) PROVE success' = Cardinality(Counted')
  <2>1. out' = out /\ ~Recorded(w) /\ Recorded(w)'
      BY <1>2 DEF Record, Goto, WorkType, Recorded
  <2>2. \A v \in Workers \ {w} : Recorded(v)' <=> Recorded(v)
      BY <1>2 DEF Record, Goto, WorkType, Recorded
  <2>3. CASE out[w].st = "ok"
    <3>1. Counted' = Counted \cup {w} /\ w \notin Counted
        BY <2>1, <2>2, <2>3 DEF Counted, Succeeded
    <3>2. IsFiniteSet(Counted)
        BY QuorumConstants, FS_Subset DEF Counted, Succeeded
    <3> QED
        BY <1>2, <2>3, <3>1, <3>2, FS_AddElement DEF Record
  <2>4. CASE out[w].st # "ok"
    <3>1. Counted' = Counted
        BY <2>1, <2>2, <2>4 DEF Counted, Succeeded
    <3> QED
        BY <1>2, <2>4, <3>1 DEF Record, WorkType
  <2> QED
      BY <2>3, <2>4
<1>3. ASSUME NEW w \in Workers,
             FillSlot(w) \/ CheckQuorum(w) \/ CloseDone(w) \/ Unlock(w) \/ WgDone(w)
      PROVE success' = Cardinality(Counted')
  <2>1. out' = out /\ success' = success
      BY <1>3 DEF FillSlot, CheckQuorum, CloseDone, Unlock, WgDone
  <2>2. \A v \in Workers : Recorded(v)' <=> Recorded(v)
      BY <1>3 DEF FillSlot, CheckQuorum, CloseDone, Unlock, WgDone, Goto, WorkType, Recorded
  <2>3. Counted' = Counted
      BY <2>1, <2>2 DEF Counted, Succeeded
  <2> QED
      BY <2>1, <2>3
<1>4. CASE Waiter \/ Main
  <2>1. pc' = pc /\ out' = out /\ success' = success
      BY <1>4 DEF Waiter, Main, WaitAll, WaiterClose, Wake, PickLatest, Return, workVars
  <2> QED
      BY <2>1 DEF Counted, Succeeded, Recorded
<1> QED
    BY <1>1, <1>2, <1>3, <1>4 DEF Next, Worker

\* The counter never goes down, and "done" is closed for one of two reasons.
LEMMA CountingStep == QInv /\ Next => Counting' /\ success' >= success
<1> SUFFICES ASSUME QInv, Next PROVE Counting' /\ success' >= success
    OBVIOUS
<1> USE DEF QInv
<1>0. Required' = Required /\ Required \in Nat /\ success \in Nat
    BY SameQuorum, RequiredNat DEF WorkType
<1>1. success' = Cardinality(Counted')
    BY CounterStep
<1>2. ASSUME NEW w \in Workers, Execute(w) \/ Record(w) \/ FillSlot(w) \/ Unlock(w) \/ WgDone(w)
      PROVE Counting' /\ success' >= success
  <2>1. done' = done /\ waiter' = waiter
      BY <1>2 DEF Execute, Record, FillSlot, Unlock, WgDone, callVars
  <2>2. success' >= success
      BY <1>0, <1>2 DEF Execute, Record, FillSlot, Unlock, WgDone
  <2>3. \A v \in Workers : pc'[v] = "close" => pc[v] = "close"
      BY <1>2 DEF WorkType, Execute, Record, FillSlot, Unlock, WgDone, Goto
  <2>4. success' \in Nat
      BY WorkStep DEF WorkType
  <2> QED
      BY <1>0, <1>1, <2>1, <2>2, <2>3, <2>4 DEF Counting
<1>3. ASSUME NEW w \in Workers, CheckQuorum(w) PROVE Counting' /\ success' >= success
  <2>1. done' = done /\ waiter' = waiter /\ success' = success
      BY <1>3 DEF CheckQuorum, callVars
  <2>2. \A v \in Workers : pc'[v] = "close" => pc[v] = "close" \/ success >= Required
      BY <1>3 DEF WorkType, CheckQuorum, Goto
  <2> QED
      BY <1>0, <1>1, <2>1, <2>2 DEF Counting
<1>4. ASSUME NEW w \in Workers, CloseDone(w) PROVE Counting' /\ success' >= success
  <2>1. success' = success /\ success >= Required
      BY <1>4 DEF CloseDone, Counting
  <2>2. \A v \in Workers : pc'[v] = "close" => pc[v] = "close"
      BY <1>4 DEF WorkType, CloseDone, Goto
  <2> QED
      BY <1>0, <1>1, <2>1, <2>2 DEF Counting
<1>5. CASE WaitAll
  <2>1. pc' = pc /\ success' = success /\ done' = done /\ waiter = "wait"
      BY <1>5 DEF WaitAll, workVars
  <2> QED
      BY <1>0, <1>1, <2>1 DEF Counting
<1>6. CASE WaiterClose
  <2>1. pc' = pc /\ success' = success /\ waiter' = "exit"
      BY <1>6 DEF WaiterClose, workVars
  <2> QED
      BY <1>0, <1>1, <2>1 DEF Counting
<1>7. CASE Main
  <2>1. pc' = pc /\ success' = success /\ done' = done /\ waiter' = waiter
      BY <1>7 DEF Main, Wake, PickLatest, Return, workVars
  <2> QED
      BY <1>0, <1>1, <2>1 DEF Counting
<1> QED
    BY <1>2, <1>3, <1>4, <1>5, <1>6, <1>7 DEF Next, Worker, Waiter

\* A verdict, once given, stays right: success can only become truer, and a
\* failure is given when nothing can change any more.
LEMMA VerdictStep == QInv /\ Next => Verdict'
<1> SUFFICES ASSUME QInv, Next PROVE Verdict'
    OBVIOUS
<1> USE DEF QInv
<1>0. /\ Required' = Required /\ Required \in Nat
      /\ success \in Nat /\ success' \in Nat /\ success' >= success
    BY SameQuorum, RequiredNat, WorkStep, CountingStep DEF WorkType
<1>1. CASE \E w \in Workers : Worker(w)
  <2>1. PICK w \in Workers : Worker(w)
      BY <1>1
  <2>2. main' = main /\ verdict' = verdict /\ waiter' = waiter /\ pc[w] # "exit"
      BY <2>1 DEF Worker, Execute, Record, FillSlot, CheckQuorum, CloseDone, Unlock, WgDone,
                  callVars
  <2>3. waiter = "wait"
      BY <2>2 DEF Closing
  <2> QED
      BY <1>0, <2>2, <2>3 DEF Verdict
<1>2. CASE Waiter
  <2>1. main' = main /\ verdict' = verdict /\ success' = success /\ waiter # "exit"
      BY <1>2 DEF Waiter, WaitAll, WaiterClose, workVars
  <2> QED
      BY <1>0, <2>1 DEF Verdict
<1>3. CASE Wake
  <2>1. success' = success /\ waiter' = waiter
      BY <1>3 DEF Wake, workVars
  <2>2. (verdict' <=> success >= Required) /\ done
      BY <1>3 DEF Wake
  <2>3. success >= Required \/ waiter = "exit"
      BY <2>2 DEF Counting
  <2> QED
      BY <1>0, <2>1, <2>2, <2>3 DEF Verdict
<1>4. CASE PickLatest \/ Return
  <2>1. success' = success /\ waiter' = waiter /\ verdict' = verdict /\ main # "wait"
      BY <1>4 DEF PickLatest, Return, workVars
  <2> QED
      BY <1>0, <2>1 DEF Verdict
<1> QED
    BY <1>1, <1>2, <1>3, <1>4 DEF Next, Main

LEMMA NextQ == QInv /\ [Next]_vars => QInv'
<1> SUFFICES ASSUME QInv, [Next]_vars PROVE QInv'
    OBVIOUS
<1>1. CASE Next
    BY <1>1, WorkStep, LockedStep, ClosingStep, CountingStep, VerdictStep DEF QInv
<1>2. CASE UNCHANGED vars
    BY <1>2 DEF vars, QInv, WorkType, Locked, Closing, Counting, Counted, Succeeded, Recorded,
                Required, Verdict
<1> QED
    BY <1>1, <1>2

\* For every number of replicas: the channel "done" is never closed twice,
\* although the goroutine that completes the quorum and the waiter both close
\* it, and only the first holds the mutex.
THEOREM ClosedOnce == Spec => []NeverClosedTwice
<1>1. QInv => NeverClosedTwice
    BY DEF QInv, NeverClosedTwice
<1> QED
    BY <1>1, InitQ, NextQ, PTL DEF Spec

\* For every number of replicas, every quorum and every level: the verdict of
\* ExecuteRead and ExecuteWrite is right, although it is computed without the
\* mutex while goroutines are still recording.
THEOREM VerdictCorrect == Spec => []VerdictExact
<1>1. QInv => VerdictExact
  <2> SUFFICES ASSUME QInv, main # "wait" PROVE VerdictExact
      BY DEF VerdictExact
  <2> USE DEF QInv
  <2>1. CASE verdict
      BY <2>1 DEF Verdict, Counting, VerdictExact, Counted
  <2>2. CASE ~verdict
    <3>1. success < Required /\ waiter = "exit"
        BY <2>2 DEF Verdict
    <3>2. \A w \in Workers : pc[w] = "exit"
        BY <3>1 DEF Closing
    <3>3. (\A w \in Workers : Recorded(w)) /\ Counted = Succeeded
        BY <3>2 DEF Recorded, Counted, Succeeded
    <3> QED
        BY <2>2, <3>1, <3>3 DEF Counting, VerdictExact
  <2> QED
      BY <2>1, <2>2
<1> QED
    BY <1>1, InitQ, NextQ, PTL DEF Spec

-----------------------------------------------------------------------------
(***************************************************************************)
(* The slice that goroutines append to under the mutex and the caller      *)
(* reads without it.                                                       *)
(***************************************************************************)

\* The types that the arguments above do without.
CallType ==
    /\ errors \in Nat
    /\ done \in BOOLEAN
    /\ panicked \in BOOLEAN
    /\ verdict \in BOOLEAN
    /\ latest \in Seen
    /\ returned \in Nat

Slot == [by : Workers, full : BOOLEAN]

\* A slot belongs to a goroutine that has recorded its outcome, and is being
\* written only while that goroutine is inside append.
Slots ==
    /\ entries \in Seq(Slot)
    /\ kind = "read" => Len(entries) = success
    /\ \A i \in 1..Len(entries) : Recorded(entries[i].by)
    /\ \A i \in 1..Len(entries) : ~entries[i].full => pc[entries[i].by] = "append"

\* The slots of the quorum were written before "done" was closed.
QuorumWritten ==
    kind = "read" /\ done /\ success >= Required =>
        \A i \in 1..Required : entries[i].full

\* The caller is woken by "done", and what it has chosen is no older than the
\* slots of the quorum.
Chosen ==
    /\ main # "wait" => done
    /\ kind = "read" /\ verdict /\ main \in {"return", "returned"} =>
          \A i \in 1..Required : latest.ts >= out[entries[i].by].ts
    /\ kind = "read" /\ verdict /\ main = "returned" => returned >= Required

SInv == QInv /\ CallType /\ Slots /\ QuorumWritten /\ Chosen

LEMMA InitS == Init => SInv
<1> SUFFICES ASSUME Init PROVE SInv
    OBVIOUS
<1>1. CallType
  <2>1. done \in BOOLEAN /\ panicked \in BOOLEAN /\ verdict \in BOOLEAN
      BY Zenon DEF Init
  <2>2. errors \in Nat /\ latest \in Seen /\ returned \in Nat
      BY DEF Init, Seen, NoValue
  <2> QED
      BY <2>1, <2>2 DEF CallType
<1>2. Slots
    BY DEF Init, Slots
<1>3. QuorumWritten /\ Chosen
    BY DEF Init, QuorumWritten, Chosen
<1> QED
    BY <1>1, <1>2, <1>3, InitQ DEF SInv

\* Facts about sequences.
LEMMA SeqHas ==
    ASSUME NEW S, NEW s \in Seq(S)
    PROVE  Len(s) \in Nat /\ DOMAIN s = 1..Len(s) /\ \A i \in 1..Len(s) : s[i] \in S
OBVIOUS

LEMMA SeqOf ==
    ASSUME NEW S, NEW n \in Nat, NEW f(_), \A i \in 1..n : f(i) \in S
    PROVE  [i \in 1..n |-> f(i)] \in Seq(S) /\ Len([i \in 1..n |-> f(i)]) = n
OBVIOUS

LEMMA SlotsHas ==
    ASSUME Slots
    PROVE  /\ Len(entries) \in Nat /\ DOMAIN entries = 1..Len(entries)
           /\ \A i \in 1..Len(entries) : /\ entries[i] \in Slot
                                         /\ entries[i].by \in Workers
<1>1. entries \in Seq(Slot)
    BY DEF Slots
<1>2. Len(entries) \in Nat /\ DOMAIN entries = 1..Len(entries)
    BY <1>1, SeqHas
<1>3. \A i \in 1..Len(entries) : entries[i] \in Slot
    BY <1>1, SeqHas
<1> QED
    BY <1>2, <1>3 DEF Slot

\* What the caller reads in a slot has the type of an entry, and a slot that
\* is written is read whole.
LEMMA ReadDoes ==
    ASSUME WorkType, Slots, NEW i \in 1..Len(entries), NEW e \in Read(i)
    PROVE  /\ e \in Seen
           /\ entries[i].full => e.ts = out[entries[i].by].ts
<1>1. entries[i] \in Slot /\ entries[i].by \in Workers
    BY SlotsHas
<1>2. out[entries[i].by] \in Outcomes \cup {Pending}
    BY <1>1 DEF WorkType
<1>3. out[entries[i].by].ts \in Stamps \cup {0}
    BY <1>2 DEF Outcomes, Pending
<1> QED
    BY <1>1, <1>3 DEF Read, Seen, NoValue

\* The loop of ExecuteRead takes an entry that is in some slot, and none of the
\* written slots is newer.
LEMMA PickLatestDoes ==
    ASSUME WorkType, Slots, PickLatest, entries # <<>>
    PROVE  /\ latest' \in Seen
           /\ \A i \in 1..Len(entries) :
                 entries[i].full => latest'.ts >= out[entries[i].by].ts
<1>1. DOMAIN entries = 1..Len(entries)
    BY DEF Slots
<1>2. PICK seen \in [DOMAIN entries -> Seen] :
               /\ \A i \in DOMAIN entries : seen[i] \in Read(i)
               /\ \E i \in DOMAIN entries :
                     /\ \A j \in DOMAIN entries : \/ seen[j].ts < seen[i].ts
                                                  \/ seen[j].ts = seen[i].ts /\ i <= j
                     /\ latest' = seen[i]
    BY DEF PickLatest
<1>3. PICK k \in DOMAIN entries :
               /\ \A j \in DOMAIN entries : \/ seen[j].ts < seen[k].ts
                                            \/ seen[j].ts = seen[k].ts /\ k <= j
               /\ latest' = seen[k]
    BY <1>2
<1>4. \A i \in DOMAIN entries : seen[i].ts \in Nat
  <2> SUFFICES ASSUME NEW i \in DOMAIN entries PROVE seen[i].ts \in Nat
      OBVIOUS
  <2>1. seen[i] \in Seen
      BY <1>2
  <2>2. seen[i].ts \in Stamps \cup {0}
      BY <2>1 DEF Seen
  <2>3. \A t \in Stamps \cup {0} : t \in Nat
    <3>1. \A t \in Stamps : t \in Nat
        BY QuorumConstants, Zenon
    <3> QED
        BY <3>1
  <2> QED
      BY <2>2, <2>3, Zenon
<1>5. \A j \in DOMAIN entries : latest'.ts >= seen[j].ts
    BY <1>3, <1>4
<1>6. \A j \in DOMAIN entries : entries[j].full => seen[j].ts = out[entries[j].by].ts
    BY <1>1, <1>2, ReadDoes
<1> QED
    BY <1>1, <1>2, <1>3, <1>5, <1>6

LEMMA CallTypeStep == SInv /\ Next => CallType'
<1> SUFFICES ASSUME SInv, Next PROVE CallType'
    OBVIOUS
<1> USE DEF SInv, QInv
<1>1. done' \in BOOLEAN /\ panicked' \in BOOLEAN
    BY Zenon DEF CallType, Next, Worker, Waiter, Main, Execute, Record, FillSlot, CheckQuorum,
                 CloseDone, Unlock, WgDone, WaitAll, WaiterClose, Wake, PickLatest, Return
<1>2. verdict' \in BOOLEAN
  <2>1. CASE Wake
      BY <2>1 DEF Wake
  <2>2. CASE ~Wake
      BY <2>2 DEF CallType, Next, Worker, Waiter, Main, Execute, Record, FillSlot, CheckQuorum,
                  CloseDone, Unlock, WgDone, WaitAll, WaiterClose, PickLatest, Return, callVars
  <2> QED
      BY <2>1, <2>2
<1>3. errors' \in Nat
  <2>1. errors \in Nat
      BY DEF CallType
  <2>2. CASE \E w \in Workers : Record(w)
      BY <2>1, <2>2 DEF Record
  <2>3. CASE ~\E w \in Workers : Record(w)
    <3>1. errors' = errors
        BY <2>3, Zenon DEF Next, Worker, Waiter, Main, Execute, FillSlot, CheckQuorum, CloseDone,
                  Unlock, WgDone, WaitAll, WaiterClose, Wake, PickLatest, Return, workVars
    <3> QED
        BY <2>1, <3>1
  <2> QED
      BY <2>2, <2>3
<1>4. latest' \in Seen
  <2>1. CASE PickLatest
    <3>1. CASE entries = <<>>
        BY <2>1, <3>1 DEF PickLatest, CallType
    <3>2. CASE entries # <<>>
        BY <2>1, <3>2, PickLatestDoes
    <3> QED
        BY <3>1, <3>2
  <2>2. CASE ~PickLatest
      BY <2>2 DEF CallType, Next, Worker, Waiter, Main, Execute, Record, FillSlot, CheckQuorum,
                  CloseDone, Unlock, WgDone, WaitAll, WaiterClose, Wake, Return, callVars
  <2> QED
      BY <2>1, <2>2
<1>5. returned' \in Nat
  <2>1. Len(entries) \in Nat
      BY DEF Slots
  <2> QED
      BY <2>1 DEF CallType, Next, Worker, Waiter, Main, Execute, Record, FillSlot, CheckQuorum,
             CloseDone, Unlock, WgDone, WaitAll, WaiterClose, Wake, PickLatest, Return, callVars
<1> QED
    BY <1>1, <1>2, <1>3, <1>4, <1>5 DEF CallType

\* While nobody is inside append, every slot is written.
LEMMA AllWritten ==
    ASSUME Slots, \A w \in Workers : pc[w] # "append"
    PROVE  \A i \in 1..Len(entries) : entries[i].full
<1> SUFFICES ASSUME NEW i \in 1..Len(entries), ~entries[i].full PROVE FALSE
    OBVIOUS
<1>1. entries[i].by \in Workers
    BY SlotsHas
<1> QED
    BY <1>1 DEF Slots

\* The slice only grows, slots keep their owner and are never unwritten, and the
\* owner of a slot keeps its outcome.
SlotsKept ==
    /\ Len(entries') >= Len(entries)
    /\ \A i \in 1..Len(entries) :
          /\ entries'[i].by = entries[i].by
          /\ entries[i].full => entries'[i].full
          /\ out'[entries[i].by] = out[entries[i].by]

\* Steps that leave the slice and the counter alone, and take nobody who is
\* inside append out of it.
LEMMA SlotsUntouched ==
    ASSUME Slots, kind' = kind, entries' = entries,
           kind = "read" => success' = success,
           \A i \in 1..Len(entries) :
              /\ pc'[entries[i].by] \notin {"exec", "lock"}
              /\ ~entries[i].full => pc'[entries[i].by] = "append"
              /\ out'[entries[i].by] = out[entries[i].by]
    PROVE  Slots' /\ SlotsKept
<1>1. entries' \in Seq(Slot)
    BY DEF Slots
<1>2. kind' = "read" => Len(entries') = success'
    BY DEF Slots
<1>3. \A i \in 1..Len(entries') : /\ pc'[entries'[i].by] \notin {"exec", "lock"}
                                 /\ ~entries'[i].full => pc'[entries'[i].by] = "append"
    OBVIOUS
<1>4. Slots'
    BY <1>1, <1>2, <1>3, Zenon DEF Slots, Recorded
<1>5. Len(entries') >= Len(entries)
    BY SlotsHas
<1> QED
    BY <1>4, <1>5 DEF SlotsKept

LEMMA SlotsStep == SInv /\ Next => Slots' /\ SlotsKept
<1> SUFFICES ASSUME SInv, Next PROVE Slots' /\ SlotsKept
    OBVIOUS
<1> USE DEF SInv, QInv
<1>0. kind' = kind /\ entries \in Seq(Slot) /\ success \in Nat
    BY SameQuorum DEF Slots, WorkType
<1>1. /\ Len(entries) \in Nat /\ DOMAIN entries = 1..Len(entries)
      /\ \A i \in 1..Len(entries) : entries[i] \in Slot /\ entries[i].by \in Workers
    BY SlotsHas
<1>2. ASSUME NEW w \in Workers, Execute(w) PROVE Slots' /\ SlotsKept
  <2>1. entries' = entries /\ success' = success /\ ~Recorded(w)
      BY <1>2 DEF Execute, Recorded
  <2>2. \A v \in Workers \ {w} : pc'[v] = pc[v] /\ out'[v] = out[v]
      BY <1>2 DEF Execute, Goto, WorkType
  <2>3. \A i \in 1..Len(entries) : entries[i].by \in Workers \ {w}
      BY <1>1, <2>1 DEF Slots
  <2>4. \A i \in 1..Len(entries) :
           /\ pc'[entries[i].by] \notin {"exec", "lock"}
           /\ ~entries[i].full => pc'[entries[i].by] = "append"
           /\ out'[entries[i].by] = out[entries[i].by]
      BY <2>2, <2>3 DEF Slots, Recorded
  <2> QED
      BY <1>0, <2>1, <2>4, SlotsUntouched
<1>3. ASSUME NEW w \in Workers, Record(w) PROVE Slots' /\ SlotsKept
  <2>1. out' = out /\ ~Recorded(w)
      BY <1>3 DEF Record, Recorded
  <2>2. \A v \in Workers \ {w} : pc'[v] = pc[v]
      BY <1>3 DEF Record, Goto, WorkType
  <2>3. \A i \in 1..Len(entries) : entries[i].by \in Workers \ {w}
      BY <1>1, <2>1 DEF Slots
  <2>4. \A i \in 1..Len(entries) :
           /\ pc'[entries[i].by] \notin {"exec", "lock"}
           /\ ~entries[i].full => pc'[entries[i].by] = "append"
      BY <2>2, <2>3 DEF Slots, Recorded
  <2>5. CASE kind = "read" /\ out[w].st = "ok"
    <3> DEFINE new == [by |-> w, full |-> FALSE]
    <3>1. new \in Slot /\ new.by = w
        BY DEF Slot
    <3>2. entries' = Append(entries, new) /\ pc'[w] = "append" /\ success' = success + 1
        BY <1>3, <2>5 DEF Record, Goto, WorkType
    <3> HIDE DEF new
    <3>3. /\ entries' \in Seq(Slot)
          /\ Len(entries') = Len(entries) + 1
          /\ \A i \in 1..Len(entries) : entries'[i] = entries[i]
          /\ entries'[Len(entries) + 1] = new
        BY <1>0, <3>1, <3>2
    <3>4. \A i \in 1..Len(entries') : i \in 1..Len(entries) \/ i = Len(entries) + 1
        BY <1>1, <3>3
    <3>5. \A i \in 1..Len(entries') : pc'[entries'[i].by] \notin {"exec", "lock"}
        BY <2>4, <3>1, <3>2, <3>3, <3>4 DEF Recorded
    <3>6. \A i \in 1..Len(entries') : ~entries'[i].full => pc'[entries'[i].by] = "append"
        BY <2>4, <3>1, <3>2, <3>3, <3>4
    <3>7. kind' = "read" => Len(entries') = success'
        BY <1>0, <1>1, <3>2, <3>3 DEF Slots
    <3>8. Slots'
        BY <3>3, <3>5, <3>6, <3>7, Zenon DEF Slots, Recorded
    <3> QED
        BY <1>1, <2>1, <3>3, <3>8 DEF SlotsKept
  <2>6. CASE ~(kind = "read" /\ out[w].st = "ok")
    <3>1. entries' = entries /\ (kind = "read" => success' = success)
        BY <1>0, <1>3, <2>6 DEF Record
    <3> QED
        BY <1>0, <2>1, <2>4, <3>1, SlotsUntouched
  <2> QED
      BY <2>5, <2>6
<1>4. ASSUME NEW w \in Workers, FillSlot(w) PROVE Slots' /\ SlotsKept
  <2>1. out' = out /\ success' = success
      BY <1>4 DEF FillSlot
  <2>2. \A v \in Workers : (Recorded(v) => pc'[v] \notin {"exec", "lock"}) /\ (v # w => pc'[v] = pc[v])
      BY <1>4 DEF FillSlot, Goto, WorkType, Recorded
  <2>3. /\ DOMAIN entries' = 1..Len(entries)
        /\ \A i \in 1..Len(entries) :
              entries'[i] = IF entries[i].by = w THEN [entries[i] EXCEPT !.full = TRUE]
                                                 ELSE entries[i]
      BY <1>1, <1>4 DEF FillSlot
  <2>4. \A i \in 1..Len(entries) :
           /\ entries'[i] \in Slot
           /\ entries'[i].by = entries[i].by
           /\ entries[i].full => entries'[i].full
           /\ entries[i].by = w => entries'[i].full
           /\ entries[i].by # w => entries'[i] = entries[i]
    <3> SUFFICES ASSUME NEW i \in 1..Len(entries), NEW e, e = entries[i], NEW f, f = entries'[i]
                 PROVE  /\ f \in Slot /\ f.by = e.by
                        /\ e.full => f.full
                        /\ e.by = w => f.full
                        /\ e.by # w => f = e
        OBVIOUS
    <3>1. e \in Slot /\ f = IF e.by = w THEN [e EXCEPT !.full = TRUE] ELSE e
        BY <1>1, <2>3
    <3> QED
        BY <3>1 DEF Slot
  <2>5. entries' = [i \in 1..Len(entries) |-> entries'[i]]
      BY <1>1, <1>4 DEF FillSlot
  <2>6. entries' \in Seq(Slot) /\ Len(entries') = Len(entries)
    <3> DEFINE f(i) == entries'[i]
    <3>1. \A i \in 1..Len(entries) : f(i) \in Slot
        BY <2>4
    <3>2. entries' = [i \in 1..Len(entries) |-> f(i)]
        BY <2>5
    <3> HIDE DEF f
    <3> QED
        BY <1>1, <3>1, <3>2, SeqOf
  <2>7. \A i \in 1..Len(entries') : pc'[entries'[i].by] \notin {"exec", "lock"}
      BY <1>1, <2>2, <2>4, <2>6 DEF Slots
  <2>8. \A i \in 1..Len(entries') : ~entries'[i].full => pc'[entries'[i].by] = "append"
      BY <1>1, <2>2, <2>4, <2>6 DEF Slots
  <2>9. kind' = "read" => Len(entries') = success'
      BY <1>0, <2>1, <2>6 DEF Slots
  <2>10. Slots'
      BY <2>6, <2>7, <2>8, <2>9, Zenon DEF Slots, Recorded
  <2> QED
      BY <1>1, <2>1, <2>4, <2>6, <2>10 DEF SlotsKept
<1>5. ASSUME NEW w \in Workers, CheckQuorum(w) \/ CloseDone(w) \/ Unlock(w) \/ WgDone(w)
      PROVE Slots' /\ SlotsKept
  <2>1. entries' = entries /\ out' = out /\ success' = success
      BY <1>5 DEF CheckQuorum, CloseDone, Unlock, WgDone
  <2>2. \A v \in Workers : /\ Recorded(v) => pc'[v] \notin {"exec", "lock"}
                           /\ pc[v] = "append" => pc'[v] = "append"
      BY <1>5 DEF CheckQuorum, CloseDone, Unlock, WgDone, Goto, WorkType, Recorded
  <2>3. \A i \in 1..Len(entries) :
           /\ pc'[entries[i].by] \notin {"exec", "lock"}
           /\ ~entries[i].full => pc'[entries[i].by] = "append"
      BY <1>1, <2>2 DEF Slots
  <2> QED
      BY <1>0, <2>1, <2>3, SlotsUntouched
<1>6. CASE Waiter \/ Main
  <2>1. entries' = entries /\ out' = out /\ success' = success /\ pc' = pc
      BY <1>6 DEF Waiter, Main, WaitAll, WaiterClose, Wake, PickLatest, Return, workVars
  <2>2. \A i \in 1..Len(entries) :
           /\ pc'[entries[i].by] \notin {"exec", "lock"}
           /\ ~entries[i].full => pc'[entries[i].by] = "append"
      BY <2>1 DEF Slots, Recorded
  <2> QED
      BY <1>0, <2>1, <2>2, SlotsUntouched
<1> QED
    BY <1>2, <1>3, <1>4, <1>5, <1>6 DEF Next, Worker

\* Whoever closes "done" does so when every slot is written: the goroutine that
\* completes the quorum holds the mutex, and the waiter comes after all others.
LEMMA WrittenStep == SInv /\ Next => QuorumWritten'
<1> SUFFICES ASSUME SInv, Next, kind' = "read", done', success' >= Required'
             PROVE  \A i \in 1..Required : entries'[i].full
    BY SameQuorum DEF QuorumWritten
<1> USE DEF SInv, QInv
<1>0. /\ kind = "read" /\ Required' = Required /\ Required \in Nat
      /\ success \in Nat /\ success' \in Nat /\ Len(entries) = success
      /\ Slots' /\ SlotsKept
    BY SameQuorum, RequiredNat, WorkStep, SlotsStep DEF WorkType, Slots
<1>1. ASSUME done, success >= Required PROVE \A i \in 1..Required : entries'[i].full
  <2>1. \A i \in 1..Required : i \in 1..Len(entries) /\ entries[i].full
      BY <1>0, <1>1 DEF QuorumWritten
  <2> QED
      BY <1>0, <2>1 DEF SlotsKept
<1>2. CASE \E w \in Workers : CloseDone(w)
  <2>1. PICK w \in Workers : CloseDone(w)
      BY <1>2
  <2>2. mu = w /\ success' = success
      BY <2>1 DEF CloseDone, Locked
  <2>3. \A v \in Workers : pc[v] # "append"
      BY <2>1, <2>2 DEF CloseDone, Locked
  <2>4. \A i \in 1..Len(entries) : entries[i].full
      BY <2>3, AllWritten
  <2> QED
      BY <1>0, <2>2, <2>4 DEF SlotsKept
<1>3. CASE WaiterClose
  <2>1. success' = success
      BY <1>3 DEF WaiterClose, workVars
  <2>2. \A v \in Workers : pc[v] # "append"
      BY <1>3 DEF WaiterClose, Closing
  <2>3. \A i \in 1..Len(entries) : entries[i].full
      BY <2>2, AllWritten
  <2> QED
      BY <1>0, <2>1, <2>3 DEF SlotsKept
<1>4. CASE ~WaiterClose /\ ~\E w \in Workers : CloseDone(w)
  <2>1. done
      BY <1>4 DEF Next, Worker, Waiter, Main, Execute, Record, FillSlot, CheckQuorum, Unlock,
                  WgDone, WaitAll, Wake, PickLatest, Return
  <2>2. success >= Required
    <3>1. CASE \E w \in Workers : Record(w)
      <4>1. waiter # "exit"
          BY <3>1 DEF Record, Closing
      <4> QED
          BY <2>1, <4>1 DEF Counting
    <3>2. CASE ~\E w \in Workers : Record(w)
      <4>1. success' = success
          BY <3>2 DEF Next, Worker, Waiter, Main, Execute, FillSlot, CheckQuorum, CloseDone, Unlock,
                      WgDone, WaitAll, WaiterClose, Wake, PickLatest, Return, workVars
      <4> QED
          BY <1>0, <4>1
    <3> QED
        BY <3>1, <3>2
  <2> QED
      BY <1>1, <2>1, <2>2
<1> QED
    BY <1>2, <1>3, <1>4

LEMMA ChosenStep == SInv /\ Next => Chosen'
<1> SUFFICES ASSUME SInv, Next PROVE Chosen'
    OBVIOUS
<1> USE DEF SInv, QInv
<1>0. /\ kind' = kind /\ Required' = Required /\ Required \in Nat /\ SlotsKept
      /\ success \in Nat
      /\ kind = "read" => Len(entries) = success
    BY SameQuorum, RequiredNat, SlotsStep DEF WorkType, Slots
<1>1. main' # "wait" => done'
  <2>1. done => done'
      BY DEF Next, Worker, Waiter, Main, Execute, Record, FillSlot, CheckQuorum, CloseDone, Unlock,
             WgDone, WaitAll, WaiterClose, Wake, PickLatest, Return
  <2>2. main = "wait" /\ main' # "wait" => done
      BY DEF Next, Worker, Waiter, Main, Execute, Record, FillSlot, CheckQuorum, CloseDone, Unlock,
             WgDone, WaitAll, WaiterClose, Wake, PickLatest, Return, callVars
  <2> QED
      BY <2>1, <2>2 DEF Chosen
<1>2. ASSUME kind = "read", verdict, main # "wait"
      PROVE  \A i \in 1..Required : i \in 1..Len(entries) /\ entries[i].full
  <2>1. success >= Required /\ done
      BY <1>2 DEF Verdict, Chosen
  <2> QED
      BY <1>0, <1>2, <2>1 DEF QuorumWritten
<1>3. CASE PickLatest
  <2>1. /\ main = "latest" /\ main' = "return" /\ verdict' = verdict
        /\ entries' = entries /\ out' = out
      BY <1>3 DEF PickLatest, workVars
  <2>2. ASSUME kind = "read", verdict
        PROVE  \A i \in 1..Required : latest'.ts >= out[entries[i].by].ts
    <3> SUFFICES ASSUME NEW i \in 1..Required PROVE latest'.ts >= out[entries[i].by].ts
        OBVIOUS
    <3>1. i \in 1..Len(entries) /\ entries[i].full
        BY <1>2, <2>1, <2>2
    <3>2. entries # <<>>
        BY <3>1
    <3> QED
        BY <1>3, <3>1, <3>2, PickLatestDoes
  <2> QED
      BY <1>0, <1>1, <2>1, <2>2 DEF Chosen
<1>4. CASE Return
  <2>1. /\ main = "return" /\ main' = "returned" /\ verdict' = verdict /\ latest' = latest
        /\ entries' = entries /\ out' = out /\ returned' = Len(entries)
      BY <1>4 DEF Return, workVars
  <2>2. ASSUME kind = "read", verdict PROVE Len(entries) >= Required
    <3>1. success >= Required
        BY <2>1, <2>2 DEF Verdict
    <3> QED
        BY <1>0, <2>2, <3>1
  <2> QED
      BY <1>0, <1>1, <2>1, <2>2 DEF Chosen
<1>5. CASE Wake
  <2>1. kind = "read" => main' = "latest"
      BY <1>5 DEF Wake
  <2> QED
      BY <1>0, <1>1, <2>1 DEF Chosen
<1>6. CASE ~Main
  <2>1. main' = main /\ verdict' = verdict /\ latest' = latest /\ returned' = returned
      BY <1>6 DEF Next, Worker, Waiter, Execute, Record, FillSlot, CheckQuorum, CloseDone, Unlock,
                  WgDone, WaitAll, WaiterClose, callVars
  <2>2. ASSUME kind = "read", verdict, main # "wait"
        PROVE  \A i \in 1..Required : out'[entries'[i].by] = out[entries[i].by]
      BY <1>0, <1>2, <2>2 DEF SlotsKept
  <2> QED
      BY <1>0, <1>1, <2>1, <2>2 DEF Chosen
<1> QED
    BY <1>3, <1>4, <1>5, <1>6 DEF Main

LEMMA NextS == SInv /\ [Next]_vars => SInv'
<1> SUFFICES ASSUME SInv, [Next]_vars PROVE SInv'
    OBVIOUS
<1>0. QInv'
    BY NextQ DEF SInv
<1>1. CASE Next
    BY <1>0, <1>1, CallTypeStep, SlotsStep, WrittenStep, ChosenStep DEF SInv
<1>2. CASE UNCHANGED vars
    BY <1>0, <1>2 DEF vars, SInv, CallType, Slots, Recorded, QuorumWritten, Chosen, Required
<1> QED
    BY <1>1, <1>2

LEMMA SInvariance == Spec => []SInv
BY InitS, NextS, PTL DEF Spec

\* For every number of replicas: type correctness of a quorum call, with what the
\* caller reads out of slots that are being written.
THEOREM TypeCorrect == Spec => []TypeOK
<1>1. SInv => TypeOK
  <2> SUFFICES ASSUME SInv PROVE TypeOK
      OBVIOUS
  <2>1. WorkType /\ CallType /\ Slots
      BY DEF SInv, QInv
  <2>2. entries \in Seq(Slot)
      BY <2>1 DEF Slots
  <2> QED
      BY <2>1, <2>2, Zenon DEF TypeOK, WorkType, CallType, Slot
<1> QED
    BY <1>1, SInvariance, PTL

\* For every number of replicas, every quorum and level: a successful ExecuteRead
\* returns at least a quorum of entries and none of the quorum that woke it is
\* newer than its answer, although it goes through the slice without the mutex
\* while slower goroutines append to it.
THEOREM AnswerCorrect == Spec => []LatestOfFirstQuorum
<1>1. SInv => LatestOfFirstQuorum
    BY DEF SInv, Chosen, LatestOfFirstQuorum
<1> QED
    BY <1>1, SInvariance, PTL

=============================================================================
