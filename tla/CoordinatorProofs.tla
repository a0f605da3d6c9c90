------------------------- MODULE CoordinatorProofs -------------------------
(***************************************************************************)
(* Proofs about the replication coordinator, for every cluster, every N, R *)
(* and W that config.Validate accepts, and every interleaving.             *)
(***************************************************************************)
EXTENDS Coordinator, FiniteSetTheorems, TLAPS

(***************************************************************************)
(* The inductive strengthening of TypeOK.  A request in flight carries a   *)
(* live entry: its sender is a put, or a get that has its answer.  The     *)
(* kind of an operation restricts its phases.                              *)
(***************************************************************************)
PhaseInv ==
    \A o \in Ops :
        /\ o \in Puts => phase[o] \in {"new", "put", "done"}
        /\ o \in Gets => phase[o] \in {"new", "get", "repair", "done"}
        /\ o \in Deletes => phase[o] \in {"new", "done"}

NetInv ==
    \A m \in net :
        /\ m[1] \in Puts \cup Gets
        /\ m[1] \in Gets => phase[m[1]] \in {"repair", "done"} /\ latest[m[1]] \in LiveEntry

AnswerInv ==
    \A o \in Ops :
        /\ phase[o] = "repair" => latest[o] \in LiveEntry
        /\ phase[o] = "get" =>
              \A n \in Nodes : call[o][n] = "ok" => resp[o][n] \in LiveEntry

TypeInv == TypeOK /\ PhaseInv /\ NetInv /\ AnswerInv

LEMMA InitTypeInv == Init => TypeInv
<1> SUFFICES ASSUME Init PROVE TypeInv
    OBVIOUS
<1>1. at \in [Ops -> Nodes]
  <2>1. (CHOOSE n \in Nodes : TRUE) \in Nodes
      BY CoordinatorConstants
  <2> QED
      BY <2>1 DEF Init
<1>2. known \in [Nodes -> SUBSET Nodes] /\ ring \in [Nodes -> SUBSET Nodes]
    BY CoordinatorConstants DEF Init
<1>3. /\ call \in [Ops -> [Nodes -> CallState]]
      /\ resp \in [Ops -> [Nodes -> LiveEntry \cup {NoEntry}]]
    BY DEF Init, NoCalls, NoResponses, CallState
<1>4. regressed \in BOOLEAN
    BY Zenon DEF Init
<1>5. TypeOK
    BY <1>1, <1>2, <1>3, <1>4 DEF Init, TypeOK
<1>6. PhaseInv /\ NetInv /\ AnswerInv
    BY DEF Init, PhaseInv, NetInv, AnswerInv
<1> QED
    BY <1>5, <1>6 DEF TypeInv

\* What storing an entry does to the types.
LEMMA StoreType ==
    ASSUME NEW n \in Nodes, NEW e \in LiveEntry \cup Tombstones, TypeOK, Store(n, e)
    PROVE  /\ store' \in [Nodes -> LiveEntry \cup Tombstones \cup {NoEntry}]
           /\ regressed' \in BOOLEAN
<1>1. store' \in [Nodes -> LiveEntry \cup Tombstones \cup {NoEntry}]
    BY DEF Store, TypeOK
<1>2. regressed' \in BOOLEAN
    BY Zenon DEF Store
<1> QED
    BY <1>1, <1>2

LEMMA FirstCallsType ==
    ASSUME NEW c, NEW list
    PROVE  /\ FirstCalls(c, list) \in [Nodes -> CallState]
           /\ \A n \in Nodes : FirstCalls(c, list)[n] \in {"idle", "sent", "fail"}
BY DEF FirstCalls, CallState

LEMMA PreferenceListType ==
    ASSUME TypeOK, NEW c \in Nodes
    PROVE  PreferenceList(c) \subseteq Nodes
BY DEF TypeOK, PreferenceList

LEMMA PutStartType ==
    ASSUME TypeInv, NEW o \in Puts, NEW c \in Nodes, NEW l \in {"one", "quorum", "all"},
           NEW t \in Int, PutStart(o, c, l, t)
    PROVE  TypeInv'
<1>0. o \in Ops /\ o \notin Gets /\ o \notin Deletes
    BY CoordinatorConstants DEF Ops
<1>1. TypeOK'
    BY <1>0, PreferenceListType, FirstCallsType
    DEF PutStart, Begin, Tick, TypeInv, TypeOK, Answered, cluster
<1>2. PhaseInv'
    BY <1>0 DEF PutStart, TypeInv, TypeOK, PhaseInv
<1>3. NetInv'
    BY <1>0 DEF PutStart, TypeInv, TypeOK, NetInv
<1>4. AnswerInv'
    BY <1>0 DEF PutStart, TypeInv, TypeOK, AnswerInv
<1> QED
    BY <1>1, <1>2, <1>3, <1>4 DEF TypeInv

LEMMA GetStartType ==
    ASSUME TypeInv, NEW o \in Gets, NEW c \in Nodes, NEW l \in {"one", "quorum", "all"},
           GetStart(o, c, l)
    PROVE  TypeInv'
<1>0. o \in Ops /\ o \notin Puts /\ o \notin Deletes
    BY CoordinatorConstants DEF Ops
<1>1. TypeOK'
    BY <1>0, PreferenceListType, FirstCallsType
    DEF GetStart, Begin, TypeInv, TypeOK, Answered, cluster
<1>2. PhaseInv'
    BY <1>0 DEF GetStart, TypeInv, TypeOK, PhaseInv
<1>3. NetInv'
    BY <1>0 DEF GetStart, Begin, MayStart, TypeInv, TypeOK, NetInv
<1>4. AnswerInv'
    BY <1>0, FirstCallsType DEF GetStart, TypeInv, TypeOK, AnswerInv
<1> QED
    BY <1>1, <1>2, <1>3, <1>4 DEF TypeInv

LEMMA HandleDeleteType ==
    ASSUME TypeInv, NEW o \in Deletes, NEW c \in Nodes, NEW t \in Int,
           HandleDelete(o, c, t)
    PROVE  TypeInv'
<1>0. o \in Ops /\ o \notin Puts /\ o \notin Gets
    BY CoordinatorConstants DEF Ops
<1>1. TypeOK'
  <2>1. [st |-> "dead", ts |-> t, by |-> o] \in Tombstones
      BY DEF Tombstones
  <2>2. /\ store' \in [Nodes -> LiveEntry \cup Tombstones \cup {NoEntry}]
        /\ regressed' \in BOOLEAN
      BY <2>1, StoreType DEF HandleDelete, TypeInv
  <2> QED
      BY <1>0, <2>2 DEF HandleDelete, Begin, Tick, TypeInv, TypeOK, Answered, cluster
<1>2. PhaseInv'
    BY <1>0 DEF HandleDelete, TypeInv, TypeOK, PhaseInv
<1>3. NetInv'
    BY <1>0 DEF HandleDelete, TypeInv, TypeOK, NetInv
<1>4. AnswerInv'
    BY <1>0 DEF HandleDelete, TypeInv, TypeOK, AnswerInv
<1> QED
    BY <1>1, <1>2, <1>3, <1>4 DEF TypeInv

\* The entry a put writes.
LEMMA EntryType ==
    ASSUME TypeOK, NEW o \in Puts
    PROVE  Entry(o) \in LiveEntry
BY DEF TypeOK, Entry, LiveEntry, Ops

LEMMA LocalWriteType ==
    ASSUME TypeInv, NEW o \in Ops, LocalWrite(o)
    PROVE  TypeInv'
<1>0. o \in Puts /\ at[o] \in Nodes
    BY DEF LocalWrite, TypeInv, TypeOK, PhaseInv, Ops
<1>1. call' \in [Ops -> [Nodes -> CallState]]
  <2>1. PICK v \in {"ok", "fail"} : call' = [call EXCEPT ![o][at[o]] = v]
      BY DEF LocalWrite
  <2> QED
      BY <2>1, <1>0 DEF TypeInv, TypeOK, CallState
<1>2. /\ store' \in [Nodes -> LiveEntry \cup Tombstones \cup {NoEntry}]
      /\ regressed' \in BOOLEAN
  <2>1. CASE Store(at[o], Entry(o))
      BY <2>1, <1>0, EntryType, StoreType DEF TypeInv
  <2>2. CASE UNCHANGED <<store, regressed>>
      BY <2>2 DEF TypeInv, TypeOK
  <2> QED
      BY <2>1, <2>2 DEF LocalWrite
<1>3. TypeOK'
    BY <1>1, <1>2 DEF LocalWrite, TypeInv, TypeOK, cluster, request
<1>4. PhaseInv' /\ NetInv'
    BY DEF LocalWrite, TypeInv, PhaseInv, NetInv
<1>5. AnswerInv'
    BY <1>0 DEF LocalWrite, TypeInv, TypeOK, AnswerInv
<1> QED
    BY <1>3, <1>4, <1>5 DEF TypeInv

\* What a replication request carries.
LEMMA PayloadType ==
    ASSUME TypeInv, NEW o \in Ops, NEW n \in Nodes, <<o, n>> \in net
    PROVE  /\ Payload(o) \in LiveEntry
           /\ phase[o] # "get"
<1>1. CASE o \in Puts
    BY <1>1, EntryType DEF TypeInv, PhaseInv, Payload
<1>2. CASE o \notin Puts
    BY <1>2 DEF TypeInv, NetInv, Payload
<1> QED
    BY <1>1, <1>2

LEMMA DeliverType ==
    ASSUME TypeInv, NEW o \in Ops, NEW n \in Nodes, Deliver(o, n)
    PROVE  TypeInv'
<1>1. <<o, n>> \in net /\ Payload(o) \in LiveEntry /\ phase[o] # "get"
    BY PayloadType DEF Deliver
<1>2. /\ store' \in [Nodes -> LiveEntry \cup Tombstones \cup {NoEntry}]
      /\ regressed' \in BOOLEAN
    BY <1>1, StoreType DEF Deliver, TypeInv
<1>3. TypeOK'
    BY <1>2 DEF Deliver, TypeInv, TypeOK, cluster, request, CallState
<1>4. PhaseInv' /\ NetInv'
    BY DEF Deliver, TypeInv, PhaseInv, NetInv
<1>5. AnswerInv'
    BY <1>1 DEF Deliver, TypeInv, TypeOK, AnswerInv
<1> QED
    BY <1>3, <1>4, <1>5 DEF TypeInv

LEMMA LoseType ==
    ASSUME TypeInv, NEW o \in Ops, NEW n \in Nodes, Lose(o, n)
    PROVE  TypeInv'
BY DEF Lose, TypeInv, TypeOK, PhaseInv, NetInv, AnswerInv, cluster, request

LEMMA TimeoutType ==
    ASSUME TypeInv, NEW o \in Ops, NEW n \in Nodes, Timeout(o, n)
    PROVE  TypeInv'
<1>1. TypeOK'
    BY DEF Timeout, TypeInv, TypeOK, cluster, request, CallState
<1>2. PhaseInv' /\ NetInv'
    BY DEF Timeout, TypeInv, PhaseInv, NetInv
<1>3. AnswerInv'
    BY DEF Timeout, TypeInv, TypeOK, AnswerInv
<1> QED
    BY <1>1, <1>2, <1>3 DEF TypeInv

LEMMA PutFinishType ==
    ASSUME TypeInv, NEW o \in Ops, PutFinish(o)
    PROVE  TypeInv'
<1>0. o \in Puts /\ o \notin Gets /\ o \notin Deletes
    BY CoordinatorConstants DEF PutFinish, TypeInv, TypeOK, PhaseInv, Ops
<1>1. TypeOK'
    BY DEF PutFinish, TypeInv, TypeOK, cluster, request, CallState, NoCalls
<1>2. PhaseInv'
    BY <1>0 DEF PutFinish, TypeInv, TypeOK, PhaseInv
<1>3. NetInv' /\ AnswerInv'
    BY <1>0 DEF PutFinish, TypeInv, TypeOK, NetInv, AnswerInv
<1> QED
    BY <1>1, <1>2, <1>3 DEF TypeInv

LEMMA ReadAtType ==
    ASSUME TypeInv, NEW o \in Ops, NEW n \in Nodes, ReadAt(o, n)
    PROVE  TypeInv'
<1>1. CASE store[n].st = "live"
  <2>0. /\ store[n] \in LiveEntry
        /\ call' = [call EXCEPT ![o][n] = "ok"]
        /\ resp' = [resp EXCEPT ![o][n] = store[n]]
      BY <1>1 DEF ReadAt, TypeInv, TypeOK, LiveEntry, Tombstones, NoEntry
  <2>1. TypeOK'
      BY <2>0 DEF ReadAt, TypeInv, TypeOK, cluster, request, CallState
  <2>2. PhaseInv' /\ NetInv'
      BY DEF ReadAt, TypeInv, PhaseInv, NetInv
  <2>3. AnswerInv'
    <3> SUFFICES ASSUME NEW p \in Ops, NEW m \in Nodes
                 PROVE  /\ phase'[p] = "repair" => latest'[p] \in LiveEntry
                        /\ phase'[p] = "get" /\ call'[p][m] = "ok" => resp'[p][m] \in LiveEntry
        BY DEF AnswerInv
    <3>1. phase'[p] = phase[p] /\ latest'[p] = latest[p]
        BY DEF ReadAt
    <3>2. CASE p = o /\ m = n
        BY <2>0, <3>1, <3>2 DEF TypeInv, TypeOK, AnswerInv
    <3>3. CASE ~(p = o /\ m = n)
      <4>1. call'[p][m] = call[p][m] /\ resp'[p][m] = resp[p][m]
          BY <2>0, <3>3 DEF TypeInv, TypeOK
      <4> QED
          BY <4>1, <3>1 DEF TypeInv, AnswerInv
    <3> QED
        BY <3>2, <3>3
  <2> QED
      BY <2>1, <2>2, <2>3 DEF TypeInv
<1>2. CASE store[n].st # "live"
  <2>0. call' = [call EXCEPT ![o][n] = "nil"] /\ resp' = resp
      BY <1>2 DEF ReadAt
  <2>1. TypeOK'
      BY <2>0 DEF ReadAt, TypeInv, TypeOK, cluster, request, CallState
  <2>2. PhaseInv' /\ NetInv'
      BY DEF ReadAt, TypeInv, PhaseInv, NetInv
  <2>3. AnswerInv'
      BY <2>0 DEF ReadAt, TypeInv, TypeOK, AnswerInv
  <2> QED
      BY <2>1, <2>2, <2>3 DEF TypeInv
<1> QED
    BY <1>1, <1>2

LEMMA ReadFailsType ==
    ASSUME TypeInv, NEW o \in Ops, NEW n \in Nodes, ReadFails(o, n)
    PROVE  TypeInv'
<1>1. TypeOK'
    BY DEF ReadFails, TypeInv, TypeOK, cluster, request, CallState
<1>2. PhaseInv' /\ NetInv'
    BY DEF ReadFails, TypeInv, PhaseInv, NetInv
<1>3. AnswerInv'
    BY DEF ReadFails, TypeInv, TypeOK, AnswerInv
<1> QED
    BY <1>1, <1>2, <1>3 DEF TypeInv

LEMMA GetFinishType ==
    ASSUME TypeInv, NEW o \in Ops, GetFinish(o)
    PROVE  TypeInv'
<1>0. o \in Gets /\ o \notin Puts /\ o \notin Deletes
    BY CoordinatorConstants DEF GetFinish, TypeInv, PhaseInv, Ops
<1>1. CASE phase' = [phase EXCEPT ![o] = "done"]
  <2>0. /\ call' = [call EXCEPT ![o] = NoCalls]
        /\ result' = [result EXCEPT ![o] = "notfound"]
        /\ latest' = latest
      BY <1>1 DEF GetFinish, TypeInv, TypeOK
  <2>1. TypeOK'
      BY <1>1, <2>0 DEF GetFinish, TypeInv, TypeOK, cluster, request, CallState, NoCalls, NoResponses
  <2>2. PhaseInv' /\ NetInv' /\ AnswerInv'
      BY <1>0, <1>1, <2>0 DEF GetFinish, TypeInv, TypeOK, PhaseInv, NetInv, AnswerInv
  <2> QED
      BY <2>1, <2>2 DEF TypeInv
<1>2. CASE phase' = [phase EXCEPT ![o] = "repair"]
  <2>0. /\ call' = [call EXCEPT ![o] =
                       [n \in Nodes |-> IF n \in pref[o] THEN "todo" ELSE "idle"]]
        /\ result' = [result EXCEPT ![o] = "ok"]
        /\ \E e \in LatestResponses(o) : latest' = [latest EXCEPT ![o] = e]
      BY <1>2 DEF GetFinish, TypeInv, TypeOK
  <2>1. PICK e \in LatestResponses(o) : latest' = [latest EXCEPT ![o] = e]
      BY <2>0
  <2>2. e \in LiveEntry
      BY DEF GetFinish, LatestResponses, OkNodes, TypeInv, AnswerInv
  <2>3. TypeOK'
      BY <1>2, <2>0, <2>1, <2>2
      DEF GetFinish, TypeInv, TypeOK, cluster, request, CallState, NoResponses
  <2>4. PhaseInv' /\ NetInv'
      BY <1>0, <1>2, <2>1, <2>2 DEF GetFinish, TypeInv, TypeOK, PhaseInv, NetInv
  <2>5. AnswerInv'
      BY <1>2, <2>0, <2>1, <2>2 DEF GetFinish, TypeInv, TypeOK, AnswerInv
  <2> QED
      BY <2>3, <2>4, <2>5 DEF TypeInv
<1> QED
    BY <1>1, <1>2 DEF GetFinish

LEMMA RepairCheckType ==
    ASSUME TypeInv, NEW o \in Ops, RepairCheck(o)
    PROVE  TypeInv'
<1>1. PICK v \in {"write", "ok"} : call' = [call EXCEPT ![o][at[o]] = v]
    BY DEF RepairCheck
<1>2. phase[o] = "repair" /\ at[o] \in Nodes
    BY DEF RepairCheck, NextRepair, TypeInv, TypeOK
<1>3. TypeOK'
    BY <1>1, <1>2 DEF RepairCheck, TypeInv, TypeOK, cluster, request, CallState
<1>4. PhaseInv' /\ NetInv'
    BY DEF RepairCheck, TypeInv, PhaseInv, NetInv
<1>5. AnswerInv'
    BY <1>1, <1>2 DEF RepairCheck, TypeInv, TypeOK, AnswerInv
<1> QED
    BY <1>3, <1>4, <1>5 DEF TypeInv

LEMMA RepairWriteType ==
    ASSUME TypeInv, NEW o \in Ops, RepairWrite(o)
    PROVE  TypeInv'
<1>1. at[o] \in Nodes /\ latest[o] \in LiveEntry /\ phase[o] = "repair"
    BY DEF RepairWrite, TypeInv, TypeOK, AnswerInv
<1>2. /\ store' \in [Nodes -> LiveEntry \cup Tombstones \cup {NoEntry}]
      /\ regressed' \in BOOLEAN
    BY <1>1, StoreType DEF RepairWrite, TypeInv
<1>3. TypeOK'
    BY <1>1, <1>2 DEF RepairWrite, TypeInv, TypeOK, cluster, request, CallState
<1>4. PhaseInv' /\ NetInv'
    BY DEF RepairWrite, TypeInv, PhaseInv, NetInv
<1>5. AnswerInv'
    BY <1>1 DEF RepairWrite, TypeInv, TypeOK, AnswerInv
<1> QED
    BY <1>3, <1>4, <1>5 DEF TypeInv

LEMMA RepairSendType ==
    ASSUME TypeInv, NEW o \in Ops, NEW n \in Nodes, RepairSend(o, n)
    PROVE  TypeInv'
<1>0. phase[o] = "repair" /\ o \in Gets /\ latest[o] \in LiveEntry
    BY DEF RepairSend, NextRepair, TypeInv, PhaseInv, AnswerInv, Ops
<1>1. PICK v \in {"sent", "fail"} : call' = [call EXCEPT ![o][n] = v]
    BY DEF RepairSend
<1>2. net' \subseteq net \cup {<<o, n>>}
    BY DEF RepairSend
<1>3. TypeOK'
    BY <1>1, <1>2 DEF RepairSend, TypeInv, TypeOK, cluster, request, CallState
<1>4. PhaseInv'
    BY DEF RepairSend, TypeInv, PhaseInv
<1>5. NetInv'
    BY <1>0, <1>2 DEF RepairSend, TypeInv, NetInv
<1>6. AnswerInv'
    BY <1>0, <1>1 DEF RepairSend, TypeInv, TypeOK, AnswerInv
<1> QED
    BY <1>3, <1>4, <1>5, <1>6 DEF TypeInv

LEMMA RepairFinishType ==
    ASSUME TypeInv, NEW o \in Ops, RepairFinish(o)
    PROVE  TypeInv'
<1>0. o \in Gets /\ o \notin Puts /\ o \notin Deletes
    BY CoordinatorConstants DEF RepairFinish, TypeInv, PhaseInv, Ops
<1>1. TypeOK'
    BY DEF RepairFinish, TypeInv, TypeOK, cluster, request, CallState, NoCalls
<1>2. PhaseInv' /\ NetInv'
    BY <1>0 DEF RepairFinish, TypeInv, TypeOK, PhaseInv, NetInv
<1>3. AnswerInv'
    BY DEF RepairFinish, TypeInv, TypeOK, AnswerInv
<1> QED
    BY <1>1, <1>2, <1>3 DEF TypeInv

LEMMA CrashType ==
    ASSUME TypeInv, NEW c \in Nodes, Crash(c)
    PROVE  TypeInv'
<1>1. TypeOK'
    BY DEF Crash, TypeInv, TypeOK, cluster, request, CallState, NoCalls, NoResponses
<1>2. PhaseInv' /\ NetInv'
    BY DEF Crash, TypeInv, TypeOK, PhaseInv, NetInv
<1>3. AnswerInv'
    BY DEF Crash, TypeInv, TypeOK, AnswerInv, Active
<1> QED
    BY <1>1, <1>2, <1>3 DEF TypeInv

LEMMA MembershipType ==
    ASSUME TypeInv, Membership
    PROVE  TypeInv'
<1>1. PICK c \in Nodes, nodes \in SUBSET Nodes, tokens \in SUBSET Nodes : Change(c, nodes, tokens)
  <2>1. PICK c \in Contacts, n \in Nodes : \/ RegisterNode(c, n)
                                          \/ UnregisterNode(c, n)
                                          \/ NodeDead(c, n)
                                          \/ NodeRevived(c, n)
      BY DEF Membership
  <2>2. c \in Nodes /\ known[c] \subseteq Nodes /\ ring[c] \subseteq Nodes
      BY CoordinatorConstants DEF TypeInv, TypeOK
  <2>3. /\ known[c] \cup {n} \in SUBSET Nodes /\ known[c] \ {n} \in SUBSET Nodes
        /\ ring[c] \cup {n} \in SUBSET Nodes /\ ring[c] \ {n} \in SUBSET Nodes
        /\ known[c] \in SUBSET Nodes
      BY <2>2
  <2> QED
      BY <2>1, <2>2, <2>3, Zenon DEF RegisterNode, UnregisterNode, NodeDead, NodeRevived
<1>2. TypeOK'
    BY <1>1 DEF Change, TypeInv, TypeOK, request
<1>3. PhaseInv' /\ NetInv' /\ AnswerInv'
    BY <1>1 DEF Change, TypeInv, PhaseInv, NetInv, AnswerInv
<1> QED
    BY <1>2, <1>3 DEF TypeInv

LEMMA StepType ==
    ASSUME TypeInv, NEW o \in Ops, Step(o)
    PROVE  TypeInv'
BY LocalWriteType, PutFinishType, GetFinishType, RepairCheckType, RepairWriteType,
   RepairFinishType, TimeoutType, ReadAtType, ReadFailsType, RepairSendType
DEF Step

LEMMA RequestType ==
    ASSUME TypeInv, Request
    PROVE  TypeInv'
<1>0. /\ Contacts \subseteq Nodes
      /\ Levels \subseteq {"one", "quorum", "all"}
      /\ \A t \in (now + 1 - Skew)..(now + 1 + Skew) : t \in Int
    BY CoordinatorConstants DEF TypeInv, TypeOK
<1> QED
    BY <1>0, PutStartType, GetStartType, HandleDeleteType DEF Request

LEMMA NextTypeInv == TypeInv /\ [Next]_vars => TypeInv'
<1> SUFFICES ASSUME TypeInv, [Next]_vars PROVE TypeInv'
    OBVIOUS
<1>1. CASE Next
    BY <1>1, RequestType, StepType, DeliverType, LoseType, CrashType, MembershipType DEF Next
<1>2. CASE UNCHANGED vars
    BY <1>2 DEF vars, TypeInv, TypeOK, PhaseInv, NetInv, AnswerInv
<1> QED
    BY <1>1, <1>2

\* Type correctness of the coordinator: in particular every replication
\* request carries a live entry and every answer of a get is one.
THEOREM TypeCorrect == Spec => []TypeOK
<1>1. TypeInv => TypeOK
    BY DEF TypeInv
<1> QED
    BY <1>1, InitTypeInv, NextTypeInv, PTL DEF Spec

-----------------------------------------------------------------------------
(***************************************************************************)
(* Freshness of quorum reads.                                              *)
(*                                                                         *)
(* As long as no replica regresses, the set of replicas that hold a put,   *)
(* or something newer, only grows.  A put is acknowledged when this set    *)
(* reaches its write quorum.  A get that starts later finds at least those *)
(* replicas up to date whenever it gets to them, so the ones that answered *)
(* and the ones that hold the put share a member if the quorums intersect. *)
(***************************************************************************)

\* The replicas of p that hold p or something newer.
Good(p) == {n \in pref[p] : store[n].st = "live" /\ store[n].ts >= ts[p]}

\* Those of them where get g has read, or will read, that much.
Seen(g, p) ==
    {n \in Good(p) : /\ call[g][n] # "nil"
                     /\ call[g][n] = "ok" => resp[g][n].ts >= ts[p]}

\* A put that has an answer is over.
OverInv == \A p \in Puts : result[p] # "none" => phase[p] = "done"

\* What a get counts as over when it starts is over.
BeforeInv ==
    \A g \in Gets : phase[g] # "new" => \A p \in before[g] \cap Puts : phase[p] = "done"

\* A get has its answer only after it has finished reading.
AnswerLate == \A g \in Gets : result[g] = "ok" => phase[g] \in {"repair", "done"}

\* Calls go to the preference list.
CallsInv ==
    \A o \in Ops, n \in Nodes :
        phase[o] \in {"put", "get"} /\ call[o][n] # "idle" => n \in pref[o]

AppliedInv ==
    \A p \in Puts, n \in Nodes : phase[p] = "put" /\ call[p][n] = "ok" => n \in Good(p)

HeldInv ==
    \A p \in Puts : result[p] = "ok" => Cardinality(Good(p)) >= WriteQuorum(lvl[p])

ReadingInv ==
    \A g \in Gets : phase[g] = "get" =>
        \A p \in AckedBefore(g) : Cardinality(Seen(g, p)) >= WriteQuorum(lvl[p])

StructInv == OverInv /\ BeforeInv /\ AnswerLate /\ CallsInv

FreshInv ==
    /\ StructInv
    /\ ~regressed => AppliedInv /\ HeldInv /\ ReadingInv /\ QuorumReadFresh

\* What a step does to one operation, seen from the operation.
Same(o) ==
    /\ phase'[o] = phase[o] /\ call'[o] = call[o] /\ resp'[o] = resp[o]
    /\ result'[o] = result[o] /\ latest'[o] = latest[o]

Starts(o, p) ==
    /\ phase[o] = "new" /\ phase'[o] = p
    /\ \A n \in Nodes : /\ call'[o][n] \in {"idle", "sent", "fail"}
                        /\ call'[o][n] # "idle" => n \in pref'[o]
    /\ result'[o] = result[o] /\ latest'[o] = latest[o]
    /\ before'[o] = Answered
    /\ store' = store

Keeps(o) ==
    /\ at'[o] = at[o] /\ lvl'[o] = lvl[o] /\ ts'[o] = ts[o]
    /\ pref'[o] = pref[o] /\ before'[o] = before[o]

CallReturns(o, n, v) ==
    /\ call[o][n] = "sent" /\ call'[o] = [call[o] EXCEPT ![n] = v]
    /\ phase'[o] = phase[o] /\ result'[o] = result[o] /\ latest'[o] = latest[o]

CutOff(o) ==
    /\ phase'[o] = "done" /\ phase[o] # "new"
    /\ result'[o] = result[o] /\ latest'[o] = latest[o]

PutEffect(o) ==
    \/ Same(o)
    \/ Starts(o, "put")
    \/ \E n \in Nodes : CallReturns(o, n, "ok") /\ store'[n] = Entry(o)
    \/ \E n \in Nodes : CallReturns(o, n, "fail")
    \/ /\ phase[o] = "put" /\ phase'[o] = "done"
       /\ result'[o] = "ok" => Cardinality(OkNodes(o)) >= WriteQuorum(lvl[o])
       /\ store' = store
    \/ CutOff(o)

ReadReturns(o, n) ==
    /\ phase[o] = "get" /\ phase'[o] = "get" /\ call[o][n] = "sent"
    /\ \/ /\ store[n].st = "live"
          /\ call'[o] = [call[o] EXCEPT ![n] = "ok"]
          /\ resp'[o] = [resp[o] EXCEPT ![n] = store[n]]
       \/ /\ store[n].st # "live"
          /\ call'[o] = [call[o] EXCEPT ![n] = "nil"]
          /\ resp'[o] = resp[o]
    /\ result'[o] = result[o] /\ latest'[o] = latest[o]
    /\ store' = store

Answers(o) ==
    /\ phase[o] = "get" /\ phase'[o] = "repair"
    /\ Cardinality(OkNodes(o)) >= ReadQuorum(lvl[o])
    /\ result'[o] = "ok" /\ latest'[o] \in LatestResponses(o)

GetEffect(o) ==
    \/ Same(o)
    \/ Starts(o, "get")
    \/ \E n \in Nodes : ReadReturns(o, n)
    \/ \E n \in Nodes : CallReturns(o, n, "fail") /\ resp'[o] = resp[o]
    \/ Answers(o)
    \/ /\ phase[o] \in {"get", "repair", "done"} /\ phase'[o] \in {"repair", "done"}
       /\ phase'[o] = "repair" => phase[o] = "repair"
       /\ result'[o] \in {result[o], "notfound"} /\ latest'[o] = latest[o]

\* Only the request itself changes what was fixed when it started.
LEMMA KeepsLemma ==
    ASSUME TypeInv, Next, NEW o \in Ops
    PROVE  phase[o] # "new" => Keeps(o)
<1> SUFFICES ASSUME phase[o] # "new" PROVE Keeps(o)
    OBVIOUS
<1> USE DEF TypeInv, TypeOK, Keeps, request
<1>1. CASE Request
  <2>1. ASSUME NEW q \in Puts, NEW c, NEW l, NEW t, PutStart(q, c, l, t) PROVE Keeps(o)
      BY <2>1 DEF PutStart, Begin, MayStart, Tick, Ops
  <2>2. ASSUME NEW q \in Gets, NEW c, NEW l, GetStart(q, c, l) PROVE Keeps(o)
      BY <2>2 DEF GetStart, Begin, MayStart, Ops
  <2>3. ASSUME NEW q \in Deletes, NEW c, NEW t, HandleDelete(q, c, t) PROVE Keeps(o)
      BY <2>3 DEF HandleDelete, Begin, MayStart, Tick, Ops
  <2> QED
      BY <1>1, <2>1, <2>2, <2>3, Zenon DEF Request
<1>2. CASE \E q \in Ops : Step(q)
    BY <1>2 DEF Step, LocalWrite, PutFinish, GetFinish, RepairCheck, RepairWrite,
                RepairFinish, Timeout, ReadAt, ReadFails, RepairSend
<1>3. CASE \E q \in Ops, n \in Nodes : Deliver(q, n) \/ Lose(q, n)
    BY <1>3 DEF Deliver, Lose
<1>4. CASE \E c \in Nodes : Crash(c)
    BY <1>4 DEF Crash
<1>5. CASE Membership
    BY <1>5 DEF Membership, RegisterNode, UnregisterNode, NodeDead, NodeRevived, Change
<1> QED
    BY <1>1, <1>2, <1>3, <1>4, <1>5 DEF Next

\* Storing an entry keeps what a replica holds, or marks the history.
LEMMA StoreMono ==
    ASSUME TypeOK, NEW n \in Nodes, NEW e \in LiveEntry \cup Tombstones, Store(n, e), ~regressed',
           NEW m \in Nodes, NEW x \in Int, store[m].st = "live", store[m].ts >= x
    PROVE  ~regressed /\ store'[m].st = "live" /\ store'[m].ts >= x
<1>1. ~regressed /\ ~(store[n].st = "live" /\ (e.st = "dead" \/ e.ts < store[n].ts))
    BY Zenon DEF Store
<1>2. store' = [store EXCEPT ![n] = e] /\ store \in [Nodes -> LiveEntry \cup Tombstones \cup {NoEntry}]
    BY DEF Store, TypeOK
<1>3. e.st \in {"live", "dead"} /\ e.ts \in Int
    BY DEF LiveEntry, Tombstones
<1>4. CASE m = n
  <2>1. store[n].ts \in Int
      BY <1>2 DEF LiveEntry, Tombstones, NoEntry
  <2> QED
      BY <1>1, <1>2, <1>3, <1>4, <2>1
<1>5. CASE m # n
    BY <1>1, <1>2, <1>5
<1> QED
    BY <1>4, <1>5

\* The steps that store something, and what they store.
LEMMA StoreSteps ==
    ASSUME TypeInv, Next
    PROVE  \/ UNCHANGED <<store, regressed>>
           \/ \E n \in Nodes, e \in LiveEntry \cup Tombstones : Store(n, e)
<1> DEFINE Goal == \/ UNCHANGED <<store, regressed>>
                   \/ \E n \in Nodes, e \in LiveEntry \cup Tombstones : Store(n, e)
<1>1. ASSUME NEW q \in Deletes, NEW c \in Nodes, NEW t \in Int, HandleDelete(q, c, t) PROVE Goal
  <2>1. [st |-> "dead", ts |-> t, by |-> q] \in LiveEntry \cup Tombstones
      BY DEF Tombstones
  <2> QED
      BY <1>1, <2>1 DEF HandleDelete
<1>2. CASE Request
  <2>1. /\ Contacts \subseteq Nodes
        /\ \A t \in (now + 1 - Skew)..(now + 1 + Skew) : t \in Int
      BY CoordinatorConstants DEF TypeInv, TypeOK
  <2> QED
      BY <1>1, <1>2, <2>1 DEF Request, PutStart, GetStart
<1>3. ASSUME NEW q \in Ops, LocalWrite(q) PROVE Goal
  <2>1. at[q] \in Nodes /\ q \in Puts
      BY <1>3 DEF LocalWrite, TypeInv, TypeOK, PhaseInv, Ops
  <2>2. Entry(q) \in LiveEntry
      BY <2>1, EntryType DEF TypeInv
  <2> QED
      BY <1>3, <2>1, <2>2 DEF LocalWrite
<1>4. ASSUME NEW q \in Ops, RepairWrite(q) PROVE Goal
    BY <1>4 DEF RepairWrite, TypeInv, TypeOK, AnswerInv
<1>5. CASE \E q \in Ops : Step(q)
    BY <1>3, <1>4, <1>5 DEF Step, PutFinish, GetFinish, RepairCheck, RepairFinish,
                            Timeout, ReadAt, ReadFails, RepairSend
<1>6. ASSUME NEW q \in Ops, NEW n \in Nodes, Deliver(q, n) PROVE Goal
    BY <1>6, PayloadType DEF Deliver
<1>7. CASE \E c \in Nodes : Crash(c)
    BY <1>7 DEF Crash
<1>8. CASE Membership
    BY <1>8 DEF Membership, RegisterNode, UnregisterNode, NodeDead, NodeRevived, Change
<1> QED
    BY <1>2, <1>5, <1>6, <1>7, <1>8 DEF Next, Lose

\* While no replica regresses, what a replica holds only gets newer.
LEMMA NextMono ==
    ASSUME TypeInv, Next, ~regressed'
    PROVE  /\ ~regressed
           /\ \A m \in Nodes, x \in Int :
                 store[m].st = "live" /\ store[m].ts >= x =>
                    store'[m].st = "live" /\ store'[m].ts >= x
<1>1. CASE UNCHANGED <<store, regressed>>
    BY <1>1
<1>2. ASSUME NEW n \in Nodes, NEW e \in LiveEntry \cup Tombstones, Store(n, e)
      PROVE  /\ ~regressed
             /\ \A m \in Nodes, x \in Int :
                   store[m].st = "live" /\ store[m].ts >= x =>
                      store'[m].st = "live" /\ store'[m].ts >= x
  <2>1. ~regressed
      BY <1>2, Zenon DEF Store
  <2> QED
      BY <1>2, <2>1, StoreMono DEF TypeInv
<1> QED
    BY <1>1, <1>2, StoreSteps

LEMMA QuorumType ==
    ASSUME NEW l \in {"one", "quorum", "all"}
    PROVE  WriteQuorum(l) \in Nat \ {0} /\ ReadQuorum(l) \in Nat \ {0}
BY CoordinatorConstants DEF WriteQuorum, ReadQuorum

LEMMA OkNodesType ==
    ASSUME NEW o \in Ops
    PROVE  /\ OkNodes(o) \subseteq Nodes /\ IsFiniteSet(OkNodes(o))
           /\ Cardinality(OkNodes(o)) \in Nat
<1>1. OkNodes(o) \subseteq Nodes
    BY DEF OkNodes
<1> QED
    BY <1>1, CoordinatorConstants, FS_Subset, FS_CardinalityType

LEMMA PutEffectLemma ==
    ASSUME TypeInv, Next, NEW o \in Puts
    PROVE  PutEffect(o)
<1> USE DEF TypeInv, TypeOK
<1>0. o \in Ops /\ o \notin Gets /\ o \notin Deletes /\ phase[o] \in {"new", "put", "done"}
    BY CoordinatorConstants DEF Ops, PhaseInv
<1>1. ASSUME NEW q \in Puts, NEW c, NEW l, NEW t, PutStart(q, c, l, t) PROVE PutEffect(o)
  <2>1. CASE q = o
    <3>1. Starts(o, "put")
        BY <1>0, <1>1, <2>1 DEF PutStart, Begin, MayStart, FirstCalls, Starts
    <3> QED
        BY <3>1 DEF PutEffect
  <2>2. CASE q # o
    <3>1. Same(o)
        BY <1>0, <1>1, <2>2 DEF PutStart, Same
    <3> QED
        BY <3>1 DEF PutEffect
  <2> QED
      BY <2>1, <2>2
<1>2. ASSUME NEW q \in Gets, NEW c, NEW l, GetStart(q, c, l) PROVE PutEffect(o)
    BY <1>0, <1>2 DEF GetStart, PutEffect, Same
<1>3. ASSUME NEW q \in Deletes, NEW c, NEW t, HandleDelete(q, c, t) PROVE PutEffect(o)
    BY <1>0, <1>3 DEF HandleDelete, PutEffect, Same
<1>4. CASE Request
    BY <1>1, <1>2, <1>3, <1>4, Zenon DEF Request
<1>5. ASSUME NEW q \in Ops, LocalWrite(q) PROVE PutEffect(o)
  <2>0. at[q] \in Nodes
      OBVIOUS
  <2>1. CASE q = o
    <3>1. CASE Store(at[o], Entry(o)) /\ call' = [call EXCEPT ![o][at[o]] = "ok"]
      <4>1. CallReturns(o, at[o], "ok") /\ store'[at[o]] = Entry(o)
          BY <1>0, <1>5, <2>0, <2>1, <3>1 DEF LocalWrite, CallReturns, Store
      <4> QED
          BY <2>0, <2>1, <4>1 DEF PutEffect
    <3>2. CASE call' = [call EXCEPT ![o][at[o]] = "fail"]
      <4>1. CallReturns(o, at[o], "fail")
          BY <1>0, <1>5, <2>0, <2>1, <3>2 DEF LocalWrite, CallReturns
      <4> QED
          BY <2>0, <2>1, <4>1 DEF PutEffect
    <3> QED
        BY <1>5, <2>1, <3>1, <3>2 DEF LocalWrite
  <2>2. CASE q # o
    <3>1. call'[o] = call[o]
        BY <1>0, <1>5, <2>2 DEF LocalWrite
    <3> QED
        BY <1>5, <3>1 DEF LocalWrite, PutEffect, Same
  <2> QED
      BY <2>1, <2>2
<1>6. ASSUME NEW q \in Ops, PutFinish(q) PROVE PutEffect(o)
  <2>1. CASE q = o
    <3>1. WriteQuorum(lvl[o]) \in Nat /\ Cardinality(OkNodes(o)) \in Nat
      <4>1. lvl[o] \in {"one", "quorum", "all"}
          BY <1>0
      <4> QED
          BY <1>0, <4>1, QuorumType, OkNodesType
    <3>2. /\ phase[o] = "put" /\ phase'[o] = "done" /\ store' = store
          /\ result'[o] = IF Cardinality(OkNodes(o)) < WriteQuorum(lvl[o]) THEN "failed" ELSE "ok"
        BY <1>0, <1>6, <2>1 DEF PutFinish
    <3>3. result'[o] = "ok" => Cardinality(OkNodes(o)) >= WriteQuorum(lvl[o])
        BY <3>1, <3>2
    <3> QED
        BY <3>2, <3>3 DEF PutEffect
  <2>2. CASE q # o
      BY <1>0, <1>6, <2>2 DEF PutFinish, PutEffect, Same
  <2> QED
      BY <2>1, <2>2
<1>7. ASSUME NEW q \in Ops, NEW n \in Nodes, Timeout(q, n) PROVE PutEffect(o)
  <2>1. CASE q = o
    <3>1. CallReturns(o, n, "fail")
        BY <1>0, <1>7, <2>1 DEF Timeout, CallReturns
    <3> QED
        BY <3>1 DEF PutEffect
  <2>2. CASE q # o
      BY <1>0, <1>7, <2>2 DEF Timeout, PutEffect, Same
  <2> QED
      BY <2>1, <2>2
<1>8. ASSUME NEW q \in Ops,
             GetFinish(q) \/ RepairCheck(q) \/ RepairWrite(q) \/ RepairFinish(q)
      PROVE  PutEffect(o)
  <2>1. q # o
      BY <1>0, <1>8 DEF GetFinish, RepairCheck, RepairWrite, RepairFinish, NextRepair
  <2> QED
      BY <1>0, <1>8, <2>1 DEF GetFinish, RepairCheck, RepairWrite, RepairFinish, PutEffect, Same
<1>9. ASSUME NEW q \in Ops, NEW n \in Nodes,
             ReadAt(q, n) \/ ReadFails(q, n) \/ RepairSend(q, n)
      PROVE  PutEffect(o)
  <2>1. q # o
      BY <1>0, <1>9 DEF ReadAt, ReadFails, RepairSend, NextRepair
  <2> QED
      BY <1>0, <1>9, <2>1 DEF ReadAt, ReadFails, RepairSend, PutEffect, Same
<1>10. CASE \E q \in Ops : Step(q)
    BY <1>5, <1>6, <1>7, <1>8, <1>9, <1>10, Zenon DEF Step
<1>11. ASSUME NEW q \in Ops, NEW n \in Nodes, Deliver(q, n) PROVE PutEffect(o)
  <2>1. CASE q = o /\ call[o][n] = "sent"
    <3>1. CallReturns(o, n, "ok") /\ store'[n] = Entry(o)
        BY <1>0, <1>11, <2>1 DEF Deliver, CallReturns, Payload, Store
    <3> QED
        BY <3>1 DEF PutEffect
  <2>2. CASE ~(q = o /\ call[o][n] = "sent")
    <3>1. call'[o] = call[o]
        BY <1>0, <1>11, <2>2 DEF Deliver
    <3> QED
        BY <1>11, <3>1 DEF Deliver, PutEffect, Same
  <2> QED
      BY <2>1, <2>2
<1>12. ASSUME NEW q \in Ops, NEW n \in Nodes, Lose(q, n) PROVE PutEffect(o)
    BY <1>12 DEF Lose, PutEffect, Same
<1>13. ASSUME NEW c \in Nodes, Crash(c) PROVE PutEffect(o)
  <2>1. CASE at[o] = c /\ Active(o)
      BY <1>0, <1>13, <2>1 DEF Crash, PutEffect, CutOff, Active
  <2>2. CASE ~(at[o] = c /\ Active(o))
      BY <1>0, <1>13, <2>2 DEF Crash, PutEffect, Same
  <2> QED
      BY <2>1, <2>2
<1>14. CASE Membership
    BY <1>14 DEF Membership, RegisterNode, UnregisterNode, NodeDead, NodeRevived, Change, PutEffect, Same
<1> QED
    BY <1>4, <1>10, <1>11, <1>12, <1>13, <1>14 DEF Next

LEMMA GetEffectLemma ==
    ASSUME TypeInv, Next, NEW o \in Gets
    PROVE  GetEffect(o)
<1> USE DEF TypeInv, TypeOK
<1>0. o \in Ops /\ o \notin Puts /\ o \notin Deletes /\ phase[o] \in {"new", "get", "repair", "done"}
    BY CoordinatorConstants DEF Ops, PhaseInv
<1>1. ASSUME NEW q \in Gets, NEW c, NEW l, GetStart(q, c, l) PROVE GetEffect(o)
  <2>1. CASE q = o
    <3>1. Starts(o, "get")
        BY <1>0, <1>1, <2>1 DEF GetStart, Begin, MayStart, FirstCalls, Starts
    <3> QED
        BY <3>1 DEF GetEffect
  <2>2. CASE q # o
    <3>1. Same(o)
        BY <1>0, <1>1, <2>2 DEF GetStart, Same
    <3> QED
        BY <3>1 DEF GetEffect
  <2> QED
      BY <2>1, <2>2
<1>2. ASSUME NEW q \in Puts, NEW c, NEW l, NEW t, PutStart(q, c, l, t) PROVE GetEffect(o)
    BY <1>0, <1>2 DEF PutStart, GetEffect, Same
<1>3. ASSUME NEW q \in Deletes, NEW c, NEW t, HandleDelete(q, c, t) PROVE GetEffect(o)
    BY <1>0, <1>3 DEF HandleDelete, GetEffect, Same
<1>4. CASE Request
    BY <1>1, <1>2, <1>3, <1>4, Zenon DEF Request
<1>5. ASSUME NEW q \in Ops, LocalWrite(q) \/ PutFinish(q) PROVE GetEffect(o)
  <2>1. q # o
      BY <1>0, <1>5 DEF LocalWrite, PutFinish
  <2>2. call'[o] = call[o]
      BY <1>0, <1>5, <2>1 DEF LocalWrite, PutFinish
  <2> QED
      BY <1>0, <1>5, <2>1, <2>2 DEF LocalWrite, PutFinish, GetEffect, Same
<1>6. ASSUME NEW q \in Ops, NEW n \in Nodes, ReadAt(q, n) PROVE GetEffect(o)
  <2>1. CASE q = o
    <3>1. ReadReturns(o, n)
      <4>1. CASE store[n].st = "live"
          BY <1>0, <1>6, <2>1, <4>1 DEF ReadAt, ReadReturns
      <4>2. CASE store[n].st # "live"
          BY <1>0, <1>6, <2>1, <4>2 DEF ReadAt, ReadReturns
      <4> QED
          BY <4>1, <4>2
    <3> QED
        BY <3>1 DEF GetEffect
  <2>2. CASE q # o
    <3>1. call'[o] = call[o] /\ resp'[o] = resp[o]
        BY <1>0, <1>6, <2>2 DEF ReadAt
    <3> QED
        BY <1>6, <3>1 DEF ReadAt, GetEffect, Same
  <2> QED
      BY <2>1, <2>2
<1>7. ASSUME NEW q \in Ops, NEW n \in Nodes, ReadFails(q, n) \/ Timeout(q, n) PROVE GetEffect(o)
  <2>1. CASE q = o
    <3>1. CallReturns(o, n, "fail") /\ resp'[o] = resp[o]
        BY <1>0, <1>7, <2>1 DEF ReadFails, Timeout, CallReturns
    <3> QED
        BY <3>1 DEF GetEffect
  <2>2. CASE q # o
      BY <1>0, <1>7, <2>2 DEF ReadFails, Timeout, GetEffect, Same
  <2> QED
      BY <2>1, <2>2
<1>8. ASSUME NEW q \in Ops, GetFinish(q) PROVE GetEffect(o)
  <2>1. CASE q = o /\ phase' = [phase EXCEPT ![q] = "repair"]
    <3>1. PICK e \in LatestResponses(o) : latest' = [latest EXCEPT ![o] = e]
        BY <1>0, <1>8, <2>1 DEF GetFinish
    <3>2. Answers(o)
        BY <1>0, <1>8, <2>1, <3>1 DEF GetFinish, Answers
    <3> QED
        BY <3>2 DEF GetEffect
  <2>2. CASE q = o /\ phase' = [phase EXCEPT ![q] = "done"]
      BY <1>0, <1>8, <2>2 DEF GetFinish, GetEffect
  <2>3. CASE q # o
    <3>1. latest'[o] = latest[o] /\ call'[o] = call[o]
        BY <1>0, <1>8, <2>3 DEF GetFinish
    <3> QED
        BY <1>0, <1>8, <2>3, <3>1 DEF GetFinish, GetEffect, Same
  <2> QED
      BY <1>8, <2>1, <2>2, <2>3 DEF GetFinish
<1>9. ASSUME NEW q \in Ops, \/ RepairCheck(q) \/ RepairWrite(q) \/ RepairFinish(q)
                            \/ \E n \in Nodes : RepairSend(q, n)
      PROVE  GetEffect(o)
  <2>0. phase[q] = "repair"
      BY <1>9 DEF RepairCheck, RepairWrite, RepairFinish, RepairSend, NextRepair
  <2>1. CASE q = o
      BY <1>0, <1>9, <2>0, <2>1 DEF RepairCheck, RepairWrite, RepairFinish, RepairSend, GetEffect
  <2>2. CASE q # o
    <3>1. call'[o] = call[o]
        BY <1>0, <1>9, <2>2 DEF RepairCheck, RepairWrite, RepairFinish, RepairSend
    <3> QED
        BY <1>0, <1>9, <2>2, <3>1 DEF RepairCheck, RepairWrite, RepairFinish, RepairSend, GetEffect, Same
  <2> QED
      BY <2>1, <2>2
<1>10. CASE \E q \in Ops : Step(q)
    BY <1>5, <1>6, <1>7, <1>8, <1>9, <1>10, Zenon DEF Step
<1>11. ASSUME NEW q \in Ops, NEW n \in Nodes, Deliver(q, n) PROVE GetEffect(o)
  <2>1. CASE q = o
    <3>1. phase[o] \in {"repair", "done"}
        BY <1>11, <2>1 DEF Deliver, NetInv
    <3> QED
        BY <1>11, <2>1, <3>1 DEF Deliver, GetEffect
  <2>2. CASE q # o
      BY <1>0, <1>11, <2>2 DEF Deliver, GetEffect, Same
  <2> QED
      BY <2>1, <2>2
<1>12. ASSUME NEW q \in Ops, NEW n \in Nodes, Lose(q, n) PROVE GetEffect(o)
    BY <1>12 DEF Lose, GetEffect, Same
<1>13. ASSUME NEW c \in Nodes, Crash(c) PROVE GetEffect(o)
  <2>1. CASE at[o] = c /\ Active(o)
      BY <1>0, <1>13, <2>1 DEF Crash, GetEffect, Active
  <2>2. CASE ~(at[o] = c /\ Active(o))
      BY <1>0, <1>13, <2>2 DEF Crash, GetEffect, Same
  <2> QED
      BY <2>1, <2>2
<1>14. CASE Membership
    BY <1>14 DEF Membership, RegisterNode, UnregisterNode, NodeDead, NodeRevived, Change, GetEffect, Same
<1> QED
    BY <1>4, <1>10, <1>11, <1>12, <1>13, <1>14 DEF Next

LEMMA CardMono ==
    ASSUME NEW A, NEW B, A \subseteq B, B \subseteq Nodes
    PROVE  /\ Cardinality(A) \in Nat /\ Cardinality(B) \in Nat
           /\ Cardinality(A) <= Cardinality(B)
<1>1. IsFiniteSet(B)
    BY CoordinatorConstants, FS_Subset
<1> QED
    BY <1>1, FS_Subset, FS_CardinalityType

\* Two quorums that together exceed the replicas there are share one.
LEMMA QuorumsMeet ==
    ASSUME NEW A, NEW B, NEW P, A \subseteq P, B \subseteq P, P \subseteq Nodes,
           NEW k \in Nat, NEW l \in Nat, Cardinality(A) >= k, Cardinality(B) >= l,
           Cardinality(P) <= N, k + l > N
    PROVE  A \cap B # {}
<1> SUFFICES ASSUME A \cap B = {} PROVE FALSE
    OBVIOUS
<1>0. N \in Nat
    BY CoordinatorConstants
<1>1. IsFiniteSet(P) /\ IsFiniteSet(A) /\ IsFiniteSet(B)
    BY CoordinatorConstants, FS_Subset
<1>2. Cardinality(A \cup B) = Cardinality(A) + Cardinality(B) - Cardinality(A \cap B)
    BY <1>1, FS_Union
<1>3. Cardinality(A \cap B) = 0
    BY FS_EmptySet
<1>4. A \cup B \subseteq P
    OBVIOUS
<1>5. Cardinality(A \cup B) <= Cardinality(P)
    BY <1>1, <1>4, FS_Subset
<1>6. /\ Cardinality(A) \in Nat /\ Cardinality(B) \in Nat /\ Cardinality(P) \in Nat
    BY <1>1, FS_CardinalityType
<1> QED
    BY <1>0, <1>2, <1>3, <1>5, <1>6

\* A put that is over stays as it is.
LEMMA DoneStays ==
    ASSUME TypeInv, Next, NEW p \in Puts, phase[p] = "done"
    PROVE  phase'[p] = "done" /\ result'[p] = result[p] /\ Keeps(p)
<1>1. PutEffect(p) /\ p \in Ops
    BY PutEffectLemma DEF Ops
<1>2. Keeps(p)
    BY <1>1, KeepsLemma
<1> QED
    BY <1>1, <1>2 DEF PutEffect, Same, Starts, CallReturns, CutOff

LEMMA StructStep ==
    ASSUME TypeInv, TypeInv', StructInv, Next
    PROVE  StructInv'
<1> USE DEF StructInv
<1>1. OverInv'
  <2> SUFFICES ASSUME NEW p \in Puts, result'[p] # "none" PROVE phase'[p] = "done"
      BY DEF OverInv
  <2>1. PutEffect(p)
      BY PutEffectLemma
  <2> QED
      BY <2>1 DEF PutEffect, Same, Starts, CallReturns, CutOff, OverInv
<1>2. BeforeInv'
  <2> SUFFICES ASSUME NEW g \in Gets, phase'[g] # "new", NEW p \in before'[g] \cap Puts
               PROVE  phase'[p] = "done"
      BY DEF BeforeInv
  <2>1. GetEffect(g) /\ g \in Ops
      BY GetEffectLemma DEF Ops
  <2>2. phase[p] = "done"
    <3>1. CASE phase[g] # "new"
        BY <2>1, <3>1, KeepsLemma DEF Keeps, BeforeInv
    <3>2. CASE phase[g] = "new"
      <4>1. before'[g] = Answered
          BY <2>1, <3>2 DEF GetEffect, Same, Starts, ReadReturns, CallReturns, Answers, AnswerInv, TypeInv
      <4> QED
          BY <4>1 DEF Answered, OverInv
    <3> QED
        BY <3>1, <3>2
  <2> QED
      BY <2>2, DoneStays
<1>3. AnswerLate'
  <2> SUFFICES ASSUME NEW g \in Gets, result'[g] = "ok" PROVE phase'[g] \in {"repair", "done"}
      BY DEF AnswerLate
  <2>1. GetEffect(g)
      BY GetEffectLemma
  <2> QED
      BY <2>1 DEF GetEffect, Same, Starts, ReadReturns, CallReturns, Answers, AnswerLate
<1>4. CallsInv'
  <2> SUFFICES ASSUME NEW o \in Ops, NEW n \in Nodes, phase'[o] \in {"put", "get"},
                      call'[o][n] # "idle"
               PROVE  n \in pref'[o]
      BY DEF CallsInv
  <2>0. call[o] \in [Nodes -> CallState]
      BY DEF TypeInv, TypeOK
  <2>1. CASE o \in Puts
    <3>1. PutEffect(o)
        BY <2>1, PutEffectLemma
    <3>2. CASE phase[o] = "new"
        BY <3>1, <3>2 DEF PutEffect, Same, Starts, CallReturns, CutOff
    <3>3. CASE phase[o] # "new"
      <4>1. pref'[o] = pref[o] /\ phase[o] \in {"put", "get"}
          BY <3>1, <3>3, KeepsLemma DEF PutEffect, Same, Starts, CallReturns, CutOff, Keeps
      <4>2. call[o][n] # "idle"
          BY <2>0, <3>1, <3>3 DEF PutEffect, Same, Starts, CallReturns, CutOff
      <4> QED
          BY <4>1, <4>2 DEF CallsInv
    <3> QED
        BY <3>2, <3>3
  <2>2. CASE o \in Gets
    <3>1. GetEffect(o)
        BY <2>2, GetEffectLemma
    <3>2. CASE phase[o] = "new"
        BY <3>1, <3>2 DEF GetEffect, Same, Starts, ReadReturns, CallReturns, Answers
    <3>3. CASE phase[o] # "new"
      <4>1. pref'[o] = pref[o] /\ phase[o] \in {"put", "get"}
          BY <3>1, <3>3, KeepsLemma DEF GetEffect, Same, Starts, ReadReturns, CallReturns, Answers, Keeps
      <4>2. call[o][n] # "idle"
          BY <2>0, <3>1, <3>3 DEF GetEffect, Same, Starts, ReadReturns, CallReturns, Answers
      <4> QED
          BY <4>1, <4>2 DEF CallsInv
    <3> QED
        BY <3>2, <3>3
  <2>3. CASE o \in Deletes
      BY <2>3, CoordinatorConstants DEF TypeInv, PhaseInv
  <2> QED
      BY <2>1, <2>2, <2>3 DEF Ops
<1> QED
    BY <1>1, <1>2, <1>3, <1>4

\* The replicas that hold a put only become more.
LEMMA GoodGrows ==
    ASSUME TypeInv, TypeInv', Next, ~regressed', NEW p \in Puts, phase[p] # "new"
    PROVE  Good(p) \subseteq Good(p)' /\ Good(p)' \subseteq Nodes
<1>1. p \in Ops /\ Keeps(p)
    BY KeepsLemma DEF Ops
<1>2. pref'[p] = pref[p] /\ ts'[p] = ts[p] /\ ts[p] \in Int /\ pref[p] \subseteq Nodes
    BY <1>1 DEF Keeps, TypeInv, TypeOK
<1> QED
    BY <1>2, NextMono DEF Good

LEMMA AppliedStep ==
    ASSUME TypeInv, TypeInv', StructInv, AppliedInv, Next, ~regressed'
    PROVE  AppliedInv'
<1> SUFFICES ASSUME NEW p \in Puts, NEW n \in Nodes, phase'[p] = "put", call'[p][n] = "ok"
             PROVE  n \in Good(p)'
    BY DEF AppliedInv
<1>0. p \in Ops /\ PutEffect(p)
    BY PutEffectLemma DEF Ops
<1>1. call[p] \in [Nodes -> CallState] /\ ts[p] \in Int
    BY <1>0 DEF TypeInv, TypeOK
<1>2. phase[p] = "put"
    BY <1>0 DEF PutEffect, Same, Starts, CallReturns, CutOff
<1>3. CASE call[p][n] = "ok"
    BY <1>2, <1>3, GoodGrows DEF AppliedInv
<1>4. CASE call[p][n] # "ok"
  <2>1. call[p][n] = "sent" /\ store'[n] = Entry(p)
      BY <1>0, <1>1, <1>2, <1>4 DEF PutEffect, Same, Starts, CallReturns, CutOff
  <2>2. n \in pref[p] /\ Keeps(p)
      BY <1>0, <1>2, <2>1, KeepsLemma DEF StructInv, CallsInv
  <2> QED
      BY <1>1, <2>1, <2>2 DEF Good, Keeps, Entry
<1> QED
    BY <1>3, <1>4

LEMMA HeldStep ==
    ASSUME TypeInv, TypeInv', StructInv, AppliedInv, HeldInv, Next, ~regressed'
    PROVE  HeldInv'
<1> SUFFICES ASSUME NEW p \in Puts, result'[p] = "ok"
             PROVE  Cardinality(Good(p)') >= WriteQuorum(lvl'[p])
    BY DEF HeldInv, WriteQuorum
<1>0. p \in Ops /\ PutEffect(p)
    BY PutEffectLemma DEF Ops
<1>1. phase[p] # "new"
    BY <1>0 DEF PutEffect, Same, Starts, CallReturns, CutOff, StructInv, OverInv
<1>2. lvl'[p] = lvl[p] /\ WriteQuorum(lvl[p]) \in Nat
    BY <1>0, <1>1, KeepsLemma, QuorumType DEF Keeps, TypeInv, TypeOK
<1>3. Good(p) \subseteq Good(p)' /\ Good(p)' \subseteq Nodes
    BY <1>1, GoodGrows
<1>4. CASE result[p] = "ok"
  <2>1. Cardinality(Good(p)) >= WriteQuorum(lvl[p])
      BY <1>4 DEF HeldInv
  <2>2. /\ Cardinality(Good(p)) \in Nat /\ Cardinality(Good(p)') \in Nat
        /\ Cardinality(Good(p)) <= Cardinality(Good(p)')
      BY <1>3, CardMono
  <2> QED
      BY <1>2, <2>1, <2>2
<1>5. CASE result[p] # "ok"
  <2>1. phase[p] = "put" /\ Cardinality(OkNodes(p)) >= WriteQuorum(lvl[p])
      BY <1>0, <1>5 DEF PutEffect, Same, Starts, CallReturns, CutOff
  <2>2. OkNodes(p) \subseteq Good(p)
      BY <2>1 DEF OkNodes, AppliedInv
  <2>3. /\ Cardinality(OkNodes(p)) \in Nat /\ Cardinality(Good(p)') \in Nat
        /\ Cardinality(OkNodes(p)) <= Cardinality(Good(p)')
    <3>1. OkNodes(p) \subseteq Good(p)'
        BY <1>3, <2>2
    <3> QED
        BY <1>3, <3>1, CardMono
  <2> QED
      BY <1>2, <2>1, <2>3
<1> QED
    BY <1>4, <1>5

LEMMA ReadingStep ==
    ASSUME TypeInv, TypeInv', StructInv, HeldInv, ReadingInv, Next, ~regressed'
    PROVE  ReadingInv'
<1> SUFFICES ASSUME NEW g \in Gets, phase'[g] = "get", NEW p \in AckedBefore(g)'
             PROVE  Cardinality(Seen(g, p)') >= WriteQuorum(lvl'[p])
    BY DEF ReadingInv, WriteQuorum
<1>0. /\ g \in Ops /\ GetEffect(g)
      /\ p \in Puts /\ p \in Ops /\ p \in before'[g] /\ result'[p] = "ok"
    BY GetEffectLemma DEF Ops, AckedBefore
<1>1. phase[p] = "done"
  <2>1. CASE phase[g] = "new"
    <3>1. before'[g] = Answered
        BY <1>0, <2>1 DEF GetEffect, Same, Starts, ReadReturns, CallReturns, Answers
    <3> QED
        BY <1>0, <3>1 DEF Answered, StructInv, OverInv
  <2>2. CASE phase[g] # "new"
    <3>1. before'[g] = before[g]
        BY <1>0, <2>2, KeepsLemma DEF Keeps
    <3> QED
        BY <1>0, <2>2, <3>1 DEF StructInv, BeforeInv
  <2> QED
      BY <2>1, <2>2
<1>2. /\ result[p] = "ok" /\ Keeps(p)
    BY <1>0, <1>1, DoneStays
<1>3. /\ lvl'[p] = lvl[p] /\ ts'[p] = ts[p] /\ pref'[p] = pref[p] /\ ts[p] \in Int
      /\ WriteQuorum(lvl[p]) \in Nat
    BY <1>0, <1>2, QuorumType DEF Keeps, TypeInv, TypeOK
<1>4. Good(p) \subseteq Good(p)' /\ Good(p)' \subseteq Nodes
    BY <1>0, <1>1, GoodGrows
<1>5. /\ call[g] \in [Nodes -> CallState]
      /\ resp[g] \in [Nodes -> LiveEntry \cup {NoEntry}]
    BY <1>0 DEF TypeInv, TypeOK
<1>6. PICK S : S \subseteq Seen(g, p)' /\ Cardinality(S) >= WriteQuorum(lvl[p])
  <2>1. CASE phase[g] = "new"
    <3>1. \A n \in Nodes : call'[g][n] \in {"idle", "sent", "fail"}
        BY <1>0, <2>1 DEF GetEffect, Same, Starts, ReadReturns, CallReturns, Answers
    <3>2. Good(p) \subseteq Seen(g, p)'
        BY <1>4, <3>1 DEF Seen
    <3> QED
        BY <1>0, <1>2, <3>2 DEF HeldInv
  <2>2. CASE phase[g] # "new"
    <3>1. phase[g] = "get" /\ before'[g] = before[g]
        BY <1>0, <2>2, KeepsLemma DEF Keeps, GetEffect, Same, Starts, ReadReturns, CallReturns, Answers
    <3>2. p \in AckedBefore(g)
        BY <1>0, <1>2, <3>1 DEF AckedBefore
    <3>3. Seen(g, p) \subseteq Seen(g, p)'
      <4> SUFFICES ASSUME NEW n \in Seen(g, p) PROVE n \in Seen(g, p)'
          OBVIOUS
      <4>1. /\ n \in Nodes /\ n \in Good(p)' /\ n \in Good(p)
            /\ call[g][n] # "nil" /\ (call[g][n] = "ok" => resp[g][n].ts >= ts[p])
          BY <1>4 DEF Seen
      <4>2. store[n].st = "live" /\ store[n].ts >= ts[p]
          BY <4>1 DEF Good
      <4>3. call'[g][n] # "nil" /\ (call'[g][n] = "ok" => resp'[g][n].ts >= ts[p])
          BY <1>0, <1>5, <2>2, <3>1, <4>1, <4>2 DEF GetEffect, Same, Starts, ReadReturns, CallReturns, Answers
      <4> QED
          BY <1>3, <4>1, <4>3 DEF Seen
    <3> QED
        BY <3>1, <3>2, <3>3 DEF ReadingInv
  <2> QED
      BY <2>1, <2>2
<1>7. Seen(g, p)' \subseteq Nodes
    BY <1>4 DEF Seen
<1>8. /\ Cardinality(S) \in Nat /\ Cardinality(Seen(g, p)') \in Nat
      /\ Cardinality(S) <= Cardinality(Seen(g, p)')
    BY <1>6, <1>7, CardMono
<1> QED
    BY <1>3, <1>6, <1>8

LEMMA AnswerStep ==
    ASSUME TypeInv, TypeInv', StructInv, ReadingInv, QuorumReadFresh, Next, ~regressed'
    PROVE  QuorumReadFresh'
<1> SUFFICES ASSUME NEW g \in Gets, result'[g] = "ok", NEW p \in AckedBefore(g)',
                    Intersecting(p, g)'
             PROVE  latest'[g].ts >= ts'[p]
    BY DEF QuorumReadFresh
<1>0. /\ g \in Ops /\ GetEffect(g)
      /\ p \in Puts /\ p \in Ops /\ p \in before'[g] /\ result'[p] = "ok"
    BY GetEffectLemma DEF Ops, AckedBefore
<1>1. phase[g] # "new" /\ (result[g] = "ok" => latest'[g] = latest[g])
    BY <1>0 DEF GetEffect, Same, Starts, ReadReturns, CallReturns, Answers, StructInv, AnswerLate
<1>2. Keeps(g)
    BY <1>0, <1>1, KeepsLemma
<1>3. phase[p] = "done"
    BY <1>0, <1>1, <1>2 DEF Keeps, StructInv, BeforeInv
<1>4. result[p] = "ok" /\ Keeps(p)
    BY <1>0, <1>3, DoneStays
<1>5. p \in AckedBefore(g) /\ Intersecting(p, g)
    BY <1>0, <1>2, <1>4 DEF AckedBefore, Intersecting, Keeps, WriteQuorum, ReadQuorum
<1>6. CASE result[g] = "ok"
    BY <1>1, <1>4, <1>5, <1>6 DEF QuorumReadFresh, Keeps
<1>7. CASE result[g] # "ok"
  <2>1. Answers(g)
      BY <1>0, <1>7 DEF GetEffect, Same, Starts, ReadReturns, CallReturns, Answers
  <2>2. Cardinality(Seen(g, p)) >= WriteQuorum(lvl[p])
      BY <1>5, <2>1 DEF ReadingInv, Answers
  <2>3. OkNodes(g) \subseteq pref[g] /\ Seen(g, p) \subseteq pref[p]
      BY <1>0, <2>1 DEF OkNodes, Answers, Seen, Good, StructInv, CallsInv
  <2>4. /\ pref[g] \subseteq Nodes /\ pref[p] \subseteq Nodes /\ ts[p] \in Int
        /\ WriteQuorum(lvl[p]) \in Nat /\ ReadQuorum(lvl[g]) \in Nat
      BY <1>0, QuorumType DEF TypeInv, TypeOK
  <2>5. OkNodes(g) \cap Seen(g, p) # {}
    <3>1. /\ OkNodes(g) \subseteq pref[p] \cup pref[g] /\ Seen(g, p) \subseteq pref[p] \cup pref[g]
          /\ pref[p] \cup pref[g] \subseteq Nodes
        BY <2>3, <2>4
    <3>2. /\ Cardinality(pref[p] \cup pref[g]) <= N
          /\ ReadQuorum(lvl[g]) + WriteQuorum(lvl[p]) > N
        BY <1>5, <2>4, CoordinatorConstants DEF Intersecting
    <3> QED
        BY <2>1, <2>2, <2>4, <3>1, <3>2, QuorumsMeet DEF Answers
  <2>6. PICK n \in Nodes : n \in OkNodes(g) /\ resp[g][n].ts >= ts[p]
      BY <2>5 DEF OkNodes, Seen
  <2>7. PICK m \in OkNodes(g) : /\ latest'[g] = resp[g][m]
                                /\ resp[g][m].ts >= resp[g][n].ts
      BY <2>1, <2>6 DEF Answers, LatestResponses
  <2>8. resp[g][m].ts \in Int /\ resp[g][n].ts \in Int
    <3>1. resp[g][m] \in LiveEntry /\ resp[g][n] \in LiveEntry
        BY <1>0, <2>1, <2>6, <2>7 DEF OkNodes, Answers, TypeInv, AnswerInv
    <3> QED
        BY <3>1 DEF LiveEntry
  <2> QED
      BY <1>4, <2>4, <2>6, <2>7, <2>8 DEF Keeps
<1> QED
    BY <1>6, <1>7

LEMMA InitFresh == Init => FreshInv
<1> SUFFICES ASSUME Init PROVE FreshInv
    OBVIOUS
<1>1. \A o \in Ops : phase[o] = "new" /\ result[o] = "none"
    BY DEF Init
<1>2. Puts \subseteq Ops /\ Gets \subseteq Ops
    BY DEF Ops
<1>3. StructInv
    BY <1>1, <1>2 DEF StructInv, OverInv, BeforeInv, AnswerLate, CallsInv
<1>4. AppliedInv /\ HeldInv /\ ReadingInv /\ QuorumReadFresh
    BY <1>1, <1>2 DEF AppliedInv, HeldInv, ReadingInv, QuorumReadFresh
<1> QED
    BY <1>3, <1>4 DEF FreshInv

LEMMA NextFresh == TypeInv /\ TypeInv' /\ FreshInv /\ [Next]_vars => FreshInv'
<1> SUFFICES ASSUME TypeInv, TypeInv', FreshInv, [Next]_vars PROVE FreshInv'
    OBVIOUS
<1>1. CASE Next
  <2>1. StructInv'
      BY <1>1, StructStep DEF FreshInv
  <2>2. ASSUME ~regressed' PROVE (AppliedInv /\ HeldInv /\ ReadingInv /\ QuorumReadFresh)'
    <3>1. AppliedInv /\ HeldInv /\ ReadingInv /\ QuorumReadFresh /\ StructInv
        BY <1>1, <2>2, NextMono DEF FreshInv
    <3> QED
        BY <1>1, <2>2, <3>1, AppliedStep, HeldStep, ReadingStep, AnswerStep
  <2> QED
      BY <2>1, <2>2 DEF FreshInv
<1>2. CASE UNCHANGED vars
    BY <1>2 DEF vars, FreshInv, StructInv, OverInv, BeforeInv, AnswerLate, CallsInv, AppliedInv,
                HeldInv, ReadingInv, QuorumReadFresh, Good, Seen, AckedBefore, Intersecting,
                WriteQuorum, ReadQuorum
<1> QED
    BY <1>1, <1>2

\* Strong consistency of quorum reads, as far as the code provides it: for
\* every cluster, every valid N, R and W and every interleaving, a get never
\* answers with something older than a put acknowledged before it started,
\* when their quorums intersect and no replica has replaced a newer entry by
\* an older one.
THEOREM ReadsFresh == Spec => []FreshUnlessRegressed
<1>1. FreshInv => FreshUnlessRegressed
    BY DEF FreshInv, FreshUnlessRegressed
<1> QED
    BY <1>1, InitTypeInv, NextTypeInv, InitFresh, NextFresh, PTL DEF Spec

-----------------------------------------------------------------------------
(***************************************************************************)
(* Clients that wait.                                                      *)
(*                                                                         *)
(* With one request at a time, one clock and one list of replicas, nothing *)
(* older than an acknowledged put is ever sent: a put has a new timestamp, *)
(* and a get repairs with an answer that a read quorum has given it.  So   *)
(* what the replicas of the list hold of an acknowledged put stays, even   *)
(* where a repair replaces a tombstone by an older entry.                  *)
(***************************************************************************)

\* HashRing.GetNodes on a ring with members M.
FirstOf(M) == {n \in M : Cardinality({m \in M : Rank[m] < Rank[n]}) < N}

\* What the nodes that clients talk to have on their rings at start.
Members == UNION {Peers[c] \cup {c} : c \in Contacts}

\* The replicas of the key.
Replicas == IF Cardinality(Nodes) <= N THEN Nodes ELSE FirstOf(Members)

\* Either every node is a replica of everything, or the coordinators agree on
\* the members and nothing changes them.
OneList ==
    \/ Cardinality(Nodes) <= N
    \/ MaxChanges = 0 /\ \A c, d \in Contacts : Peers[c] \cup {c} = Peers[d] \cup {d}

QuorumsIntersect == \A k, l \in Levels : WriteQuorum(k) + ReadQuorum(l) > N

SerialClients == Serial /\ Skew = 0 /\ OneList /\ QuorumsIntersect

\* The request is being worked on, or something of it is still on its way.
InFlight(o) == Active(o) \/ \E n \in Nodes : <<o, n>> \in net

\* The request may still write to replicas.
Sends(o) == phase[o] \in {"put", "repair"} \/ \E n \in Nodes : <<o, n>> \in net

Acked == {p \in Puts : result[p] = "ok"}

AloneInv == \A o, q \in Ops : InFlight(o) /\ InFlight(q) => o = q

SentInv == \A o \in Ops, n \in Nodes : <<o, n>> \in net => phase[o] # "new"

\* The lists that requests use, and the levels they ask for.
ListInv ==
    /\ MaxChanges = 0 => changes = 0 /\ \A c \in Nodes : ring[c] = Peers[c] \cup {c}
    /\ \A o \in Ops : pref[o] \subseteq Replicas
    /\ \A o \in Puts \cup Gets : phase[o] # "new" => lvl[o] \in Levels

ClockInv == \A o \in Ops : ts[o] <= now

\* Nothing that is older than an acknowledged put is sent.
SendInv ==
    \A o \in Ops : Sends(o) => \A p \in Acked : Payload(o).ts >= ts[p]

\* What a get has read is still there.
ReadInv ==
    \A g \in Gets, n \in Nodes : phase[g] = "get" /\ call[g][n] = "ok" => resp[g][n] = store[n]

StoredInv ==
    \A p \in Puts, n \in Nodes : phase[p] = "put" /\ call[p][n] = "ok" => store[n].ts >= ts[p]

Holding(p) == {n \in Replicas : store[n].ts >= ts[p]}

HoldInv == \A p \in Acked : Cardinality(Holding(p)) >= WriteQuorum(lvl[p])

AnsweredInv ==
    \A g \in Gets : result[g] = "ok" => \A p \in AckedBefore(g) : latest[g].ts >= ts[p]

Healed(g, n) ==
    \/ store[n] = latest[g]
    \/ n = at[g] /\ store[n].st = "live" /\ store[n].ts > latest[g].ts

HealInv ==
    \A g \in Gets, n \in Nodes : phase[g] = "repair" /\ call[g][n] = "ok" => Healed(g, n)

\* What one request at a time gives by itself ...
WaitInv == TypeInv /\ StructInv /\ AloneInv /\ SentInv /\ ReadInv /\ StoredInv /\ HealInv

\* ... and what takes intersecting quorums too.
SerialInv == WaitInv /\ ListInv /\ ClockInv /\ SendInv /\ HoldInv /\ AnsweredInv

\* A request of a waiting client starts alone, and from then on nothing else
\* is in flight until all of it has come to rest.
LEMMA FlightStep ==
    ASSUME Serial, TypeInv, Next, NEW o \in Ops, InFlight(o)'
    PROVE  \/ InFlight(o)
           \/ phase[o] = "new" /\ \A q \in Ops : q # o => ~InFlight(q)'
<1> USE DEF TypeInv, TypeOK, InFlight, Active
<1>1. ASSUME NEW p \in Puts, NEW c, NEW l, NEW t, PutStart(p, c, l, t)
      PROVE  phase[o] = "new" /\ \A q \in Ops : q # o => ~InFlight(q)'
  <2>1. /\ p \in Ops /\ phase[p] = "new" /\ Quiet
        /\ phase' = [phase EXCEPT ![p] = "put"]
        /\ net' = net \cup {<<p, n>> : n \in (PreferenceList(c) \cap known[c]) \ {c}}
      BY <1>1 DEF PutStart, Begin, MayStart, Ops
  <2>2. \A q \in Ops : q # p => ~InFlight(q)'
      BY <2>1 DEF Quiet
  <2> QED
      BY <2>1, <2>2
<1>2. ASSUME NEW p \in Gets \cup Deletes, phase[p] = "new", Quiet, net' = net,
             NEW v, phase' = [phase EXCEPT ![p] = v]
      PROVE  phase[o] = "new" /\ \A q \in Ops : q # o => ~InFlight(q)'
  <2>1. \A q \in Ops : q # p => ~InFlight(q)'
      BY <1>2 DEF Quiet, Ops
  <2> QED
      BY <1>2, <2>1
<1>3. CASE Request
  <2>1. ASSUME NEW p \in Gets, NEW c, NEW l, GetStart(p, c, l)
        PROVE  phase[o] = "new" /\ \A q \in Ops : q # o => ~InFlight(q)'
      BY <1>2, <2>1 DEF GetStart, Begin, MayStart
  <2>2. ASSUME NEW p \in Deletes, NEW c, NEW t, HandleDelete(p, c, t)
        PROVE  phase[o] = "new" /\ \A q \in Ops : q # o => ~InFlight(q)'
      BY <1>2, <2>2 DEF HandleDelete, Begin, MayStart
  <2> QED
      BY <1>1, <1>3, <2>1, <2>2, Zenon DEF Request
<1>4. CASE \E q \in Ops : Step(q)
  <2>1. PICK q \in Ops : Step(q)
      BY <1>4
  <2>2. ASSUME NEW n \in Nodes, RepairSend(q, n) PROVE InFlight(o)
    <3>1. phase[q] = "repair" /\ phase' = phase /\ net' \subseteq net \cup {<<q, n>>}
        BY <2>2 DEF RepairSend, NextRepair
    <3> QED
        BY <3>1
  <2>3. ASSUME PutFinish(q) \/ GetFinish(q) \/ RepairFinish(q) PROVE InFlight(o)
    <3>1. net' = net /\ phase[q] \in {"put", "get", "repair"} /\ \A p \in Ops \ {q} : phase'[p] = phase[p]
        BY <2>3 DEF PutFinish, GetFinish, RepairFinish
    <3> QED
        BY <3>1
  <2> QED
      BY <2>1, <2>2, <2>3 DEF Step, LocalWrite, RepairCheck, RepairWrite, Timeout, ReadAt, ReadFails
<1>5. CASE \E q \in Ops, n \in Nodes : Deliver(q, n) \/ Lose(q, n)
    BY <1>5 DEF Deliver, Lose
<1>6. CASE \E c \in Nodes : Crash(c)
    BY <1>6 DEF Crash
<1>7. CASE Membership
    BY <1>7 DEF Membership, RegisterNode, UnregisterNode, NodeDead, NodeRevived, Change
<1> QED
    BY <1>3, <1>4, <1>5, <1>6, <1>7 DEF Next

LEMMA AloneStep ==
    ASSUME Serial, TypeInv, AloneInv, Next
    PROVE  AloneInv'
<1> SUFFICES ASSUME NEW o \in Ops, NEW q \in Ops, InFlight(o)', InFlight(q)' PROVE o = q
    BY DEF AloneInv
<1> QED
    BY FlightStep DEF AloneInv

\* Only a put or the repair of a get sends anything.
LEMMA NewMessages ==
    ASSUME TypeInv, Next, NEW o \in Ops, NEW n \in Nodes, <<o, n>> \in net'
    PROVE  <<o, n>> \in net \/ phase'[o] \in {"put", "repair"}
<1> USE DEF TypeInv, TypeOK
<1>1. CASE Request
  <2>1. ASSUME NEW p \in Puts, NEW c, NEW l, NEW t, PutStart(p, c, l, t)
        PROVE  <<o, n>> \in net \/ phase'[o] \in {"put", "repair"}
      BY <2>1 DEF PutStart, Ops
  <2>2. ASSUME ~\E p \in Puts, c \in Contacts, l \in Levels, t \in (now + 1 - Skew)..(now + 1 + Skew) :
                  PutStart(p, c, l, t)
        PROVE  net' = net
      BY <1>1, <2>2, Zenon DEF Request, GetStart, HandleDelete
  <2> QED
      BY <2>1, <2>2
<1>2. CASE \E q \in Ops : Step(q)
  <2>1. ASSUME NEW q \in Ops, NEW m \in Nodes, RepairSend(q, m)
        PROVE  <<o, n>> \in net \/ phase'[o] \in {"put", "repair"}
      BY <2>1 DEF RepairSend, NextRepair
  <2> QED
      BY <1>2, <2>1 DEF Step, LocalWrite, PutFinish, GetFinish, RepairFinish, RepairCheck,
                        RepairWrite, Timeout, ReadAt, ReadFails
<1>3. CASE \E q \in Ops, m \in Nodes : Deliver(q, m) \/ Lose(q, m)
    BY <1>3 DEF Deliver, Lose
<1>4. CASE \E c \in Nodes : Crash(c)
    BY <1>4 DEF Crash
<1>5. CASE Membership
    BY <1>5 DEF Membership, RegisterNode, UnregisterNode, NodeDead, NodeRevived, Change
<1> QED
    BY <1>1, <1>2, <1>3, <1>4, <1>5 DEF Next

\* A request that has started does not start again.
LEMMA StaysStarted ==
    ASSUME TypeInv, Next, NEW o \in Puts \cup Gets, phase[o] # "new"
    PROVE  phase'[o] # "new"
<1>1. CASE o \in Puts
    BY <1>1, PutEffectLemma DEF PutEffect, Same, Starts, CallReturns, CutOff
<1>2. CASE o \in Gets
    BY <1>2, GetEffectLemma DEF GetEffect, Same, Starts, ReadReturns, CallReturns, Answers
<1> QED
    BY <1>1, <1>2

LEMMA SentStep ==
    ASSUME TypeInv, SentInv, Next
    PROVE  SentInv'
<1> SUFFICES ASSUME NEW o \in Ops, NEW n \in Nodes, <<o, n>> \in net' PROVE phase'[o] # "new"
    BY DEF SentInv
<1>1. CASE <<o, n>> \in net
  <2>1. phase[o] # "new" /\ o \in Puts \cup Gets
      BY <1>1 DEF SentInv, TypeInv, NetInv
  <2> QED
      BY <2>1, StaysStarted
<1>2. CASE phase'[o] \in {"put", "repair"}
    BY <1>2
<1> QED
    BY <1>1, <1>2, NewMessages

\* The steps that change a replica: a request that sends, or a delete.
LEMMA StoreSource ==
    ASSUME TypeInv, Next
    PROVE  \/ store' = store
           \/ \E o \in Ops, n \in Nodes : Sends(o) /\ store' = [store EXCEPT ![n] = Payload(o)]
           \/ /\ Serial => Quiet
              /\ \E n \in Nodes, e \in Tombstones :
                    /\ e.ts >= now + 1 - Skew
                    /\ store' = [store EXCEPT ![n] = e]
<1> DEFINE Writes == \E o \in Ops, n \in Nodes : Sends(o) /\ store' = [store EXCEPT ![n] = Payload(o)]
           Marks == /\ Serial => Quiet
                    /\ \E n \in Nodes, e \in Tombstones :
                          /\ e.ts >= now + 1 - Skew
                          /\ store' = [store EXCEPT ![n] = e]
<1> USE DEF TypeInv, TypeOK
<1>1. CASE Request
  <2>1. ASSUME NEW d \in Deletes, NEW c \in Contacts,
               NEW t \in (now + 1 - Skew)..(now + 1 + Skew), HandleDelete(d, c, t)
        PROVE  Marks
    <3> DEFINE e == [st |-> "dead", ts |-> t, by |-> d]
    <3>1. t \in Int /\ t >= now + 1 - Skew /\ c \in Nodes
        BY CoordinatorConstants
    <3>2. e \in Tombstones /\ e.ts >= now + 1 - Skew
        BY <3>1 DEF Tombstones
    <3>3. store' = [store EXCEPT ![c] = e] /\ (Serial => Quiet)
        BY <2>1 DEF HandleDelete, Store, Begin, MayStart
    <3> HIDE DEF e
    <3> QED
        BY <3>1, <3>2, <3>3
  <2> QED
      BY <1>1, <2>1 DEF Request, PutStart, GetStart
<1>2. ASSUME NEW o \in Ops, LocalWrite(o) PROVE store' = store \/ Writes
  <2>1. at[o] \in Nodes /\ o \in Puts /\ Sends(o)
      BY <1>2 DEF LocalWrite, PhaseInv, Ops, Sends
  <2>2. Payload(o) = Entry(o)
      BY <2>1 DEF Payload
  <2> QED
      BY <1>2, <2>1, <2>2 DEF LocalWrite, Store
<1>3. ASSUME NEW o \in Ops, RepairWrite(o) PROVE Writes
  <2>1. at[o] \in Nodes /\ o \notin Puts /\ Sends(o)
      BY <1>3 DEF RepairWrite, PhaseInv, Sends
  <2>2. Payload(o) = latest[o]
      BY <2>1 DEF Payload
  <2> QED
      BY <1>3, <2>1, <2>2 DEF RepairWrite, Store
<1>4. ASSUME NEW o \in Ops, NEW n \in Nodes, Deliver(o, n) PROVE Writes
    BY <1>4 DEF Deliver, Store, Sends
<1>5. CASE \E q \in Ops : Step(q)
    BY <1>2, <1>3, <1>5 DEF Step, PutFinish, GetFinish, RepairCheck, RepairFinish,
                            Timeout, ReadAt, ReadFails, RepairSend
<1>6. CASE \E c \in Nodes : Crash(c)
    BY <1>6 DEF Crash
<1>7. CASE Membership
    BY <1>7 DEF Membership, RegisterNode, UnregisterNode, NodeDead, NodeRevived, Change
<1> QED
    BY <1>1, <1>4, <1>5, <1>6, <1>7 DEF Next, Lose

\* While a request is in flight, only it changes replicas.
LEMMA OnlyWriter ==
    ASSUME Serial, TypeInv, AloneInv, Next, NEW o \in Ops, InFlight(o)
    PROVE  \/ store' = store
           \/ Sends(o) /\ \E n \in Nodes : store' = [store EXCEPT ![n] = Payload(o)]
<1>1. ~Quiet
    BY DEF InFlight, Quiet
<1>2. ASSUME NEW q \in Ops, Sends(q) PROVE q = o
    BY <1>2 DEF Sends, InFlight, Active, AloneInv
<1> QED
    BY <1>1, <1>2, StoreSource

LEMMA ReadStep ==
    ASSUME Serial, TypeInv, AloneInv, ReadInv, Next
    PROVE  ReadInv'
<1> SUFFICES ASSUME NEW g \in Gets, NEW n \in Nodes, phase'[g] = "get", call'[g][n] = "ok"
             PROVE  resp'[g][n] = store'[n]
    BY DEF ReadInv
<1>0. g \in Ops /\ GetEffect(g)
    BY GetEffectLemma DEF Ops
<1>1. phase[g] = "get"
    BY <1>0 DEF GetEffect, Same, Starts, ReadReturns, CallReturns, Answers
<1>2. store' = store
  <2>1. InFlight(g)
      BY <1>1 DEF InFlight, Active
  <2>2. ~Sends(g)
      BY <1>0, <1>1 DEF Sends, TypeInv, NetInv
  <2> QED
      BY <1>0, <2>1, <2>2, OnlyWriter
<1>3. call[g] \in [Nodes -> CallState] /\ resp[g] \in [Nodes -> LiveEntry \cup {NoEntry}]
    BY <1>0 DEF TypeInv, TypeOK
<1> QED
    BY <1>0, <1>1, <1>2, <1>3
    DEF ReadInv, GetEffect, Same, Starts, ReadReturns, CallReturns, Answers

LEMMA StoredStep ==
    ASSUME Serial, TypeInv, AloneInv, StoredInv, Next
    PROVE  StoredInv'
<1> SUFFICES ASSUME NEW p \in Puts, NEW n \in Nodes, phase'[p] = "put", call'[p][n] = "ok"
             PROVE  store'[n].ts >= ts'[p]
    BY DEF StoredInv
<1>0. p \in Ops /\ PutEffect(p)
    BY PutEffectLemma DEF Ops
<1>1. phase[p] = "put" /\ call[p] \in [Nodes -> CallState]
    BY <1>0 DEF PutEffect, Same, Starts, CallReturns, CutOff, TypeInv, TypeOK
<1>2. ts'[p] = ts[p] /\ ts[p] \in Int /\ Entry(p).ts = ts[p] /\ Payload(p) = Entry(p)
    BY <1>0, <1>1, KeepsLemma DEF Keeps, TypeInv, TypeOK, Entry, Payload
<1>3. call[p][n] = "ok" \/ store'[n] = Entry(p)
    BY <1>0, <1>1 DEF PutEffect, Same, Starts, CallReturns, CutOff
<1>4. store'[n] = store[n] \/ store'[n] = Entry(p)
  <2>1. InFlight(p)
      BY <1>1 DEF InFlight, Active
  <2>2. store' = store \/ \E m \in Nodes : store' = [store EXCEPT ![m] = Entry(p)]
      BY <1>0, <1>2, <2>1, OnlyWriter
  <2> QED
      BY <2>2 DEF TypeInv, TypeOK
<1> QED
    BY <1>1, <1>2, <1>3, <1>4 DEF StoredInv

\* How a call of a repair gets to be "ok": the entry is stored on the replica,
\* or the coordinator finds its own copy to be good enough.
LEMMA RepairCalls ==
    ASSUME TypeInv, Next, NEW g \in Gets, NEW n \in Nodes, phase'[g] = "repair", call'[g][n] = "ok"
    PROVE  /\ phase[g] = "repair"
           /\ \/ call[g][n] = "ok"
              \/ store'[n] = latest[g]
              \/ n = at[g] /\ store' = store /\ ~Stale(store[n], latest[g])
<1> DEFINE Goal == /\ phase[g] = "repair"
                   /\ \/ call[g][n] = "ok"
                      \/ store'[n] = latest[g]
                      \/ n = at[g] /\ store' = store /\ ~Stale(store[n], latest[g])
<1> USE DEF TypeInv, TypeOK
<1>0. g \in Ops /\ g \notin Puts /\ g \notin Deletes
    BY CoordinatorConstants DEF Ops
<1>1. ASSUME phase'[g] = phase[g], call'[g] = call[g] PROVE Goal
    BY <1>1
<1>2. CASE Request
  <2>1. ASSUME NEW p \in Puts, NEW c, NEW l, NEW t, PutStart(p, c, l, t) PROVE Goal
      BY <1>0, <1>1, <2>1 DEF PutStart, Ops
  <2>2. ASSUME NEW p \in Gets, NEW c, NEW l, GetStart(p, c, l) PROVE Goal
      BY <1>0, <1>1, <2>2 DEF GetStart, Ops
  <2>3. ASSUME NEW p \in Deletes, NEW c, NEW t, HandleDelete(p, c, t) PROVE Goal
      BY <1>0, <1>1, <2>3 DEF HandleDelete, Ops
  <2> QED
      BY <1>2, <2>1, <2>2, <2>3, Zenon DEF Request
<1>3. ASSUME NEW q \in Ops, q # g, Step(q) PROVE Goal
  <2>1. at[q] \in Nodes
      OBVIOUS
  <2>2. phase'[g] = phase[g] /\ call'[g] = call[g]
      BY <1>0, <1>3, <2>1 DEF Step, LocalWrite, PutFinish, GetFinish, RepairCheck, RepairWrite,
                        RepairFinish, Timeout, ReadAt, ReadFails, RepairSend
  <2> QED
      BY <1>1, <2>2
<1>4. CASE Step(g)
  <2>1. CASE RepairCheck(g)
    <3>1. /\ phase[g] = "repair" /\ store' = store /\ at[g] \in Nodes
          /\ call' = [call EXCEPT ![g][at[g]] = IF Stale(store[at[g]], latest[g]) THEN "write" ELSE "ok"]
        BY <1>0, <2>1 DEF RepairCheck, NextRepair
    <3>2. CASE n = at[g]
        BY <1>0, <3>1, <3>2
    <3>3. CASE n # at[g]
        BY <1>0, <3>1, <3>3
    <3> QED
        BY <3>2, <3>3
  <2>2. CASE RepairWrite(g)
    <3>1. /\ phase[g] = "repair" /\ store' = [store EXCEPT ![at[g]] = latest[g]] /\ at[g] \in Nodes
          /\ call' = [call EXCEPT ![g][at[g]] = "ok"]
        BY <1>0, <2>2 DEF RepairWrite, Store
    <3>2. CASE n = at[g]
        BY <1>0, <3>1, <3>2
    <3>3. CASE n # at[g]
        BY <1>0, <3>1, <3>3
    <3> QED
        BY <3>2, <3>3
  <2>3. ASSUME NEW m \in Nodes, RepairSend(g, m) PROVE Goal
    <3>1. PICK v \in {"sent", "fail"} : call' = [call EXCEPT ![g][m] = v]
        BY <2>3 DEF RepairSend
    <3>2. call[g][n] = "ok"
        BY <1>0, <3>1
    <3> QED
        BY <2>3, <3>2 DEF RepairSend, NextRepair
  <2>4. ASSUME NEW m \in Nodes, Timeout(g, m) PROVE Goal
    <3>1. call[g][n] = "ok" /\ phase'[g] = phase[g]
        BY <1>0, <2>4 DEF Timeout
    <3> QED
        BY <3>1
  <2>5. CASE GetFinish(g)
    <3>1. phase' = [phase EXCEPT ![g] = "repair"]
        BY <1>0, <2>5 DEF GetFinish
    <3>2. call' = [call EXCEPT ![g] = [k \in Nodes |-> IF k \in pref[g] THEN "todo" ELSE "idle"]]
        BY <1>0, <2>5, <3>1 DEF GetFinish
    <3> QED
        BY <1>0, <3>2
  <2>6. CASE RepairFinish(g) \/ PutFinish(g)
      BY <1>0, <2>6 DEF RepairFinish, PutFinish
  <2>7. CASE LocalWrite(g) \/ \E m \in Nodes : ReadAt(g, m) \/ ReadFails(g, m)
      BY <1>0, <2>7 DEF LocalWrite, ReadAt, ReadFails, PhaseInv
  <2> QED
      BY <1>4, <2>1, <2>2, <2>3, <2>4, <2>5, <2>6, <2>7 DEF Step
<1>5. ASSUME NEW q \in Ops, NEW m \in Nodes, Deliver(q, m) PROVE Goal
  <2>1. CASE q = g /\ m = n
    <3>1. store'[n] = latest[g] /\ phase'[g] = phase[g]
        BY <1>0, <1>5, <2>1 DEF Deliver, Store, Payload
    <3> QED
        BY <3>1
  <2>2. CASE ~(q = g /\ m = n)
    <3>1. call'[g][n] = call[g][n] /\ phase'[g] = phase[g]
        BY <1>0, <1>5, <2>2 DEF Deliver
    <3> QED
        BY <3>1
  <2> QED
      BY <2>1, <2>2
<1>6. ASSUME NEW q \in Ops, NEW m \in Nodes, Lose(q, m) PROVE Goal
    BY <1>1, <1>6 DEF Lose
<1>7. ASSUME NEW c \in Nodes, Crash(c) PROVE Goal
  <2>1. CASE at[g] = c /\ Active(g)
      BY <1>0, <1>7, <2>1 DEF Crash
  <2>2. CASE ~(at[g] = c /\ Active(g))
      BY <1>0, <1>1, <1>7, <2>2 DEF Crash
  <2> QED
      BY <2>1, <2>2
<1>8. CASE Membership
    BY <1>1, <1>8 DEF Membership, RegisterNode, UnregisterNode, NodeDead, NodeRevived, Change
<1>9. CASE \E q \in Ops : Step(q)
    BY <1>3, <1>4, <1>9, Zenon
<1> QED
    BY <1>2, <1>5, <1>6, <1>7, <1>8, <1>9, Zenon DEF Next

\* The copy a coordinator leaves as it is, is the entry or a newer one.
LEMMA NotStale ==
    ASSUME NEW e \in LiveEntry \cup Tombstones \cup {NoEntry}, NEW new \in LiveEntry, ~Stale(e, new)
    PROVE  e = new \/ (e.st = "live" /\ e.ts > new.ts)
<1>1. e.st = "live" /\ ~(e.ts < new.ts) /\ ~(e.ts = new.ts /\ e.by # new.by)
    BY DEF Stale
<1>2. e \in LiveEntry
    BY <1>1 DEF Tombstones, NoEntry
<1>3. e.ts \in Int /\ new.ts \in Int
    BY <1>2 DEF LiveEntry
<1>4. CASE e.ts = new.ts
  <2>1. e.by = new.by
      BY <1>1, <1>4
  <2> QED
      BY <1>2, <1>4, <2>1 DEF LiveEntry
<1>5. CASE e.ts # new.ts
    BY <1>1, <1>3, <1>5
<1> QED
    BY <1>4, <1>5

LEMMA HealStep ==
    ASSUME Serial, TypeInv, AloneInv, HealInv, Next
    PROVE  HealInv'
<1> SUFFICES ASSUME NEW g \in Gets, NEW n \in Nodes, phase'[g] = "repair", call'[g][n] = "ok"
             PROVE  Healed(g, n)'
    BY DEF HealInv
<1>0. g \in Ops /\ g \notin Puts /\ phase[g] = "repair" /\ GetEffect(g)
    BY CoordinatorConstants, RepairCalls, GetEffectLemma DEF Ops
<1>1. at'[g] = at[g] /\ latest'[g] = latest[g] /\ latest[g] \in LiveEntry /\ Payload(g) = latest[g]
  <2>1. at'[g] = at[g]
      BY <1>0, KeepsLemma DEF Keeps
  <2>2. latest'[g] = latest[g]
      BY <1>0 DEF GetEffect, Same, Starts, ReadReturns, CallReturns, Answers
  <2> QED
      BY <1>0, <2>1, <2>2 DEF TypeInv, AnswerInv, Payload
<1>2. store'[n] = store[n] \/ store'[n] = latest[g]
  <2>1. InFlight(g)
      BY <1>0 DEF InFlight, Active
  <2>2. store' = store \/ \E m \in Nodes : store' = [store EXCEPT ![m] = latest[g]]
      BY <1>0, <1>1, <2>1, OnlyWriter
  <2> QED
      BY <2>2 DEF TypeInv, TypeOK
<1>3. CASE call[g][n] = "ok"
    BY <1>0, <1>1, <1>2, <1>3 DEF HealInv, Healed
<1>4. CASE store'[n] = latest[g]
    BY <1>1, <1>4 DEF Healed
<1>5. CASE n = at[g] /\ store' = store /\ ~Stale(store[n], latest[g])
  <2>1. store[n] \in LiveEntry \cup Tombstones \cup {NoEntry}
      BY DEF TypeInv, TypeOK
  <2>2. store[n] = latest[g] \/ (store[n].st = "live" /\ store[n].ts > latest[g].ts)
      BY <1>1, <1>5, <2>1, NotStale
  <2> QED
      BY <1>1, <1>5, <2>2 DEF Healed
<1> QED
    BY <1>3, <1>4, <1>5, RepairCalls

LEMMA InitWait == Init => WaitInv
<1> SUFFICES ASSUME Init PROVE WaitInv
    OBVIOUS
<1>1. TypeInv /\ StructInv
    BY InitTypeInv, InitFresh DEF FreshInv
<1>2. \A o \in Ops : phase[o] = "new" /\ ~InFlight(o)
    BY DEF Init, InFlight, Active
<1>3. AloneInv /\ SentInv
    BY <1>2 DEF AloneInv, SentInv, InFlight
<1>4. ReadInv /\ StoredInv /\ HealInv
    BY <1>2 DEF ReadInv, StoredInv, HealInv, Ops
<1> QED
    BY <1>1, <1>3, <1>4 DEF WaitInv

LEMMA NextWait ==
    ASSUME Serial, WaitInv, [Next]_vars
    PROVE  WaitInv'
<1> USE DEF WaitInv
<1>0. TypeInv'
    BY NextTypeInv
<1>1. CASE Next
    BY <1>0, <1>1, StructStep, AloneStep, SentStep, ReadStep, StoredStep, HealStep
<1>2. CASE UNCHANGED vars
    BY <1>0, <1>2 DEF vars, StructInv, OverInv, BeforeInv, AnswerLate, CallsInv, AloneInv, InFlight, Active,
                SentInv, ReadInv, StoredInv, HealInv, Healed
<1> QED
    BY <1>1, <1>2


-----------------------------------------------------------------------------
(***************************************************************************)
(* One list of replicas.                                                   *)
(***************************************************************************)

\* HashRing.GetNodes returns at most N nodes: nodes have different positions in
\* the order of the ring, and those that are returned have one below N.
LEMMA FirstOfSize ==
    ASSUME NEW M \in SUBSET Nodes
    PROVE  FirstOf(M) \subseteq Nodes /\ Cardinality(FirstOf(M)) <= N
<1> DEFINE Below(n) == {m \in M : Rank[m] < Rank[n]}
           pos == [n \in FirstOf(M) |-> Cardinality(Below(n))]
<1>0. /\ N \in Nat /\ Rank \in [Nodes -> Int]
      /\ \A m, n \in Nodes : Rank[m] = Rank[n] => m = n
    BY CoordinatorConstants
<1>1. FirstOf(M) \subseteq M /\ IsFiniteSet(M)
    BY CoordinatorConstants, FS_Subset DEF FirstOf
<1>2. \A n \in M : Below(n) \subseteq M /\ IsFiniteSet(Below(n)) /\ Cardinality(Below(n)) \in Nat
  <2> TAKE n \in M
  <2>1. Below(n) \subseteq M
      OBVIOUS
  <2>2. IsFiniteSet(Below(n))
      BY <1>1, <2>1, FS_Subset
  <2> QED
      BY <2>1, <2>2, FS_CardinalityType
<1>3. \A n \in FirstOf(M) : pos[n] \in 0..(N - 1)
  <2> TAKE n \in FirstOf(M)
  <2>1. Cardinality(Below(n)) < N /\ n \in M
      BY DEF FirstOf
  <2>2. Cardinality(Below(n)) \in Nat /\ pos[n] = Cardinality(Below(n))
      BY <1>2, <2>1
  <2> HIDE DEF pos
  <2> QED
      BY <1>0, <2>1, <2>2
<1>4. ASSUME NEW m \in FirstOf(M), NEW n \in FirstOf(M), Rank[m] < Rank[n] PROVE pos[m] # pos[n]
  <2>1. m \in M /\ n \in M /\ Rank[m] \in Int /\ Rank[n] \in Int
      BY <1>0, <1>1
  <2>2. Below(m) \subseteq Below(n) /\ m \in Below(n) /\ m \notin Below(m)
    <3>1. m \in Below(n) /\ m \notin Below(m)
        BY <1>4, <2>1
    <3>2. ASSUME NEW k \in Below(m) PROVE k \in Below(n)
      <4>1. k \in M /\ Rank[k] \in Int /\ Rank[k] < Rank[m]
          BY <1>0, <3>2
      <4> QED
          BY <1>4, <2>1, <4>1
    <3> QED
        BY <3>1, <3>2
  <2>3. Cardinality(Below(m)) # Cardinality(Below(n))
      BY <1>2, <2>1, <2>2, FS_Subset
  <2> QED
      BY <2>3
<1>5. \A m, n \in FirstOf(M) : pos[m] = pos[n] => m = n
  <2> SUFFICES ASSUME NEW m \in FirstOf(M), NEW n \in FirstOf(M), pos[m] = pos[n] PROVE m = n
      OBVIOUS
  <2>1. m \in Nodes /\ n \in Nodes
      BY <1>1
  <2>2. ~(Rank[m] < Rank[n]) /\ ~(Rank[n] < Rank[m])
      BY <1>4
  <2>3. Rank[m] \in Int /\ Rank[n] \in Int
      BY <1>0, <2>1
  <2>4. Rank[m] = Rank[n]
      BY <2>2, <2>3
  <2> QED
      BY <1>0, <2>1, <2>4
<1>6. pos \in Injection(FirstOf(M), 0..(N - 1))
  <2>1. pos \in [FirstOf(M) -> 0..(N - 1)]
      BY <1>3
  <2> HIDE DEF pos
  <2> QED
      BY <1>5, <2>1 DEF Injection, IsInjective
<1>7. IsFiniteSet(0..(N - 1)) /\ Cardinality(0..(N - 1)) = N
  <2>1. 0 \in Int /\ N - 1 \in Int
      BY <1>0
  <2>2. IsFiniteSet(0..(N - 1)) /\ Cardinality(0..(N - 1)) = IF 0 > N - 1 THEN 0 ELSE N - 1 - 0 + 1
      BY <2>1, FS_Interval
  <2> QED
      BY <1>0, <2>2
<1> HIDE DEF pos
<1> QED
    BY <1>1, <1>6, <1>7, FS_Injection

LEMMA ReplicasSize == Replicas \subseteq Nodes /\ Cardinality(Replicas) <= N
<1>1. CASE Cardinality(Nodes) <= N
    BY <1>1 DEF Replicas
<1>2. CASE ~(Cardinality(Nodes) <= N)
  <2>1. Members \in SUBSET Nodes
      BY CoordinatorConstants DEF Members
  <2> QED
      BY <1>2, <2>1, FirstOfSize DEF Replicas
<1> QED
    BY <1>1, <1>2

\* Every preference list is made of the replicas.
LEMMA OneListUsed ==
    ASSUME SerialClients, TypeInv, ListInv, NEW c \in Contacts
    PROVE  PreferenceList(c) \subseteq Replicas
<1>0. c \in Nodes
    BY CoordinatorConstants
<1>1. CASE Cardinality(Nodes) <= N
    BY <1>0, <1>1, PreferenceListType DEF Replicas, TypeInv
<1>2. CASE ~(Cardinality(Nodes) <= N)
  <2>1. MaxChanges = 0 /\ \A d \in Contacts : Peers[c] \cup {c} = Peers[d] \cup {d}
      BY <1>2 DEF SerialClients, OneList
  <2>2. ring[c] = Peers[c] \cup {c}
      BY <1>0, <2>1 DEF ListInv
  <2>3. Members = Peers[c] \cup {c}
      BY <2>1 DEF Members
  <2> QED
      BY <1>2, <2>2, <2>3 DEF Replicas, PreferenceList, FirstOf
<1> QED
    BY <1>1, <1>2

LEMMA ListStep ==
    ASSUME SerialClients, TypeInv, ListInv, Next
    PROVE  ListInv'
<1> USE DEF TypeInv, TypeOK
<1>1. ASSUME NEW o \in Ops, NEW c \in Contacts, NEW l, NEW list,
             list \subseteq PreferenceList(c), Begin(o, c, l, list),
             UNCHANGED <<ring, changes>>, o \in Puts \cup Gets => l \in Levels,
             \A q \in Ops : q # o => phase'[q] = phase[q]
      PROVE  ListInv'
  <2>1. /\ pref' = [pref EXCEPT ![o] = list] /\ lvl' = [lvl EXCEPT ![o] = l]
        /\ list \subseteq Replicas
      BY <1>1, OneListUsed DEF Begin
  <2>2. \A q \in Ops : pref'[q] \subseteq Replicas
      BY <2>1 DEF ListInv
  <2>3. \A q \in Puts \cup Gets : phase'[q] # "new" => lvl'[q] \in Levels
      BY <1>1, <2>1 DEF ListInv, Ops
  <2> QED
      BY <1>1, <2>2, <2>3 DEF ListInv
<1>2. CASE Request
  <2>1. ASSUME NEW p \in Puts, NEW c \in Contacts, NEW l \in Levels, NEW t, PutStart(p, c, l, t)
        PROVE  ListInv'
      BY <1>1, <2>1 DEF PutStart, cluster, Ops
  <2>2. ASSUME NEW p \in Gets, NEW c \in Contacts, NEW l \in Levels, GetStart(p, c, l)
        PROVE  ListInv'
      BY <1>1, <2>2 DEF GetStart, cluster, Ops
  <2>3. ASSUME NEW p \in Deletes, NEW c \in Contacts, NEW t, HandleDelete(p, c, t)
        PROVE  ListInv'
    <3>1. p \in Ops /\ p \notin Puts \cup Gets /\ {} \subseteq PreferenceList(c)
        BY CoordinatorConstants DEF Ops
    <3> QED
        BY <1>1, <2>3, <3>1 DEF HandleDelete, cluster
  <2> QED
      BY <1>2, <2>1, <2>2, <2>3, Zenon DEF Request
<1>3. ASSUME UNCHANGED <<pref, lvl>>, UNCHANGED <<ring, changes>> \/ MaxChanges # 0,
             \A q \in Ops : phase'[q] # "new" => phase[q] # "new"
      PROVE  ListInv'
    BY <1>3 DEF ListInv, Ops
<1>4. CASE \E q \in Ops : Step(q)
  <2>1. PICK q \in Ops : Step(q)
      BY <1>4
  <2>2. UNCHANGED <<pref, lvl, ring, changes>>
      BY <2>1 DEF Step, LocalWrite, PutFinish, GetFinish, RepairCheck, RepairWrite,
                  RepairFinish, Timeout, ReadAt, ReadFails, RepairSend, cluster, request
  <2>3. phase[q] # "new" /\ \A p \in Ops : p # q => phase'[p] = phase[p]
      BY <2>1 DEF Step, LocalWrite, PutFinish, GetFinish, RepairCheck, RepairWrite, NextRepair,
                  RepairFinish, Timeout, ReadAt, ReadFails, RepairSend
  <2> QED
      BY <1>3, <2>2, <2>3
<1>5. CASE \E q \in Ops, n \in Nodes : Deliver(q, n) \/ Lose(q, n)
    BY <1>3, <1>5 DEF Deliver, Lose, cluster, request
<1>6. CASE \E c \in Nodes : Crash(c)
    BY <1>3, <1>6 DEF Crash, cluster, request, Active
<1>7. CASE Membership
  <2>1. changes < MaxChanges /\ UNCHANGED <<pref, lvl, phase>>
      BY <1>7 DEF Membership, RegisterNode, UnregisterNode, NodeDead, NodeRevived, Change, request
  <2>2. MaxChanges # 0
      BY <2>1
  <2> QED
      BY <1>3, <2>1, <2>2
<1> QED
    BY <1>2, <1>4, <1>5, <1>6, <1>7 DEF Next

\* With one clock, a write is newer than everything before it.
LEMMA ClockStep ==
    ASSUME Skew = 0, TypeInv, ClockInv, Next
    PROVE  /\ ClockInv'
           /\ \A o \in Puts : phase[o] = "new" /\ phase'[o] # "new" => ts'[o] = now + 1
<1> DEFINE Goal == /\ ClockInv'
                   /\ \A o \in Puts : phase[o] = "new" /\ phase'[o] # "new" => ts'[o] = now + 1
<1> USE DEF TypeInv, TypeOK
<1>1. ASSUME NEW p \in Puts, NEW c, NEW l, NEW t, PutStart(p, c, l, t) PROVE Goal
  <2>1. /\ now' = now + 1 /\ ts' = [ts EXCEPT ![p] = t] /\ t = now + 1 /\ p \in Ops
        /\ phase' = [phase EXCEPT ![p] = "put"]
      BY <1>1 DEF PutStart, Tick, Ops
  <2> QED
      BY <2>1 DEF ClockInv, Ops
<1>2. ASSUME NEW p \in Deletes, NEW c, NEW t, HandleDelete(p, c, t) PROVE Goal
  <2>1. /\ now' = now + 1 /\ ts' = [ts EXCEPT ![p] = t] /\ t = now + 1 /\ p \in Ops /\ p \notin Puts
        /\ phase' = [phase EXCEPT ![p] = "done"]
      BY <1>2, CoordinatorConstants DEF HandleDelete, Tick, Ops
  <2> QED
      BY <2>1 DEF ClockInv, Ops
<1>3. ASSUME NEW p \in Gets, NEW c, NEW l, GetStart(p, c, l) PROVE Goal
  <2>1. now' = now /\ ts' = ts /\ p \in Ops /\ p \notin Puts /\ phase' = [phase EXCEPT ![p] = "get"]
      BY <1>3, CoordinatorConstants DEF GetStart, Ops
  <2> QED
      BY <2>1 DEF ClockInv, Ops
<1>4. CASE Request
    BY <1>1, <1>2, <1>3, <1>4, Zenon DEF Request
<1>5. ASSUME now' = now, ts' = ts, \A q \in Ops : phase'[q] # "new" => phase[q] # "new"
      PROVE  Goal
    BY <1>5 DEF ClockInv, Ops
<1>6. CASE \E q \in Ops : Step(q)
  <2>1. PICK q \in Ops : Step(q)
      BY <1>6
  <2>2. now' = now /\ ts' = ts
      BY <2>1 DEF Step, LocalWrite, PutFinish, GetFinish, RepairCheck, RepairWrite,
                  RepairFinish, Timeout, ReadAt, ReadFails, RepairSend, request
  <2>3. phase[q] # "new" /\ \A p \in Ops : p # q => phase'[p] = phase[p]
      BY <2>1 DEF Step, LocalWrite, PutFinish, GetFinish, RepairCheck, RepairWrite, NextRepair,
                  RepairFinish, Timeout, ReadAt, ReadFails, RepairSend
  <2> QED
      BY <1>5, <2>2, <2>3
<1>7. CASE \E q \in Ops, n \in Nodes : Deliver(q, n) \/ Lose(q, n)
    BY <1>5, <1>7 DEF Deliver, Lose, request
<1>8. CASE \E c \in Nodes : Crash(c)
    BY <1>5, <1>8 DEF Crash, request, Active
<1>9. CASE Membership
    BY <1>5, <1>9 DEF Membership, RegisterNode, UnregisterNode, NodeDead, NodeRevived, Change, request
<1> QED
    BY <1>4, <1>6, <1>7, <1>8, <1>9, Zenon DEF Next


-----------------------------------------------------------------------------
(***************************************************************************)
(* Nothing older than an acknowledged put is sent.                         *)
(***************************************************************************)

\* A put that is acknowledged is over, and stays so; a put becomes
\* acknowledged when its quorum has stored it.
LEMMA AckedStep ==
    ASSUME TypeInv, StructInv, Next, NEW p \in Acked'
    PROVE  /\ p \in Puts /\ p \in Ops /\ Keeps(p) /\ ts[p] \in Int
           /\ \/ p \in Acked /\ phase[p] = "done"
              \/ /\ phase[p] = "put" /\ phase'[p] = "done" /\ store' = store
                 /\ Cardinality(OkNodes(p)) >= WriteQuorum(lvl[p])
<1>0. p \in Puts /\ p \in Ops /\ result'[p] = "ok" /\ PutEffect(p)
    BY PutEffectLemma DEF Acked, Ops
<1>1. ts[p] \in Int
    BY <1>0 DEF TypeInv, TypeOK
<1>2. \/ p \in Acked /\ phase[p] = "done"
      \/ /\ phase[p] = "put" /\ phase'[p] = "done" /\ store' = store
         /\ Cardinality(OkNodes(p)) >= WriteQuorum(lvl[p])
  <2>1. CASE result[p] = "ok"
      BY <1>0, <2>1 DEF Acked, StructInv, OverInv
  <2>2. CASE result[p] # "ok"
      BY <1>0, <2>2 DEF PutEffect, Same, Starts, CallReturns, CutOff
  <2> QED
      BY <2>1, <2>2
<1>3. Keeps(p)
    BY <1>0, <1>2, KeepsLemma
<1> QED
    BY <1>0, <1>1, <1>2, <1>3

\* The answer of a get is no older than any put acknowledged so far: those who
\* hold the put and those who answered share a replica, and what it answered is
\* what it holds.
LEMMA AnswerNotOlder ==
    ASSUME SerialClients, SerialInv, NEW g \in Gets, Answers(g), NEW p \in Acked
    PROVE  latest'[g].ts >= ts[p]
<1> USE DEF SerialInv, WaitInv
<1>0. /\ g \in Ops /\ p \in Puts /\ p \in Ops /\ phase[g] = "get" /\ phase[p] # "new"
      /\ ts[p] \in Int
    BY DEF Ops, Acked, Answers, StructInv, OverInv, TypeInv, TypeOK
<1>1. lvl[p] \in Levels /\ lvl[g] \in Levels
    BY <1>0 DEF ListInv
<1>2. WriteQuorum(lvl[p]) \in Nat /\ ReadQuorum(lvl[g]) \in Nat
    BY <1>1, QuorumType, CoordinatorConstants
<1>3. ReadQuorum(lvl[g]) + WriteQuorum(lvl[p]) > N
  <2>1. WriteQuorum(lvl[p]) + ReadQuorum(lvl[g]) > N
      BY <1>1 DEF SerialClients, QuorumsIntersect
  <2> QED
      BY <1>2, <2>1, CoordinatorConstants
<1>4. OkNodes(g) \subseteq Replicas
    BY <1>0 DEF OkNodes, StructInv, CallsInv, ListInv
<1>5. Holding(p) \subseteq Replicas /\ Cardinality(Holding(p)) >= WriteQuorum(lvl[p])
    BY DEF Holding, HoldInv
<1>6. OkNodes(g) \cap Holding(p) # {}
    BY <1>2, <1>3, <1>4, <1>5, ReplicasSize, QuorumsMeet DEF Answers
<1>7. PICK n \in Nodes : n \in OkNodes(g) /\ resp[g][n].ts >= ts[p]
    BY <1>0, <1>6 DEF OkNodes, Holding, ReadInv
<1>8. PICK m \in OkNodes(g) : latest'[g] = resp[g][m] /\ resp[g][m].ts >= resp[g][n].ts
    BY <1>7 DEF Answers, LatestResponses
<1>9. resp[g][m].ts \in Int /\ resp[g][n].ts \in Int
  <2>1. resp[g][m] \in LiveEntry /\ resp[g][n] \in LiveEntry
      BY <1>0, <1>7, <1>8 DEF OkNodes, TypeInv, AnswerInv
  <2> QED
      BY <2>1 DEF LiveEntry
<1> QED
    BY <1>0, <1>7, <1>8, <1>9

\* A request starts to send when a put begins or a get has its answer.
LEMMA NewSender ==
    ASSUME TypeInv, Next, NEW o \in Ops, Sends(o)', ~Sends(o)
    PROVE  \/ o \in Puts /\ phase[o] = "new" /\ phase'[o] # "new"
           \/ o \in Gets /\ Answers(o)
<1>1. phase'[o] \in {"put", "repair"}
    BY NewMessages DEF Sends
<1>2. phase[o] \notin {"put", "repair"}
    BY DEF Sends
<1>3. CASE o \in Puts
    BY <1>1, <1>2, <1>3, PutEffectLemma DEF PutEffect, Same, Starts, CallReturns, CutOff
<1>4. CASE o \in Gets
  <2>1. GetEffect(o) /\ phase'[o] = "repair" /\ phase[o] \in {"new", "get", "done"}
      BY <1>1, <1>2, <1>4, GetEffectLemma, NextTypeInv DEF TypeInv, PhaseInv
  <2>2. Answers(o)
      BY <2>1 DEF GetEffect, Same, Starts, ReadReturns, CallReturns
  <2> QED
      BY <1>4, <2>2
<1>5. CASE o \in Deletes
    BY <1>1, <1>5, NextTypeInv DEF TypeInv, PhaseInv
<1> QED
    BY <1>3, <1>4, <1>5 DEF Ops

\* What a request sends does not change.
LEMMA SamePayload ==
    ASSUME TypeInv, SentInv, Next, NEW o \in Ops, Sends(o)
    PROVE  Payload(o)' = Payload(o)
<1>1. phase[o] # "new"
    BY DEF Sends, SentInv
<1>2. CASE o \in Puts
    BY <1>1, <1>2, KeepsLemma DEF Payload, Entry, Keeps
<1>3. CASE o \notin Puts
  <2>1. o \in Gets /\ phase[o] \in {"repair", "done"}
      BY <1>3 DEF Sends, TypeInv, NetInv, PhaseInv, Ops
  <2>2. latest'[o] = latest[o]
      BY <2>1, GetEffectLemma DEF GetEffect, Same, Starts, ReadReturns, CallReturns, Answers
  <2> QED
      BY <1>3, <2>2 DEF Payload
<1> QED
    BY <1>2, <1>3

LEMMA SendStep ==
    ASSUME SerialClients, SerialInv, Next
    PROVE  SendInv'
<1> USE DEF SerialInv, WaitInv
<1> SUFFICES ASSUME NEW o \in Ops, Sends(o)', NEW p \in Acked' PROVE (Payload(o).ts)' >= ts'[p]
    BY DEF SendInv
<1>0. /\ p \in Puts /\ p \in Ops /\ ts'[p] = ts[p] /\ ts[p] \in Int
      /\ \/ p \in Acked /\ phase[p] = "done"
         \/ phase[p] = "put" /\ phase'[p] = "done"
    BY AckedStep DEF Keeps
<1>1. CASE Sends(o)
  <2>1. Payload(o)' = Payload(o)
      BY <1>1, SamePayload
  <2>2. CASE p \in Acked
      BY <1>0, <1>1, <2>1, <2>2 DEF SendInv
  <2>3. CASE phase[p] = "put"
    <3>1. o = p
        BY <1>0, <1>1, <2>3 DEF Sends, AloneInv, InFlight, Active
    <3> QED
        BY <1>0, <2>1, <3>1 DEF Payload, Entry
  <2> QED
      BY <1>0, <2>2, <2>3
<1>2. CASE o \in Puts /\ phase[o] = "new" /\ phase'[o] # "new"
  <2>1. ts'[o] = now + 1
      BY <1>2, ClockStep DEF SerialClients
  <2>2. ts[p] <= now /\ now \in Int
      BY <1>0 DEF ClockInv, TypeInv, TypeOK
  <2>3. (Payload(o).ts)' = ts'[o]
      BY <1>2 DEF Payload, Entry
  <2> QED
      BY <1>0, <2>1, <2>2, <2>3
<1>3. CASE o \in Gets /\ Answers(o)
  <2>1. p \in Acked
    <3>1. SUFFICES ASSUME phase[p] = "put" PROVE FALSE
        BY <1>0
    <3>2. InFlight(p) /\ InFlight(o)
        BY <1>3, <3>1 DEF Answers, InFlight, Active
    <3>3. o = p
        BY <1>0, <3>2 DEF AloneInv
    <3> QED
        BY <1>3, <3>1, <3>3 DEF Answers
  <2>2. latest'[o].ts >= ts[p]
      BY <1>3, <2>1, AnswerNotOlder
  <2>3. Payload(o)' = latest'[o]
      BY <1>3, CoordinatorConstants DEF Payload
  <2> QED
      BY <1>0, <2>2, <2>3
<1> QED
    BY <1>1, <1>2, <1>3, NewSender

\* A replica that holds an acknowledged put holds it, or something no older,
\* after every step.
LEMMA HoldersKeep ==
    ASSUME SerialClients, SerialInv, Next, NEW p \in Acked, NEW n \in Nodes, store[n].ts >= ts[p]
    PROVE  store'[n].ts >= ts[p]
<1> USE DEF SerialInv, WaitInv
<1>0. store \in [Nodes -> LiveEntry \cup Tombstones \cup {NoEntry}] /\ now \in Int
    BY DEF TypeInv, TypeOK
<1>1. CASE store' = store
    BY <1>1
<1>2. ASSUME NEW o \in Ops, NEW m \in Nodes, Sends(o), store' = [store EXCEPT ![m] = Payload(o)]
      PROVE  store'[n].ts >= ts[p]
  <2>1. Payload(o).ts >= ts[p]
      BY <1>2 DEF SendInv
  <2>2. store'[n] = store[n] \/ store'[n] = Payload(o)
      BY <1>0, <1>2
  <2> QED
      BY <2>1, <2>2
<1>3. ASSUME NEW m \in Nodes, NEW e \in Tombstones, e.ts >= now + 1 - Skew,
             store' = [store EXCEPT ![m] = e]
      PROVE  store'[n].ts >= ts[p]
  <2>1. e.ts >= ts[p]
    <3>1. e.ts \in Int /\ ts[p] \in Int /\ ts[p] <= now
        BY DEF Tombstones, Acked, ClockInv, TypeInv, TypeOK, Ops
    <3>2. Skew = 0
        BY DEF SerialClients
    <3> QED
        BY <1>0, <1>3, <3>1, <3>2
  <2>2. store'[n] = store[n] \/ store'[n] = e
      BY <1>0, <1>3
  <2> QED
      BY <2>1, <2>2
<1> QED
    BY <1>1, <1>2, <1>3, StoreSource

LEMMA HoldStep ==
    ASSUME SerialClients, SerialInv, Next
    PROVE  HoldInv'
<1> USE DEF SerialInv, WaitInv
<1> SUFFICES ASSUME NEW p \in Acked' PROVE Cardinality(Holding(p)') >= WriteQuorum(lvl'[p])
    BY DEF HoldInv, WriteQuorum
<1>0. /\ p \in Puts /\ p \in Ops /\ Keeps(p) /\ ts[p] \in Int
      /\ \/ p \in Acked /\ phase[p] = "done"
         \/ /\ phase[p] = "put" /\ phase'[p] = "done" /\ store' = store
            /\ Cardinality(OkNodes(p)) >= WriteQuorum(lvl[p])
    BY AckedStep
<1>1. ts'[p] = ts[p] /\ lvl'[p] = lvl[p] /\ WriteQuorum(lvl[p]) \in Nat
    BY <1>0, QuorumType DEF Keeps, TypeInv, TypeOK
<1>2. Holding(p)' \subseteq Nodes
    BY ReplicasSize DEF Holding
<1>3. PICK S : S \subseteq Holding(p)' /\ Cardinality(S) >= WriteQuorum(lvl[p])
  <2>1. CASE p \in Acked
    <3>1. Holding(p) \subseteq Holding(p)'
        BY <1>1, <2>1, HoldersKeep, ReplicasSize DEF Holding
    <3> QED
        BY <2>1, <3>1 DEF HoldInv
  <2>2. CASE p \notin Acked
    <3>1. OkNodes(p) \subseteq Holding(p)'
        BY <1>0, <1>1, <2>2 DEF OkNodes, Holding, StructInv, CallsInv, ListInv, StoredInv
    <3> QED
        BY <1>0, <2>2, <3>1
  <2> QED
      BY <2>1, <2>2
<1>4. /\ Cardinality(S) \in Nat /\ Cardinality(Holding(p)') \in Nat
      /\ Cardinality(S) <= Cardinality(Holding(p)')
    BY <1>2, <1>3, CardMono
<1> QED
    BY <1>1, <1>3, <1>4

LEMMA AnsweredStep ==
    ASSUME SerialClients, SerialInv, Next
    PROVE  AnsweredInv'
<1> USE DEF SerialInv, WaitInv
<1> SUFFICES ASSUME NEW g \in Gets, result'[g] = "ok", NEW p \in AckedBefore(g)'
             PROVE  latest'[g].ts >= ts'[p]
    BY DEF AnsweredInv
<1>0. /\ g \in Ops /\ GetEffect(g)
      /\ p \in Puts /\ p \in Ops /\ p \in before'[g] /\ p \in Acked'
    BY GetEffectLemma DEF Ops, AckedBefore, Acked
<1>1. phase[g] # "new" /\ (result[g] = "ok" => latest'[g] = latest[g])
    BY <1>0 DEF GetEffect, Same, Starts, ReadReturns, CallReturns, Answers, StructInv, AnswerLate
<1>2. Keeps(g)
    BY <1>0, <1>1, KeepsLemma
<1>3. phase[p] = "done"
    BY <1>0, <1>1, <1>2 DEF Keeps, StructInv, BeforeInv
<1>4. p \in Acked /\ ts'[p] = ts[p]
    BY <1>0, <1>3, AckedStep DEF Keeps
<1>5. CASE result[g] = "ok"
  <2>1. p \in AckedBefore(g)
      BY <1>0, <1>2, <1>4 DEF AckedBefore, Acked, Keeps
  <2> QED
      BY <1>1, <1>4, <1>5, <2>1 DEF AnsweredInv
<1>6. CASE result[g] # "ok"
  <2>1. Answers(g)
      BY <1>0, <1>6 DEF GetEffect, Same, Starts, ReadReturns, CallReturns, Answers
  <2> QED
      BY <1>4, <2>1, AnswerNotOlder
<1> QED
    BY <1>5, <1>6

LEMMA InitSerial == Init => SerialInv
<1> SUFFICES ASSUME Init PROVE SerialInv
    OBVIOUS
<1>1. WaitInv
    BY InitWait
<1>2. ListInv
    BY DEF Init, ListInv, Ops
<1>3. ClockInv
    BY DEF Init, ClockInv
<1>4. Acked = {} /\ \A g \in Gets : result[g] # "ok"
    BY DEF Init, Acked, Ops
<1>5. SendInv /\ HoldInv /\ AnsweredInv
    BY <1>4 DEF SendInv, HoldInv, AnsweredInv
<1> QED
    BY <1>1, <1>2, <1>3, <1>5 DEF SerialInv

LEMMA NextSerial ==
    ASSUME SerialClients, SerialInv, [Next]_vars
    PROVE  SerialInv'
<1>0. WaitInv'
    BY NextWait DEF SerialInv, SerialClients
<1>1. CASE Next
  <2>1. ListInv' /\ ClockInv'
      BY <1>1, ListStep, ClockStep DEF SerialInv, WaitInv, SerialClients
  <2> QED
      BY <1>0, <1>1, <2>1, SendStep, HoldStep, AnsweredStep DEF SerialInv
<1>2. CASE UNCHANGED vars
    BY <1>0, <1>2 DEF vars, SerialInv, ListInv, ClockInv, SendInv, Sends, Payload, Entry, HoldInv, Holding,
                WriteQuorum, AnsweredInv, AckedBefore, Acked
<1> QED
    BY <1>1, <1>2

\* Read repair heals: with clients that wait, in any cluster and whatever calls
\* time out, arrive late or fail, every replica whose repair call succeeded has
\* the entry the get returned, or, on the coordinator, a newer one.
THEOREM RepairsHeal ==
    ASSUME Serial
    PROVE  Spec => []ReadRepairHeals
<1>1. Init => WaitInv
    BY InitWait
<1>2. WaitInv /\ [Next]_vars => WaitInv'
    BY NextWait
<1>3. WaitInv => ReadRepairHeals
  <2> SUFFICES ASSUME WaitInv, NEW g \in Gets, phase[g] = "repair",
                      \A n \in pref[g] : call[g][n] = "ok", NEW n \in pref[g]
               PROVE  Healed(g, n)
      BY DEF ReadRepairHeals, Healed
  <2>1. n \in Nodes
      BY DEF WaitInv, TypeInv, TypeOK, Ops
  <2> QED
      BY <2>1 DEF WaitInv, HealInv
<1> QED
    BY <1>1, <1>2, <1>3, PTL DEF Spec

LEMMA SerialInvariance ==
    ASSUME SerialClients
    PROVE  Spec => []SerialInv
<1>1. SerialInv /\ [Next]_vars => SerialInv'
    BY NextSerial
<1> QED
    BY <1>1, InitSerial, PTL DEF Spec

\* Acknowledged puts stay on a write quorum: with clients that wait, one clock, one
\* list of replicas and intersecting quorums, for every cluster, N, R and W, no
\* read repair, half-failed put, late message, crash or local delete takes a put
\* off the quorum that acknowledged it, though replicas store what arrives
\* without comparing timestamps.
THEOREM AckedWritesStay ==
    ASSUME SerialClients
    PROVE  Spec => []AckedWriteHeld
<1>1. SerialInv => AckedWriteHeld
  <2> SUFFICES ASSUME SerialInv, NEW p \in Puts, result[p] = "ok"
               PROVE  Cardinality({n \in Nodes : store[n].ts >= ts[p]}) >= WriteQuorum(lvl[p])
      BY DEF AckedWriteHeld
  <2> DEFINE All == {n \in Nodes : store[n].ts >= ts[p]}
  <2>1. Holding(p) \subseteq All /\ All \subseteq Nodes
      BY ReplicasSize DEF Holding
  <2>2. /\ Cardinality(Holding(p)) \in Nat /\ Cardinality(All) \in Nat
        /\ Cardinality(Holding(p)) <= Cardinality(All)
      BY <2>1, CardMono
  <2>3. Cardinality(Holding(p)) >= WriteQuorum(lvl[p]) /\ WriteQuorum(lvl[p]) \in Nat
      BY QuorumType DEF SerialInv, WaitInv, HoldInv, Acked, TypeInv, TypeOK, Ops
  <2> QED
      BY <2>2, <2>3
<1> QED
    BY <1>1, SerialInvariance, PTL

\* Strong consistency for clients that wait: under the same conditions a get never
\* answers with something older than a put acknowledged before it started,
\* whatever replicas have regressed meanwhile.
THEOREM SerialReadsFresh ==
    ASSUME SerialClients
    PROVE  Spec => []QuorumReadFresh
<1>1. SerialInv => QuorumReadFresh
    BY DEF SerialInv, AnsweredInv, QuorumReadFresh
<1> QED
    BY <1>1, SerialInvariance, PTL

=============================================================================
