--------------------------- MODULE QuorumManager ---------------------------
(***************************************************************************)
(* One call of ExecuteRead or ExecuteWrite                                 *)
(* (internal/replication/quorum.go).                                       *)
(*                                                                         *)
(* One goroutine per replica runs the operation and records its outcome    *)
(* under a mutex; the one that completes the quorum closes the channel     *)
(* "done", and a waiter goroutine closes it when all have returned.  The   *)
(* caller wakes up when "done" is closed and goes on without the mutex,    *)
(* while slower goroutines keep recording.                                 *)
(***************************************************************************)
EXTENDS Integers, Sequences, FiniteSets

CONSTANTS
    Workers,       \* the goroutines, one per replica
    Stamps,        \* the timestamps replicas may return, all above 0
    N, R, W        \* replicationFactor, readQuorum, writeQuorum

Free == "free"      \* nobody holds the mutex

ASSUME QuorumConstants ==
    /\ IsFiniteSet(Workers) /\ Free \notin Workers
    /\ Stamps \subseteq Nat \ {0}
    /\ N \in Nat /\ R \in 1..N /\ W \in 1..N

Levels == {"one", "quorum", "all"}

VARIABLES
    kind,       \* "read" or "write"
    level,      \* the consistency level
    pc,         \* pc[w]: where goroutine w is
    out,        \* out[w]: what its operation returned
    mu,         \* the holder of the mutex
    success,    \* result.SuccessCount
    errors,     \* result.ErrorCount
    entries,    \* entries: a slice, [by |-> w, full |-> content written]
    done,       \* the channel is closed
    panicked,   \* a closed channel was closed again
    waiter,     \* the goroutine that waits for the WaitGroup
    main,       \* the caller
    verdict,    \* result.Success
    latest,     \* result.Value and result.Timestamp
    returned    \* the length of the slice the caller gets

workVars == <<pc, out, mu, success, errors, entries>>
callVars == <<waiter, main, verdict, latest, returned>>
vars == <<kind, level, pc, out, mu, success, errors, entries, done, panicked,
          waiter, main, verdict, latest, returned>>

\* The outcomes of an operation: a timestamp, "nil" (no entry), an error.
Outcomes == [st : {"ok"}, ts : Stamps] \cup {[st |-> "nil", ts |-> 0], [st |-> "err", ts |-> 0]}

Pending == [st |-> "none", ts |-> 0]

\* What the caller may read out of a slot: a value (named by its goroutine)
\* and a timestamp.
NoValue == [by |-> Free, ts |-> 0]

Seen == [by : Workers \cup {Free}, ts : Stamps \cup {0}]

TypeOK ==
    /\ kind \in {"read", "write"}
    /\ level \in Levels
    /\ pc \in [Workers -> {"exec", "lock", "append", "check", "close", "unlock", "wgdone", "exit"}]
    /\ out \in [Workers -> Outcomes \cup {Pending}]
    /\ mu \in Workers \cup {Free}
    /\ success \in Nat
    /\ errors \in Nat
    /\ entries \in Seq([by : Workers, full : BOOLEAN])
    /\ done \in BOOLEAN
    /\ panicked \in BOOLEAN
    /\ waiter \in {"wait", "close", "exit"}
    /\ main \in {"wait", "latest", "return", "returned"}
    /\ verdict \in BOOLEAN
    /\ latest \in Seen
    /\ returned \in Nat

Init ==
    /\ kind \in {"read", "write"}
    /\ level \in Levels
    /\ pc = [w \in Workers |-> "exec"]
    /\ out = [w \in Workers |-> Pending]
    /\ mu = Free
    /\ success = 0
    /\ errors = 0
    /\ entries = <<>>
    /\ done = FALSE
    /\ panicked = FALSE
    /\ waiter = "wait"
    /\ main = "wait"
    /\ verdict = FALSE
    /\ latest = NoValue
    /\ returned = 0

-----------------------------------------------------------------------------
\* getWriteRequirement and getReadRequirement.
Required ==
    CASE level = "one" -> 1
      [] level = "all" -> N
      [] OTHER -> IF kind = "read" THEN R ELSE W

Goto(w, where) == pc' = [pc EXCEPT ![w] = where]

(***************************************************************************)
(* The goroutine of one replica.                                           *)
(***************************************************************************)

\* operation.Execute(ctx) returns; a write returns no entry.
Execute(w) ==
    /\ pc[w] = "exec"
    /\ \E o \in Outcomes :
          /\ kind = "write" => o.st # "nil"
          /\ out' = [out EXCEPT ![w] = o]
    /\ Goto(w, "lock")
    /\ UNCHANGED <<kind, level, mu, success, errors, entries, done, panicked, callVars>>

\* Mutant: an error takes a success back.
RecordErrorUncounts(w) ==
    /\ pc[w] = "lock"
    /\ mu = Free
    /\ mu' = w
    /\ success' = success + (IF out[w].st = "ok" THEN 1 ELSE IF out[w].st = "err" THEN -1 ELSE 0)
    /\ UNCHANGED errors
    /\ IF kind = "read" /\ out[w].st = "ok"
       THEN entries' = Append(entries, [by |-> w, full |-> FALSE]) /\ Goto(w, "append")
       ELSE Goto(w, "check") /\ UNCHANGED entries
    /\ UNCHANGED <<kind, level, out, done, panicked, callVars>>

\* mu.Lock and the counters.  append stores the new length of the slice, and
\* then the element: the slice never grows beyond its capacity.
Record(w) ==
    /\ pc[w] = "lock"
    /\ mu = Free
    /\ mu' = w
    /\ success' = success + (IF out[w].st = "ok" THEN 1 ELSE 0)
    /\ errors' = errors + (IF out[w].st = "err" THEN 1 ELSE 0)
    /\ IF kind = "read" /\ out[w].st = "ok"
       THEN entries' = Append(entries, [by |-> w, full |-> FALSE]) /\ Goto(w, "append")
       ELSE Goto(w, "check") /\ UNCHANGED entries
    /\ UNCHANGED <<kind, level, out, done, panicked, callVars>>

FillSlot(w) ==
    /\ pc[w] = "append"
    /\ entries' = [i \in DOMAIN entries |->
                      IF entries[i].by = w THEN [entries[i] EXCEPT !.full = TRUE] ELSE entries[i]]
    /\ Goto(w, "check")
    /\ UNCHANGED <<kind, level, out, mu, success, errors, done, panicked, callVars>>

\* Mutant: the quorum is complete one acknowledgement too early.
CheckQuorumEarly(w) ==
    /\ pc[w] = "check"
    /\ Goto(w, IF success + 1 >= Required /\ ~done THEN "close" ELSE "unlock")
    /\ UNCHANGED <<kind, level, out, mu, success, errors, entries, done, panicked, callVars>>

\* The quorum test and the select on "done".
CheckQuorum(w) ==
    /\ pc[w] = "check"
    /\ Goto(w, IF success >= Required /\ ~done THEN "close" ELSE "unlock")
    /\ UNCHANGED <<kind, level, out, mu, success, errors, entries, done, panicked, callVars>>

\* close(done): closing it twice panics.
CloseDone(w) ==
    /\ pc[w] = "close"
    /\ panicked' = (panicked \/ done)
    /\ done' = TRUE
    /\ Goto(w, "unlock")
    /\ UNCHANGED <<kind, level, out, mu, success, errors, entries, callVars>>

\* The deferred calls: mu.Unlock first ...
Unlock(w) ==
    /\ pc[w] = "unlock"
    /\ mu' = Free
    /\ Goto(w, "wgdone")
    /\ UNCHANGED <<kind, level, out, success, errors, entries, done, panicked, callVars>>

\* ... and wg.Done last.
WgDone(w) ==
    /\ pc[w] = "wgdone"
    /\ Goto(w, "exit")
    /\ UNCHANGED <<kind, level, out, mu, success, errors, entries, done, panicked, callVars>>

-----------------------------------------------------------------------------
(***************************************************************************)
(* The goroutine that waits for all of them.                               *)
(***************************************************************************)

\* Mutants: wg.Wait returns when the operations have, wherever the goroutines
\* are with the mutex; the waiter leaves without closing the channel.
WaitAllEarly ==
    /\ waiter = "wait"
    /\ \A w \in Workers : pc[w] # "exec"
    /\ waiter' = IF done THEN "exit" ELSE "close"
    /\ UNCHANGED <<kind, level, workVars, done, panicked, main, verdict, latest, returned>>

WaitAllNoClose ==
    /\ waiter = "wait"
    /\ \A w \in Workers : pc[w] = "exit"
    /\ waiter' = "exit"
    /\ UNCHANGED <<kind, level, workVars, done, panicked, main, verdict, latest, returned>>

\* wg.Wait returns, and the select on "done".
WaitAll ==
    /\ waiter = "wait"
    /\ \A w \in Workers : pc[w] = "exit"
    /\ waiter' = IF done THEN "exit" ELSE "close"
    /\ UNCHANGED <<kind, level, workVars, done, panicked, main, verdict, latest, returned>>

WaiterClose ==
    /\ waiter = "close"
    /\ panicked' = (panicked \/ done)
    /\ done' = TRUE
    /\ waiter' = "exit"
    /\ UNCHANGED <<kind, level, workVars, main, verdict, latest, returned>>

-----------------------------------------------------------------------------
(***************************************************************************)
(* The caller.                                                             *)
(***************************************************************************)

\* <-done, and result.Success from the counter as it is now.
Wake ==
    /\ main = "wait"
    /\ done
    /\ verdict' = (success >= Required)
    /\ main' = IF kind = "read" THEN "latest" ELSE "returned"
    /\ UNCHANGED <<kind, level, workVars, done, panicked, waiter, latest, returned>>

\* What the caller can read in slot i: its content, or, while a goroutine is
\* still writing it, nothing or the timestamp without the value.
Read(i) ==
    LET w == entries[i].by
        e == [by |-> w, ts |-> out[w].ts]
    IN  IF entries[i].full THEN {e} ELSE {e, NoValue, [e EXCEPT !.by = Free]}

\* Mutant: the first entry is taken, whatever its timestamp.
PickLatestFirst ==
    /\ main = "latest"
    /\ main' = "return"
    /\ latest' = IF entries = <<>> THEN NoValue
                 ELSE [by |-> entries[1].by, ts |-> out[entries[1].by].ts]
    /\ UNCHANGED <<kind, level, workVars, done, panicked, waiter, verdict, returned>>

\* The loop over the entries there are now: the first of the highest
\* timestamp wins.
PickLatest ==
    /\ main = "latest"
    /\ main' = "return"
    /\ IF entries = <<>>
       THEN UNCHANGED latest
       ELSE \E seen \in [DOMAIN entries -> Seen] :
               /\ \A i \in DOMAIN entries : seen[i] \in Read(i)
               /\ \E i \in DOMAIN entries :
                     /\ \A j \in DOMAIN entries : \/ seen[j].ts < seen[i].ts
                                                  \/ seen[j].ts = seen[i].ts /\ i <= j
                     /\ latest' = seen[i]
    /\ UNCHANGED <<kind, level, workVars, done, panicked, waiter, verdict, returned>>

\* return result, entries: the slice is read once more.
Return ==
    /\ main = "return"
    /\ main' = "returned"
    /\ returned' = Len(entries)
    /\ UNCHANGED <<kind, level, workVars, done, panicked, waiter, verdict, latest>>

-----------------------------------------------------------------------------
Worker(w) ==
    \/ Execute(w)
    \/ Record(w)
    \/ FillSlot(w)
    \/ CheckQuorum(w)
    \/ CloseDone(w)
    \/ Unlock(w)
    \/ WgDone(w)

Waiter == WaitAll \/ WaiterClose

Main == Wake \/ PickLatest \/ Return

Next == (\E w \in Workers : Worker(w)) \/ Waiter \/ Main

Spec == Init /\ [][Next]_vars

\* Every operation gets a context with the manager's timeout, so each returns,
\* and the Go scheduler and sync.Mutex run every goroutine.
FairSpec ==
    /\ Spec
    /\ WF_vars(Waiter) /\ WF_vars(Main)
    /\ \A w \in Workers : SF_vars(Worker(w))

-----------------------------------------------------------------------------
(***************************************************************************)
(* Properties.                                                             *)
(***************************************************************************)

\* Two kinds of goroutine close "done" and only one of them holds the mutex
\* while it does; still the channel is closed once, because the waiter looks
\* at it after every deferred wg.Done, and those run after the unlock.
NeverClosedTwice == ~panicked

Succeeded == {w \in Workers : out[w].st = "ok"}

\* Recorded the outcome of its operation.
Recorded(w) == pc[w] \notin {"exec", "lock"}

\* result.Success is right although it is computed without the mutex: success
\* means that a quorum of replicas has answered, and failure is reported only
\* when every goroutine is through and too few have succeeded.
VerdictExact ==
    main # "wait" =>
        IF verdict
        THEN Cardinality({w \in Succeeded : Recorded(w)}) >= Required
        ELSE (\A w \in Workers : Recorded(w)) /\ Cardinality(Succeeded) < Required

\* A successful read hands over at least a quorum of entries, and never answers
\* with something older than any entry of the quorum that woke it, however much
\* of the entries recorded since it sees.
LatestOfFirstQuorum ==
    main \in {"return", "returned"} /\ verdict /\ kind = "read" =>
        /\ \A i \in 1..Required : latest.ts >= out[entries[i].by].ts
        /\ main = "returned" => returned >= Required

\* A call ends although only "done" is waited for and never the context.
CallReturns == <>(main = "returned")

=============================================================================
