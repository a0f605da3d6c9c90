-------------------------- MODULE VersioningProofs --------------------------
(***************************************************************************)
(* Vector clocks track causality: a proof for every set of nodes, every    *)
(* timestamps and every number of versions.                                *)
(*                                                                         *)
(* A clock stands for a set of events, its past; the two together are a    *)
(* view.  Managers and versions have one each.  The inductive invariant    *)
(* says what a view knows, and that a version is newer than what it was    *)
(* made from.                                                              *)
(***************************************************************************)
EXTENDS Versioning, TLAPS

-----------------------------------------------------------------------------
(***************************************************************************)
(* Views.                                                                  *)
(***************************************************************************)

\* A node counts its own events, and no clock is ahead of it.
Behind(clk) == \A a \in Nodes \ reused : clk[a] <= clocks[a][a]

\* The clock counts, for a node that does not reuse counts, its events in past.
Exact(clk, past) ==
    \A a \in Nodes \ reused : \A c \in Nat : <<a, c>> \in past <=> c >= 1 /\ c <= clk[a]

\* What the versions in past knew is known.
Carries(clk, past) ==
    \A v \in versions :
        v.node \notin reused /\ EventOf(v) \in past => \A n \in Nodes : v.version[n] <= clk[n]

View(clk, past) ==
    /\ clk \in Clock
    /\ past \in SUBSET Event
    /\ Behind(clk)
    /\ Exact(clk, past)
    /\ Carries(clk, past)

\* A version is counted by its own clock, and newer than the others in its past.
Newest(w) ==
    /\ w.version[w.node] >= 1
    /\ EventOf(w) \in w.past
    /\ \A v \in versions :
          v.node \notin reused /\ EventOf(v) \in w.past =>
              v = w \/ v.version[w.node] < w.version[w.node]

IInv ==
    /\ TypeOK
    /\ \A n \in Nodes : View(clocks[n], known[n])
    /\ \A w \in versions : View(w.version, w.past) /\ Newest(w)

-----------------------------------------------------------------------------
(***************************************************************************)
(* Operators on clocks.                                                    *)
(***************************************************************************)

\* The clocks of two entries are merged to the larger count of each node.
LEMMA MergedClockOfTwo ==
    ASSUME NEW e \in Version, NEW f \in Version
    PROVE  MergedClock(<<e, f>>) = Merge(e.version, f.version)
  <1>1. e.version \in Clock /\ f.version \in Clock
    BY DEF Version
  <1>2. ASSUME NEW n \in Nodes
        PROVE  Largest({<<e, f>>[i].version[n] : i \in DOMAIN <<e, f>>}) = Merge(e.version, f.version)[n]
    <2>1. {<<e, f>>[i].version[n] : i \in DOMAIN <<e, f>>} = {e.version[n], f.version[n]}
      <3>1. DOMAIN <<e, f>> = {1, 2}
        OBVIOUS
      <3>2. <<e, f>>[1] = e /\ <<e, f>>[2] = f
        OBVIOUS
      <3> QED BY <3>1, <3>2, Zenon
    <2>2. e.version[n] \in Nat /\ f.version[n] \in Nat
      BY <1>1 DEF Clock
    <2>3. Largest({e.version[n], f.version[n]}) =
             IF f.version[n] > e.version[n] THEN f.version[n] ELSE e.version[n]
      BY <2>2 DEF Largest
    <2> QED BY <2>1, <2>3 DEF Merge
  <1> QED BY <1>2 DEF MergedClock, Merge

\* Merge and Increment return clocks.
LEMMA ClockOps ==
    ASSUME NEW a \in Clock, NEW b \in Clock, NEW n \in Nodes
    PROVE  /\ Merge(a, b) \in Clock
           /\ \A k \in Nodes : Merge(a, b)[k] = IF b[k] > a[k] THEN b[k] ELSE a[k]
           /\ Incremented(a, n) \in Clock
           /\ \A k \in Nodes : Incremented(a, n)[k] = IF k = n THEN a[k] + 1 ELSE a[k]
  BY DEF Merge, Incremented, Clock

\* The join of two views is a view.
LEMMA ViewJoin ==
    ASSUME TypeOK, NEW a, NEW p, NEW b, NEW q, View(a, p), View(b, q)
    PROVE  View(Merge(a, b), p \cup q)
  <1>0. a \in Clock /\ b \in Clock
    BY DEF View
  <1>a. \A k \in Nodes : a[k] \in Nat /\ b[k] \in Nat /\ clocks[k][k] \in Nat
    BY <1>0 DEF Clock, TypeOK
  <1>1. Merge(a, b) \in Clock
    BY <1>0 DEF Merge, Clock
  <1>2. \A k \in Nodes : Merge(a, b)[k] = IF b[k] > a[k] THEN b[k] ELSE a[k]
    BY DEF Merge
  <1>3. Behind(Merge(a, b))
    BY <1>2, <1>a DEF View, Behind
  <1>4. Exact(Merge(a, b), p \cup q)
    <2> SUFFICES ASSUME NEW k \in Nodes \ reused, NEW c \in Nat
                 PROVE  <<k, c>> \in p \cup q <=> c >= 1 /\ c <= Merge(a, b)[k]
      BY DEF Exact
    <2>1. <<k, c>> \in p <=> c >= 1 /\ c <= a[k]
      BY DEF View, Exact
    <2>2. <<k, c>> \in q <=> c >= 1 /\ c <= b[k]
      BY DEF View, Exact
    <2> QED BY <2>1, <2>2, <1>2, <1>a
  <1>5. Carries(Merge(a, b), p \cup q)
    <2> SUFFICES ASSUME NEW v \in versions, v.node \notin reused, EventOf(v) \in p \cup q,
                        NEW n \in Nodes
                 PROVE  v.version[n] <= Merge(a, b)[n]
      BY DEF Carries
    <2>1. v.version[n] \in Nat
      BY DEF TypeOK, Version, Clock
    <2>2. v.version[n] <= a[n] \/ v.version[n] <= b[n]
      BY DEF View, Carries
    <2> QED BY <2>1, <2>2, <1>2, <1>a
  <1> QED BY <1>1, <1>3, <1>4, <1>5 DEF View

\* The same in the next state.
LEMMA ViewJoinNext ==
    TypeOK' => \A a, p, b, q : View(a, p)' /\ View(b, q)' => View(Merge(a, b), p \cup q)'
  <1> DEFINE Joins == \A a, p, b, q : View(a, p) /\ View(b, q) => View(Merge(a, b), p \cup q)
  <1>1. TypeOK => Joins
    BY ViewJoin
  <1>2. TypeOK' => Joins'
    BY <1>1, PTL
  <1> QED BY <1>2

\* A view stays one when counts do not fall and new versions have new counts.
LEMMA ViewKept ==
    ASSUME TypeOK, TypeOK', NEW clk, NEW past, View(clk, past),
           reused \subseteq reused',
           \A a \in Nodes \ reused' : clocks[a][a] <= clocks'[a][a],
           \A v \in versions' \ versions :
               v.node \notin reused' => v.version[v.node] > clocks[v.node][v.node]
    PROVE  View(clk, past)'
  <1>1. \A a \in Nodes : clk[a] \in Nat /\ clocks[a][a] \in Nat /\ clocks'[a][a] \in Nat
    BY DEF TypeOK, View, Clock
  <1>2. Behind(clk)'
    BY <1>1 DEF View, Behind
  <1>3. Exact(clk, past)'
    BY DEF View, Exact
  <1>4. Carries(clk, past)'
    <2> SUFFICES ASSUME NEW v \in versions', v.node \notin reused', EventOf(v) \in past
                 PROVE  \A n \in Nodes : v.version[n] <= clk[n]
      BY DEF Carries, EventOf
    <2>1. CASE v \in versions
      BY <2>1 DEF View, Carries
    <2>2. CASE v \notin versions
      <3>1. v.node \in Nodes \ reused /\ v.version[v.node] \in Nat
        BY DEF TypeOK, Version, Clock
      <3>2. v.version[v.node] > clocks[v.node][v.node]
        BY <2>2
      <3>3. v.version[v.node] <= clk[v.node]
        BY <3>1 DEF View, Exact, EventOf
      <3>4. clk[v.node] <= clocks[v.node][v.node]
        BY <3>1 DEF View, Behind
      <3> QED BY <3>1, <3>2, <3>3, <3>4, <1>1
    <2> QED BY <2>1, <2>2
  <1> QED BY <1>2, <1>3, <1>4 DEF View

-----------------------------------------------------------------------------
(***************************************************************************)
(* The steps.                                                              *)
(***************************************************************************)

\* A new version is made at n from a view, as Increment and Reconcile do.
Makes(n, base, past, w) ==
    /\ w \in Version
    /\ w.node = n
    /\ w.version = Incremented(base, n)
    /\ w.past = past \cup {<<n, base[n] + 1>>}
    /\ versions' = versions \cup {w}
    /\ clocks' = [clocks EXCEPT ![n] = Merge(@, w.version)]
    /\ known' = [known EXCEPT ![n] = @ \cup w.past]
    /\ reused' = IF base[n] + 1 <= clocks[n][n] THEN reused \cup {n} ELSE reused

\* Making a version preserves the invariant.
LEMMA MakesKeeps ==
    ASSUME IInv, NEW n \in Nodes, NEW base, NEW past, View(base, past),
           NEW w, Makes(n, base, past, w)
    PROVE  IInv'
  <1>0. TypeOK /\ base \in Clock /\ past \in SUBSET Event
    BY DEF IInv, View
  <1>1. /\ w \in Version /\ w.version \in Clock /\ w.past \in SUBSET Event
        /\ \A k \in Nodes : w.version[k] = IF k = n THEN base[k] + 1 ELSE base[k]
        /\ \A k \in Nodes : base[k] \in Nat /\ clocks[k] \in Clock
        /\ \A j, k \in Nodes : clocks[j][k] \in Nat
        /\ EventOf(w) = <<n, base[n] + 1>>
    BY <1>0 DEF Makes, Version, Incremented, Clock, EventOf, TypeOK
  <1>2. TypeOK'
    BY <1>0, <1>1, ClockOps DEF Makes, TypeOK
  <1>3. reused \subseteq reused'
    BY DEF Makes
  <1>4. \A a \in Nodes : clocks[a][a] <= clocks'[a][a]
    <2> SUFFICES ASSUME NEW a \in Nodes PROVE clocks[a][a] <= clocks'[a][a]
      OBVIOUS
    <2>1. CASE a = n
      <3>1. clocks'[a] = Merge(clocks[a], w.version)
        BY <2>1, <1>0 DEF Makes, TypeOK
      <3> QED BY <3>1, <1>1 DEF Merge, Clock
    <2>2. CASE a # n
      BY <2>2, <1>0, <1>1 DEF Makes, TypeOK
    <2> QED BY <2>1, <2>2
  <1>5. n \notin reused' => base[n] + 1 > clocks[n][n] /\ base[n] = clocks[n][n]
    <2> SUFFICES ASSUME n \notin reused' PROVE base[n] + 1 > clocks[n][n] /\ base[n] = clocks[n][n]
      OBVIOUS
    <2>1. base[n] + 1 > clocks[n][n]
      BY <1>1 DEF Makes
    <2>2. base[n] <= clocks[n][n]
      BY <1>3 DEF View, Behind
    <2> QED BY <2>1, <2>2, <1>1
  <1>6. \A v \in versions' \ versions :
           v.node \notin reused' => v.version[v.node] > clocks[v.node][v.node]
    BY <1>1, <1>5 DEF Makes
  <1>7. \A clk, p : View(clk, p) => View(clk, p)'
    BY <1>0, <1>2, <1>3, <1>4, <1>6, ViewKept
  \* The view of the new version.
  <1>8. View(w.version, w.past)'
    <2>1. View(base, past)'
      BY <1>7
    <2>2. Behind(w.version)'
      <3> SUFFICES ASSUME NEW a \in Nodes \ reused' PROVE w.version[a] <= clocks'[a][a]
        BY DEF Behind
      <3>1. CASE a = n
        <4>1. clocks'[a] = Merge(clocks[a], w.version)
          BY <3>1, <1>0 DEF Makes, TypeOK
        <4> QED BY <4>1, <1>1 DEF Merge, Clock
      <3>2. CASE a # n
        BY <3>2, <1>1, <2>1 DEF View, Behind
      <3> QED BY <3>1, <3>2
    <2>3. Exact(w.version, w.past)'
      <3> SUFFICES ASSUME NEW a \in Nodes \ reused', NEW c \in Nat
                   PROVE  <<a, c>> \in w.past <=> c >= 1 /\ c <= w.version[a]
        BY DEF Exact
      <3>1. <<a, c>> \in past <=> c >= 1 /\ c <= base[a]
        BY <2>1 DEF View, Exact
      <3>2. <<a, c>> \in w.past <=> <<a, c>> \in past \/ (a = n /\ c = base[n] + 1)
        BY DEF Makes
      <3> QED BY <3>1, <3>2, <1>1
    <2>4. Carries(w.version, w.past)'
      <3> SUFFICES ASSUME NEW v \in versions', v.node \notin reused', EventOf(v) \in w.past,
                          NEW k \in Nodes
                   PROVE  v.version[k] <= w.version[k]
        BY DEF Carries, EventOf
      <3>1. v \in Version /\ v.version[k] \in Nat /\ v.version[v.node] \in Nat /\ v.node \in Nodes
        BY <1>2 DEF TypeOK, Version, Clock
      <3>2. CASE EventOf(v) \in past
        BY <3>1, <3>2, <2>1, <1>1 DEF View, Carries, EventOf
      <3>3. CASE EventOf(v) \notin past
        <4>1. v.node = n /\ v.version[n] = base[n] + 1
          BY <3>3 DEF Makes, EventOf
        <4>2. v = w
          <5>1. v.version[n] > clocks[n][n]
            BY <4>1, <1>5
          <5>2. v \in versions => v.version[n] <= clocks[n][n]
            BY <4>1, <1>3 DEF IInv, View, Behind
          <5> QED BY <5>1, <5>2, <3>1, <4>1, <1>1 DEF Makes
        <4> QED BY <4>2, <1>1
      <3> QED BY <3>2, <3>3
    <2> QED BY <1>1, <2>2, <2>3, <2>4 DEF View
  <1>9. Newest(w)'
    <2>1. w.version[w.node] >= 1 /\ EventOf(w) \in w.past
      BY <1>1 DEF Makes
    <2>2. ASSUME NEW v \in versions', v.node \notin reused', EventOf(v) \in w.past
          PROVE  v = w \/ v.version[w.node] < w.version[w.node]
      <3>1. v \in Version /\ v.version[n] \in Nat /\ v.node \in Nodes
        BY <1>2 DEF TypeOK, Version, Clock
      <3>2. CASE EventOf(v) \in past
        <4>1. v.version[n] <= base[n]
          BY <2>2, <3>2, <1>7 DEF View, Carries, EventOf
        <4> QED BY <4>1, <3>1, <1>1 DEF Makes
      <3>3. CASE EventOf(v) \notin past
        <4>1. v.node = n /\ v.version[n] = base[n] + 1
          BY <2>2, <3>3 DEF Makes, EventOf
        <4>2. v.version[n] > clocks[n][n]
          BY <2>2, <4>1, <1>5
        <4>3. v \in versions => v.version[n] <= clocks[n][n]
          BY <2>2, <4>1, <1>3 DEF IInv, View, Behind
        <4> QED BY <4>2, <4>3, <3>1, <4>1, <1>1 DEF Makes
      <3> QED BY <3>2, <3>3
    <2> QED BY <2>1, <2>2 DEF Newest, EventOf
  <1>10. ASSUME NEW u \in versions PROVE (View(u.version, u.past) /\ Newest(u))'
    <2>1. View(u.version, u.past) /\ Newest(u)
      BY DEF IInv
    <2>2. View(u.version, u.past)'
      BY <2>1, <1>7
    <2>3. ASSUME NEW v \in versions', v.node \notin reused', EventOf(v) \in u.past
          PROVE  v = u \/ v.version[u.node] < u.version[u.node]
      <3>1. CASE v \in versions
        BY <2>1, <2>3, <3>1, <1>3 DEF Newest
      <3>2. CASE v \notin versions
        <4>1. v = w
          BY <2>3, <3>2 DEF Makes
        <4>2. base[n] + 1 > clocks[n][n] /\ n \notin reused
          BY <4>1, <2>3, <1>5, <1>3 DEF Makes
        <4>3. base[n] + 1 <= u.version[n]
          BY <4>1, <4>2, <2>1, <2>3, <1>1 DEF View, Exact
        <4>4. u.version[n] <= clocks[n][n] /\ u.version[n] \in Nat
          BY <4>2, <2>1 DEF View, Behind, Clock
        <4> QED BY <4>2, <4>3, <4>4, <1>1
      <3> QED BY <3>1, <3>2
    <2> QED BY <2>1, <2>2, <2>3 DEF Newest, EventOf
  <1>11. ASSUME NEW m \in Nodes PROVE View(clocks[m], known[m])'
    <2>1. View(clocks[m], known[m])
      BY DEF IInv
    <2>2. CASE m # n
      <3>1. clocks'[m] = clocks[m] /\ known'[m] = known[m]
        BY <2>2, <1>0 DEF Makes, TypeOK
      <3>2. \A clk, p : View(clk, p) /\ clk = clocks'[m] /\ p = known'[m] => View(clocks[m], known[m])'
        BY <1>7
      <3> QED BY <2>1, <3>1, <3>2
    <2>3. CASE m = n
      <3>1. clocks'[m] = Merge(clocks[m], w.version) /\ known'[m] = known[m] \cup w.past
        BY <2>3, <1>0 DEF Makes, TypeOK
      <3>2. \A a, p, b, q : View(a, p)' /\ View(b, q)' => View(Merge(a, b), p \cup q)'
        BY <1>2, ViewJoinNext
      <3>3. \A a, p : View(a, p) /\ a = clocks[m] /\ p = known[m] =>
                View(Merge(a, w.version), p \cup w.past)'
        BY <3>2, <1>7, <1>8
      <3> QED BY <2>1, <3>1, <3>3
    <2> QED BY <2>2, <2>3
  <1> QED BY <1>2, <1>8, <1>9, <1>10, <1>11 DEF IInv, Makes

\* Initially there are no versions and nothing is known.
LEMMA InitIInv == Init => IInv
  <1> SUFFICES ASSUME Init PROVE IInv
    OBVIOUS
  <1>1. TypeOK
    BY DEF Init, TypeOK, Clock, NoClock
  <1>2. ASSUME NEW n \in Nodes PROVE View(clocks[n], known[n])
    BY DEF Init, View, Behind, Exact, Carries, Clock, NoClock
  <1> QED BY <1>1, <1>2 DEF IInv, Init

\* Increment makes a version from the view of the manager.
LEMMA IncrementKeeps ==
    ASSUME IInv, NEW n \in Nodes, NEW ts \in Timestamps, Increment(n, ts)
    PROVE  IInv'
  <1> DEFINE w == [node |-> n, version |-> Incremented(clocks[n], n), timestamp |-> ts,
                   past |-> known[n] \cup {<<n, clocks[n][n] + 1>>}]
  <1>0. TypeOK /\ clocks[n] \in Clock /\ known[n] \in SUBSET Event /\ clocks[n][n] \in Nat
    BY DEF IInv, TypeOK, Clock
  <1>1. Incremented(clocks[n], n) \in Clock /\ Incremented(clocks[n], n)[n] = clocks[n][n] + 1
    BY <1>0, ClockOps
  <1>2. Merge(clocks[n], Incremented(clocks[n], n)) = Incremented(clocks[n], n)
    <2>1. \A k \in Nodes : Merge(clocks[n], Incremented(clocks[n], n))[k] = Incremented(clocks[n], n)[k]
      BY <1>0, <1>1 DEF Merge, Incremented, Clock
    <2>2. Merge(clocks[n], Incremented(clocks[n], n)) \in Clock
      BY <1>0, <1>1, ClockOps
    <2> QED BY <2>1, <2>2, <1>1 DEF Clock
  <1>3. w \in Version
    BY <1>0, <1>1 DEF Version, Event
  <1>4. Makes(n, clocks[n], known[n], w)
    <2>1. w.node = n /\ w.version = Incremented(clocks[n], n)
          /\ w.past = known[n] \cup {<<n, clocks[n][n] + 1>>}
      OBVIOUS
    <2>2. /\ versions' = versions \cup {w}
          /\ clocks' = [clocks EXCEPT ![n] = w.version]
          /\ known' = [known EXCEPT ![n] = w.past]
          /\ reused' = reused
      BY <1>1 DEF Increment
    <2>3. known[n] \cup w.past = w.past
      BY <2>1
    <2>4. ~(clocks[n][n] + 1 <= clocks[n][n])
      BY <1>0
    <2> HIDE DEF w
    <2> QED BY <2>1, <2>2, <2>3, <2>4, <1>2, <1>3 DEF Makes
  <1>5. View(clocks[n], known[n])
    BY DEF IInv
  <1> HIDE DEF w
  <1> QED BY <1>4, <1>5, MakesKeeps

\* A step that makes no version preserves the invariant if counts of nodes
\* that do not reuse them do not fall and the managers keep views.
LEMMA QuietKeeps ==
    ASSUME IInv, TypeOK', versions' = versions, reused \subseteq reused',
           \A a \in Nodes \ reused' : clocks[a][a] <= clocks'[a][a],
           \A n \in Nodes : View(clocks[n], known[n])'
    PROVE  IInv'
  <1>1. \A clk, p : View(clk, p) => View(clk, p)'
    BY ViewKept DEF IInv
  <1>2. ASSUME NEW u \in versions PROVE (View(u.version, u.past) /\ Newest(u))'
    <2>1. View(u.version, u.past) /\ Newest(u)
      BY DEF IInv
    <2>2. View(u.version, u.past)'
      BY <2>1, <1>1
    <2>3. Newest(u)'
      BY <2>1 DEF Newest, EventOf
    <2> QED BY <2>2, <2>3
  <1> QED BY <1>2 DEF IInv

\* Update joins the views of the manager and of a version.
LEMMA UpdateKeeps ==
    ASSUME IInv, NEW n \in Nodes, NEW v \in versions, Update(n, v)
    PROVE  IInv'
  <1>0. TypeOK /\ v \in Version /\ clocks[n] \in Clock /\ v.version \in Clock
        /\ known[n] \in SUBSET Event /\ v.past \in SUBSET Event
        /\ versions' = versions /\ reused' = reused
    BY DEF IInv, TypeOK, Version, Update
  <1>1. TypeOK'
    BY <1>0, ClockOps DEF TypeOK, Update
  <1>2. /\ clocks'[n] = Merge(clocks[n], v.version) /\ known'[n] = known[n] \cup v.past
        /\ \A m \in Nodes \ {n} : clocks'[m] = clocks[m] /\ known'[m] = known[m]
    BY <1>0 DEF TypeOK, Update
  <1>3. ASSUME NEW a \in Nodes PROVE clocks[a][a] <= clocks'[a][a]
    <2>1. CASE a = n
      BY <2>1, <1>0, <1>2 DEF Merge, Clock
    <2>2. CASE a # n
      BY <2>2, <1>0, <1>2 DEF TypeOK, Clock
    <2> QED BY <2>1, <2>2
  <1>4. \A clk, p : View(clk, p) => View(clk, p)'
    BY <1>0, <1>1, <1>3, ViewKept
  <1>5. View(clocks[n], known[n])'
    <2>1. View(clocks[n], known[n]) /\ View(v.version, v.past)
      BY DEF IInv
    <2>2. \A a, p, b, q : View(a, p) /\ View(b, q) => View(Merge(a, b), p \cup q)
      BY <1>0, ViewJoin
    <2>3. View(Merge(clocks[n], v.version), known[n] \cup v.past)
      BY <2>1, <2>2
    <2>4. \A clk, p : View(clk, p) /\ clk = clocks'[n] /\ p = known'[n] => View(clocks[n], known[n])'
      BY <1>4
    <2> QED BY <2>3, <2>4, <1>2
  <1>6. ASSUME NEW m \in Nodes, m # n PROVE View(clocks[m], known[m])'
    <2>1. View(clocks[m], known[m])
      BY DEF IInv
    <2>2. \A clk, p : View(clk, p) /\ clk = clocks'[m] /\ p = known'[m] => View(clocks[m], known[m])'
      BY <1>4
    <2> QED BY <2>1, <2>2, <1>2, <1>6
  <1> QED BY <1>0, <1>1, <1>3, <1>5, <1>6, QuietKeeps

\* Set and Delete replace the view of the manager by another view.
LEMMA ReplaceKeeps ==
    ASSUME IInv, NEW n \in Nodes, NEW vc, NEW past, View(vc, past), Replace(n, vc, past)
    PROVE  IInv'
  <1>0. TypeOK /\ vc \in Clock /\ past \in SUBSET Event /\ versions' = versions
        /\ reused \subseteq reused'
    BY DEF IInv, View, Replace
  <1>1. TypeOK'
    BY <1>0 DEF TypeOK, Replace
  <1>2. /\ clocks'[n] = vc /\ known'[n] = past
        /\ \A m \in Nodes \ {n} : clocks'[m] = clocks[m] /\ known'[m] = known[m]
    BY <1>0 DEF TypeOK, Replace
  <1>3. ASSUME NEW a \in Nodes \ reused' PROVE clocks[a][a] <= clocks'[a][a]
    <2>1. CASE a = n
      BY <2>1, <1>0, <1>2 DEF Replace, TypeOK, Clock
    <2>2. CASE a # n
      BY <2>2, <1>0, <1>2 DEF TypeOK, Clock
    <2> QED BY <2>1, <2>2
  <1>4. \A clk, p : View(clk, p) => View(clk, p)'
    BY <1>0, <1>1, <1>3, ViewKept
  <1>5. ASSUME NEW m \in Nodes PROVE View(clocks[m], known[m])'
    <2>1. View(clocks[m], known[m]) /\ View(vc, past)
      BY DEF IInv
    <2>2. \A clk, p : View(clk, p) /\ clk = clocks'[m] /\ p = known'[m] => View(clocks[m], known[m])'
      BY <1>4
    <2> QED BY <2>1, <2>2, <1>2
  <1> QED BY <1>0, <1>1, <1>3, <1>5, QuietKeeps

\* The empty clock is a view of nothing.
LEMMA EmptyView == ASSUME TypeOK PROVE View(NoClock, {})
  BY DEF View, Behind, Exact, Carries, NoClock, Clock, TypeOK

\* The resolver returns one of two entries.
LEMMA ResolveOfTwo ==
    ASSUME NEW e \in Version, NEW f \in Version, NEW strategy
    PROVE  Resolve(strategy, <<e, f>>) \in {e, f}
  <1>1. e.timestamp \in Nat /\ f.timestamp \in Nat
    BY VersioningConstants DEF Version
  <1>2. ASSUME NEW I, I \in SUBSET {1, 2}, I # {}
        PROVE  ResolveByTimestamp(<<e, f>>, I) \in {e, f}
    <2> DEFINE IsLatest(i) ==
                 \A j \in I : \/ <<e, f>>[j].timestamp < <<e, f>>[i].timestamp
                              \/ <<e, f>>[j].timestamp = <<e, f>>[i].timestamp /\ i <= j
    <2>1. \E i \in I : IsLatest(i)
      <3>1. CASE I = {1} \/ I = {2}
        BY <3>1, <1>1
      <3>2. CASE I = {1, 2}
        BY <3>2, <1>1
      <3> QED BY <3>1, <3>2, <1>2
    <2>2. ResolveByTimestamp(<<e, f>>, I) = <<e, f>>[CHOOSE i \in I : IsLatest(i)]
      BY DEF ResolveByTimestamp
    <2> HIDE DEF IsLatest
    <2> DEFINE c == CHOOSE i \in I : IsLatest(i)
    <2>3. c \in {1, 2}
      BY <2>1, <1>2
    <2> HIDE DEF c
    <2>4. <<e, f>>[c] \in {e, f}
      BY <2>3
    <2> QED BY <2>2, <2>4 DEF c
  <1>3. DOMAIN <<e, f>> = {1, 2}
    OBVIOUS
  <1>4. Candidates(<<e, f>>) \in SUBSET {1, 2} /\ Candidates(<<e, f>>) # {}
    <2>1. ~(Compare(e.version, f.version) = "less" /\ Compare(f.version, e.version) = "less")
      <3>1. \A n \in Nodes : e.version[n] \in Nat /\ f.version[n] \in Nat
        BY DEF Version, Clock
      <3> QED BY <3>1 DEF Compare
    <2> HIDE DEF Compare
    <2> QED BY <1>3, <2>1 DEF Candidates
  <1> QED BY <1>2, <1>3, <1>4 DEF Resolve, ResolveByVectorClock

\* Resolver.Merge makes a version from the joined views of its entries.
LEMMA ReconcileKeeps ==
    ASSUME IInv, NEW n \in Nodes, NEW strategy, NEW e \in versions, NEW f \in versions,
           Reconcile(n, strategy, e, f)
    PROVE  IInv'
  <1> DEFINE r == Resolve(strategy, <<e, f>>)
             base == Merge(e.version, f.version)
             past == e.past \cup f.past
             m == [r EXCEPT !.version = Incremented(base, n)]
             w == [m EXCEPT !.node = n, !.past = past \cup {<<n, base[n] + 1>>}]
  <1>0. TypeOK /\ e \in Version /\ f \in Version
    BY DEF IInv, TypeOK
  <1>1. r \in Version
    BY <1>0, ResolveOfTwo
  <1>2. View(base, past)
    <2>1. View(e.version, e.past) /\ View(f.version, f.past)
      BY DEF IInv
    <2> QED BY <1>0, <2>1, ViewJoin
  <1>3. base \in Clock /\ past \in SUBSET Event /\ base[n] \in Nat
    BY <1>2 DEF View, Clock
  <1>4. Incremented(base, n) \in Clock /\ Incremented(base, n)[n] = base[n] + 1
    BY <1>3, ClockOps
  <1>5. ResolverMerge(strategy, <<e, f>>, n) = m
    BY <1>0, MergedClockOfTwo DEF ResolverMerge
  <1>6. m \in Version /\ m.version = Incremented(base, n)
    <2> HIDE DEF r, base
    <2> QED BY <1>1, <1>4 DEF Version
  <1>7. /\ w \in Version /\ w.node = n /\ w.version = Incremented(base, n)
        /\ w.past = past \cup {<<n, base[n] + 1>>}
    <2>1. past \cup {<<n, base[n] + 1>>} \in SUBSET Event
      BY <1>3 DEF Event
    <2> HIDE DEF r, base, past, m
    <2> QED BY <1>6, <2>1 DEF Version
  <1>8. /\ versions' = versions \cup {w}
        /\ clocks' = [clocks EXCEPT ![n] = Merge(@, w.version)]
        /\ known' = [known EXCEPT ![n] = @ \cup w.past]
        /\ reused' = IF base[n] + 1 <= clocks[n][n] THEN reused \cup {n} ELSE reused
    <2>1. /\ versions' = versions \cup {[ResolverMerge(strategy, <<e, f>>, n) EXCEPT
                 !.node = n,
                 !.past = past \cup {<<n, ResolverMerge(strategy, <<e, f>>, n).version[n]>>}]}
          /\ clocks' = [clocks EXCEPT ![n] = Merge(@, ResolverMerge(strategy, <<e, f>>, n).version)]
          /\ known' = [known EXCEPT ![n] =
                 @ \cup (past \cup {<<n, ResolverMerge(strategy, <<e, f>>, n).version[n]>>})]
          /\ reused' = IF ResolverMerge(strategy, <<e, f>>, n).version[n] <= clocks[n][n]
                       THEN reused \cup {n} ELSE reused
      BY Zenon DEF Reconcile
    <2> HIDE DEF r, base, past, m
    <2> QED BY <2>1, <1>4, <1>5, <1>6, <1>7, Zenon
  <1> HIDE DEF w, m, base, past, r
  <1>9. Makes(n, base, past, w)
    BY <1>7, <1>8 DEF Makes
  <1> QED BY <1>2, <1>9, MakesKeeps

-----------------------------------------------------------------------------
(***************************************************************************)
(* The theorems.                                                           *)
(***************************************************************************)

LEMMA Inductive == IInv /\ [Next]_vars => IInv'
  <1> SUFFICES ASSUME IInv, [Next]_vars PROVE IInv'
    OBVIOUS
  <1>1. ASSUME NEW n \in Nodes, NEW ts \in Timestamps, Increment(n, ts) PROVE IInv'
    BY <1>1, IncrementKeeps
  <1>2. ASSUME NEW n \in Nodes, NEW v \in versions, Update(n, v) PROVE IInv'
    BY <1>2, UpdateKeeps
  <1>3. ASSUME NEW n \in Nodes, NEW v \in versions, Set(n, v) PROVE IInv'
    <2>1. View(v.version, v.past)
      BY DEF IInv
    <2> QED BY <1>3, <2>1, ReplaceKeeps DEF Set
  <1>4. ASSUME NEW n \in Nodes, Delete(n) PROVE IInv'
    <2>1. View(NoClock, {})
      BY EmptyView DEF IInv
    <2> QED BY <1>4, <2>1, ReplaceKeeps DEF Delete
  <1>5. ASSUME NEW n \in Nodes, NEW e \in versions, NEW f \in versions,
               NEW strategy \in Strategies, Reconcile(n, strategy, e, f)
        PROVE  IInv'
    BY <1>5, ReconcileKeeps
  <1>6. CASE UNCHANGED vars
    <2>1. TypeOK' /\ versions' = versions /\ reused' = reused /\ clocks' = clocks /\ known' = known
      BY <1>6 DEF vars, IInv, TypeOK
    <2> QED BY <2>1 DEF IInv, View, Behind, Exact, Carries, Newest, EventOf
  <1> QED BY <1>1, <1>2, <1>3, <1>4, <1>5, <1>6 DEF Next

\* The types, for every set of nodes.
THEOREM TypeCorrect == Spec => []TypeOK
  <1>1. IInv => TypeOK
    BY DEF IInv
  <1> QED BY <1>1, InitIInv, Inductive, PTL DEF Spec

\* The order of clocks is causality for every number of nodes and versions and
\* every sequence of Increment, Update, Set, Delete and Resolver.Merge, as long
\* as the node whose version is looked for has not reused a count.
THEOREM Causality == Spec => []ClocksTrackCausality
  <1>1. IInv => ClocksTrackCausality
    <2> SUFFICES ASSUME IInv, NEW v \in versions, NEW w \in versions, v.node \notin reused
                 PROVE  HappensBefore(v.version, w.version) <=> EventOf(v) \in w.past /\ v # w
      BY DEF ClocksTrackCausality
    <2>0. v \in Version /\ w \in Version
      BY DEF IInv, TypeOK
    <2>1. /\ v.node \in Nodes \ reused /\ w.node \in Nodes
          /\ \A n \in Nodes : v.version[n] \in Nat /\ w.version[n] \in Nat
      BY <2>0 DEF Version, Clock
    <2>2. View(w.version, w.past) /\ Newest(w) /\ Newest(v)
      BY DEF IInv
    <2>3. HappensBefore(v.version, w.version) <=>
             /\ \A n \in Nodes : v.version[n] <= w.version[n]
             /\ \E n \in Nodes : v.version[n] < w.version[n]
      BY <2>1 DEF HappensBefore, Compare
    <2>4. ASSUME HappensBefore(v.version, w.version) PROVE EventOf(v) \in w.past /\ v # w
      <3>1. v.version[v.node] >= 1 /\ v.version[v.node] <= w.version[v.node]
        BY <2>1, <2>2, <2>3, <2>4 DEF Newest
      <3>2. EventOf(v) \in w.past
        BY <3>1, <2>1, <2>2 DEF View, Exact, EventOf
      <3>3. v # w
        BY <2>1, <2>3, <2>4
      <3> QED BY <3>2, <3>3
    <2>5. ASSUME EventOf(v) \in w.past, v # w PROVE HappensBefore(v.version, w.version)
      <3>1. \A n \in Nodes : v.version[n] <= w.version[n]
        BY <2>2, <2>5 DEF View, Carries
      <3>2. v.version[w.node] < w.version[w.node]
        BY <2>2, <2>5 DEF Newest
      <3> QED BY <3>1, <3>2, <2>1, <2>3
    <2> QED BY <2>4, <2>5
  <1> QED BY <1>1, InitIInv, Inductive, PTL DEF Spec

-----------------------------------------------------------------------------
(***************************************************************************)
(* The resolver on three entries.                                          *)
(***************************************************************************)

\* Of any of three entries there is a first one with the latest timestamp.
LEMMA LatestOfThree ==
    ASSUME NEW s \in [{1, 2, 3} -> Version], NEW I \in SUBSET {1, 2, 3}, I # {}
    PROVE  \E i \in I : ResolveByTimestamp(s, I) = s[i]
  <1> DEFINE IsLatest(i) == \A j \in I : \/ s[j].timestamp < s[i].timestamp
                                         \/ s[j].timestamp = s[i].timestamp /\ i <= j
             t1 == s[1].timestamp
             t2 == s[2].timestamp
             t3 == s[3].timestamp
  <1>1. t1 \in Nat /\ t2 \in Nat /\ t3 \in Nat
    BY VersioningConstants DEF Version
  <1>2. \E i \in I : IsLatest(i)
    <2>1. CASE I = {1} \/ I = {2} \/ I = {3}
      BY <2>1, <1>1
    <2>2. CASE I = {1, 2} \/ I = {1, 3} \/ I = {2, 3}
      BY <2>2, <1>1
    <2>3. CASE I = {1, 2, 3}
      BY <2>3, <1>1
    <2>4. \/ I = {1} \/ I = {2} \/ I = {3}
          \/ I = {1, 2} \/ I = {1, 3} \/ I = {2, 3} \/ I = {1, 2, 3}
      OBVIOUS
    <2> QED BY <2>1, <2>2, <2>3, <2>4
  <1>3. ResolveByTimestamp(s, I) = s[CHOOSE i \in I : IsLatest(i)]
    BY DEF ResolveByTimestamp
  <1> HIDE DEF IsLatest
  <1>4. (CHOOSE i \in I : IsLatest(i)) \in I
    BY <1>2
  <1> QED BY <1>3, <1>4

\* Compare is a strict order.
LEMMA CompareOrder ==
    ASSUME NEW a \in Clock, NEW b \in Clock, NEW c \in Clock
    PROVE  /\ ~(Compare(a, b) = "less" /\ Compare(b, a) = "less")
           /\ Compare(a, b) = "less" /\ Compare(b, c) = "less" => Compare(a, c) = "less"
  <1>1. \A n \in Nodes : a[n] \in Nat /\ b[n] \in Nat /\ c[n] \in Nat
    BY DEF Clock
  <1>2. ~(Compare(a, b) = "less" /\ Compare(b, a) = "less")
    BY <1>1 DEF Compare
  <1>3. ASSUME Compare(a, b) = "less", Compare(b, c) = "less" PROVE Compare(a, c) = "less"
    <2>1. \A n \in Nodes : a[n] <= b[n] /\ b[n] <= c[n]
      BY <1>1, <1>3 DEF Compare
    <2>2. PICK n \in Nodes : a[n] < b[n]
      BY <1>3 DEF Compare
    <2>3. a[n] < c[n]
      BY <1>1, <2>1, <2>2
    <2>4. ~ \E k \in Nodes : a[k] > c[k]
      BY <1>1, <2>1
    <2> QED BY <2>3, <2>4 DEF Compare
  <1> QED BY <1>2, <1>3

\* Some of three entries is not dominated, and the resolver picks such a one.
LEMMA ResolveOfThree ==
    ASSUME NEW s \in [{1, 2, 3} -> Version], NEW strategy
    PROVE  \E i \in {1, 2, 3} :
              /\ Resolve(strategy, s) = s[i]
              /\ strategy = "VectorClockBased" => i \in Candidates(s)
  <1>1. DOMAIN s = {1, 2, 3}
    OBVIOUS
  <1>2. Candidates(s) # {}
    <2> DEFINE Less(i, j) == Compare(s[i].version, s[j].version) = "less"
    <2>0. \A i \in {1, 2, 3} : s[i].version \in Clock
      BY DEF Version
    <2>1. \A i, j, k \in {1, 2, 3} : ~(Less(i, j) /\ Less(j, i)) /\ (Less(i, j) /\ Less(j, k) => Less(i, k))
      BY <2>0, CompareOrder
    <2>2. Candidates(s) = {i \in {1, 2, 3} : ~ \E j \in {1, 2, 3} : j # i /\ Less(i, j)}
      BY <1>1 DEF Candidates
    <2> HIDE DEF Less
    <2> SUFFICES ASSUME \A i \in {1, 2, 3} : \E j \in {1, 2, 3} : j # i /\ Less(i, j)
                 PROVE  FALSE
      BY <2>2
    <2>3. (Less(1, 2) \/ Less(1, 3)) /\ (Less(2, 1) \/ Less(2, 3)) /\ (Less(3, 1) \/ Less(3, 2))
      OBVIOUS
    <2> QED BY <2>1, <2>3
  <1>3. Candidates(s) \in SUBSET {1, 2, 3}
    BY <1>1 DEF Candidates
  <1>4. CASE strategy = "VectorClockBased"
    <2>1. Resolve(strategy, s) = ResolveByTimestamp(s, Candidates(s))
      BY <1>4 DEF Resolve, ResolveByVectorClock
    <2> QED BY <2>1, <1>2, <1>3, LatestOfThree
  <1>5. CASE strategy # "VectorClockBased"
    <2>1. Resolve(strategy, s) = ResolveByTimestamp(s, {1, 2, 3})
      BY <1>1, <1>5 DEF Resolve
    <2> QED BY <2>1, <1>5, LatestOfThree
  <1> QED BY <1>4, <1>5

\* Three versions as a sequence of entries.
LEMMA ThreeEntries ==
    ASSUME NEW u \in Version, NEW v \in Version, NEW w \in Version
    PROVE  /\ <<u, v, w>> \in [{1, 2, 3} -> Version]
           /\ <<u, v, w>>[1] = u /\ <<u, v, w>>[2] = v /\ <<u, v, w>>[3] = w
  OBVIOUS

\* resolveByVectorClock never discards a version for one that it was made from.
THEOREM WinnersNotSuperseded == Spec => []WinnerNotSuperseded
  <1>1. TypeOK /\ ClocksTrackCausality => WinnerNotSuperseded
    <2> SUFFICES ASSUME TypeOK, ClocksTrackCausality,
                        NEW u \in versions, NEW v \in versions, NEW w \in versions,
                        Resolve("VectorClockBased", <<u, v, w>>).node \notin reused,
                        NEW x \in {u, v, w},
                        x # Resolve("VectorClockBased", <<u, v, w>>),
                        EventOf(Resolve("VectorClockBased", <<u, v, w>>)) \in x.past
                 PROVE  FALSE
      BY DEF WinnerNotSuperseded
    <2> DEFINE s == <<u, v, w>>
    <2>1. s \in [{1, 2, 3} -> Version] /\ s[1] = u /\ s[2] = v /\ s[3] = w
      BY ThreeEntries DEF TypeOK
    <2>2. \A k \in {1, 2, 3} : s[k] \in versions
      BY <2>1
    <2>3. PICK j \in {1, 2, 3} : x = s[j]
      BY <2>1
    <2> HIDE DEF s
    <2>4. PICK i \in {1, 2, 3} : Resolve("VectorClockBased", s) = s[i] /\ i \in Candidates(s)
      BY <2>1, ResolveOfThree
    <2>5. HappensBefore(s[i].version, s[j].version)
      <3>1. s[i] \in versions /\ s[j] \in versions /\ s[i].node \notin reused
            /\ EventOf(s[i]) \in s[j].past /\ s[i] # s[j]
        BY <2>2, <2>3, <2>4 DEF s
      <3> QED BY <3>1 DEF ClocksTrackCausality
    <2>6. i # j
      BY <2>3, <2>4 DEF s
    <2>7. DOMAIN s = {1, 2, 3}
      BY <2>1
    <2> QED BY <2>4, <2>5, <2>6, <2>7 DEF Candidates, HappensBefore
  <1> QED BY <1>1, TypeCorrect, Causality, PTL

\* Resolver.Merge returns something newer than every one of its entries.
THEOREM MergesSupersede == Spec => []MergeSupersedes
  <1>1. TypeOK => MergeSupersedes
    <2> SUFFICES ASSUME TypeOK, NEW u \in versions, NEW v \in versions, NEW w \in versions,
                        NEW n \in Nodes, NEW strategy \in Strategies, NEW x \in {u, v, w}
                 PROVE  HappensBefore(x.version, ResolverMerge(strategy, <<u, v, w>>, n).version)
      BY DEF MergeSupersedes
    <2> DEFINE s == <<u, v, w>>
    <2>1. s \in [{1, 2, 3} -> Version] /\ s[1] = u /\ s[2] = v /\ s[3] = w
      BY ThreeEntries DEF TypeOK
    <2>2. PICK i \in {1, 2, 3} : x = s[i]
      BY <2>1
    <2> HIDE DEF s
    <2>3. Resolve(strategy, s) \in Version
      BY <2>1, ResolveOfThree
    <2>4. ResolverMerge(strategy, s, n).version = Incremented(MergedClock(s), n)
      <3> DEFINE r == Resolve(strategy, s)
                 vc == Incremented(MergedClock(s), n)
      <3>1. ResolverMerge(strategy, s, n) = [r EXCEPT !.version = vc]
        BY DEF ResolverMerge
      <3>2. r \in Version
        BY <2>3
      <3> HIDE DEF r, vc
      <3>3. [r EXCEPT !.version = vc].version = vc
        BY <3>2 DEF Version
      <3> QED BY <3>1, <3>3 DEF vc
    <2>5. ASSUME NEW k \in Nodes
          PROVE  MergedClock(s)[k] \in Nat /\ x.version[k] \in Nat /\ x.version[k] <= MergedClock(s)[k]
      <3> DEFINE a == s[1].version[k]
                 b == s[2].version[k]
                 c == s[3].version[k]
      <3>1. a \in Nat /\ b \in Nat /\ c \in Nat
        BY <2>1 DEF Version, Clock
      <3>2. MergedClock(s)[k] = Largest({a, b, c})
        <4>1. {s[j].version[k] : j \in DOMAIN s} = {a, b, c}
          BY <2>1
        <4> QED BY <4>1 DEF MergedClock
      <3>3. x.version[k] \in {a, b, c}
        BY <2>2
      <3> HIDE DEF a, b, c
      <3>4. \E d \in {a, b, c} : \A g \in {a, b, c} : g <= d
        BY <3>1
      <3>5. Largest({a, b, c}) \in {a, b, c} /\ \A g \in {a, b, c} : g <= Largest({a, b, c})
        BY <3>4 DEF Largest
      <3> QED BY <3>1, <3>2, <3>3, <3>5
    <2>6. \A k \in Nodes : Incremented(MergedClock(s), n)[k] =
                              IF k = n THEN MergedClock(s)[k] + 1 ELSE MergedClock(s)[k]
      BY DEF Incremented, MergedClock
    <2>7. HappensBefore(x.version, Incremented(MergedClock(s), n))
      BY <2>5, <2>6 DEF HappensBefore, Compare
    <2> QED BY <2>4, <2>7 DEF s
  <1> QED BY <1>1, TypeCorrect, PTL

=============================================================================
