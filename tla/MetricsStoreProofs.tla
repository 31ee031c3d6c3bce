-------------------------- MODULE MetricsStoreProofs --------------------------
(***************************************************************************)
(* Proofs about MetricsHistory and MetricsStore, for any nodes, feeds,     *)
(* intervals, retention times and limits the assumptions allow.            *)
(***************************************************************************)
EXTENDS MetricsStore, FiniteSetTheorems, TLAPS

(***************************************************************************)
(* Division, and how many points fit into a range.                         *)
(***************************************************************************)

LEMMA DivisionBounds ==
  ASSUME NEW a \in Int, NEW k \in Nat \ {0}
  PROVE  /\ a \div k \in Int
         /\ k * (a \div k) <= a
         /\ a < k * (a \div k) + k
OBVIOUS

LEMMA ProductsOrdered ==
  ASSUME NEW a \in Int, NEW b \in Int, NEW k \in Nat, a <= b
  PROVE  k * a <= k * b
OBVIOUS

LEMMA FactorsOrdered ==
  ASSUME NEW a \in Int, NEW b \in Int, NEW k \in Nat \ {0}, k * a < k * b
  PROVE  a < b
OBVIOUS

LEMMA MultipleDivided ==
  ASSUME NEW m \in Int, NEW k \in Nat \ {0}
  PROVE  (m * k) \div k = m
OBVIOUS

LEMMA DivisionOrdered ==
  ASSUME NEW a \in Int, NEW b \in Int, NEW k \in Nat \ {0}, a <= b
  PROVE  a \div k <= b \div k
<1> DEFINE p == a \div k
           q == b \div k
<1>1. p \in Int /\ q \in Int /\ k * p <= a /\ b < k * q + k
  BY DivisionBounds
<1>2. k * (q + 1) = k * q + k
  BY <1>1
<1>3. k * p < k * (q + 1)
  BY <1>1, <1>2
<1>4. p < q + 1
  BY <1>1, <1>3, FactorsOrdered
<1> QED
  BY <1>1, <1>4

\* Times that are k apart and within a range are few.
LEMMA SpacedAreFew ==
  ASSUME NEW a \in Int, NEW span \in Nat, NEW k \in Nat \ {0},
         NEW T, T \subseteq a..(a + span),
         \A t, u \in T : t < u => u - t >= k
  PROVE  IsFiniteSet(T) /\ Cardinality(T) <= span \div k + 1
<1> DEFINE f == [t \in T |-> (t - a) \div k]
           top == span \div k
<1>1. top \in Int /\ 0 <= top
  <2>1. 0 \div k = 0
    BY MultipleDivided, 0 * k = 0
  <2> QED
    BY <2>1, DivisionBounds, DivisionOrdered
<1>2. ASSUME NEW t \in T PROVE f[t] \in 0..top
  <2>1. t - a \in Int /\ 0 <= t - a /\ t - a <= span
    OBVIOUS
  <2>2. 0 \div k = 0
    BY MultipleDivided, 0 * k = 0
  <2>3. (t - a) \div k \in Int /\ 0 <= (t - a) \div k /\ (t - a) \div k <= top
    BY <2>1, <2>2, DivisionBounds, DivisionOrdered
  <2> QED
    BY <2>3
<1>3. ASSUME NEW t \in T, NEW u \in T, t < u PROVE f[t] # f[u]
  <2>1. t - a \in Int /\ u - a \in Int /\ (u - a) - (t - a) >= k
    BY <1>3
  <2>2. /\ f[t] \in Int /\ f[u] \in Int
        /\ k * f[t] <= t - a
        /\ u - a < k * f[u] + k /\ t - a < k * f[t] + k
        /\ k * f[u] <= u - a
    BY <2>1, DivisionBounds
  <2> QED
    BY <2>1, <2>2
<1>4. f \in Injection(T, 0..top)
  <2>1. \A t, u \in T : f[t] = f[u] => t = u
    <3> SUFFICES ASSUME NEW t \in T, NEW u \in T, t # u PROVE f[t] # f[u]
      OBVIOUS
    <3>1. t \in Int /\ u \in Int
      OBVIOUS
    <3>2. t < u \/ u < t
      BY <3>1
    <3> QED
      BY <3>2, <1>3
  <2> HIDE DEF f
  <2>2. f \in [T -> 0..top]
    BY <1>2 DEF f
  <2> QED
    BY <2>1, <2>2 DEF Injection, IsInjective
<1> HIDE DEF f, top
<1>5. IsFiniteSet(0..top) /\ Cardinality(0..top) = top + 1
  <2>1. 0 \in Int /\ top \in Int
    BY <1>1
  <2>2. /\ IsFiniteSet(0..top)
        /\ Cardinality(0..top) = IF 0 > top THEN 0 ELSE top - 0 + 1
    BY <2>1, FS_Interval, Zenon
  <2> QED
    BY <1>1, <2>2
<1>6. IsFiniteSet(T) /\ Cardinality(T) <= Cardinality(0..top)
  BY <1>4, <1>5, FS_Injection
<1> QED
  BY <1>5, <1>6 DEF top

\* A range meets few buckets.
LEMMA BucketsAreFew ==
  ASSUME NEW a \in Int, NEW span \in Nat, NEW k \in Nat \ {0},
         NEW T, T \subseteq a..(a + span),
         NEW P, P = {(t \div k) * k : t \in T}
  PROVE  IsFiniteSet(P) /\ Cardinality(P) <= span \div k + 2
<1> DEFINE g == [p \in P |-> p \div k]
           lo == a \div k
           hi == (a + span) \div k
           w == span \div k
<1>1. lo \in Int /\ hi \in Int /\ w \in Int /\ lo <= hi
  BY DivisionBounds, DivisionOrdered
<1>2. hi <= lo + w + 1
  <2>1. k * hi <= a + span /\ a < k * lo + k /\ span < k * w + k
    BY DivisionBounds
  <2>2. k * (lo + w + 2) = k * lo + k * w + k + k
    BY <1>1
  <2>3. k * hi \in Int /\ k * lo \in Int /\ k * w \in Int /\ k * (lo + w + 2) \in Int
    BY <1>1
  <2>4. k * hi < k * (lo + w + 2)
    BY <2>1, <2>2, <2>3
  <2>5. hi < lo + w + 2
    BY <1>1, <2>4, FactorsOrdered
  <2> QED
    BY <1>1, <2>5
<1>3. ASSUME NEW p \in P PROVE g[p] \in lo..hi /\ p = g[p] * k
  <2>1. PICK t \in T : p = (t \div k) * k
    OBVIOUS
  <2>2. t \in Int /\ a <= t /\ t <= a + span
    OBVIOUS
  <2>3. t \div k \in Int /\ lo <= t \div k /\ t \div k <= hi
    BY <2>2, DivisionBounds, DivisionOrdered
  <2>4. g[p] = t \div k
    BY <2>1, <2>3, MultipleDivided
  <2> QED
    BY <1>1, <2>1, <2>3, <2>4
<1> HIDE DEF g, lo, hi, w
<1>4. g \in Injection(P, lo..hi)
  <2>1. g \in [P -> lo..hi]
    BY <1>3 DEF g
  <2>2. \A p, r \in P : g[p] = g[r] => p = r
    BY <1>3
  <2> QED
    BY <2>1, <2>2 DEF Injection, IsInjective
<1>5. IsFiniteSet(lo..hi) /\ Cardinality(lo..hi) = hi - lo + 1
  <2>1. /\ IsFiniteSet(lo..hi)
        /\ Cardinality(lo..hi) = IF lo > hi THEN 0 ELSE hi - lo + 1
    BY <1>1, FS_Interval, Zenon
  <2> QED
    BY <1>1, <2>1
<1>6. IsFiniteSet(P) /\ Cardinality(P) <= Cardinality(lo..hi)
  BY <1>4, <1>5, FS_Injection
<1>7. Cardinality(P) \in Nat
  BY <1>6, FS_CardinalityType
<1> QED
  BY <1>1, <1>2, <1>5, <1>6, <1>7 DEF w

\* A chart asks for at least as many rows as a long range has buckets.
LEMMA BucketsFitTheLimit ==
  ASSUME NEW span \in Nat
  PROVE  BucketSec(span) \in Nat \ {0} /\ span \div BucketSec(span) + 2 <= Limit
<1> DEFINE k == BucketSec(span)
           q == span \div Points
           w == Points \div MinBucket
           r == span \div k
<1>0. /\ Points \in Nat \ {0} /\ MinBucket \in Nat \ {0} /\ Limit \in Nat
      /\ Points + w + 2 <= Limit
  BY HistoryAssumption, LimitAssumption
<1>1. /\ q \in Int /\ span < Points * q + Points
      /\ w \in Int /\ Points < MinBucket * w + MinBucket
  BY <1>0, DivisionBounds
<1>2. k \in Nat \ {0} /\ q <= k /\ MinBucket <= k
  BY <1>0, <1>1 DEF BucketSec
<1>3. 0 <= w
  <2>1. 0 * MinBucket = 0
    BY <1>0
  <2>2. 0 \div MinBucket = 0
    BY <1>0, <2>1, MultipleDivided
  <2> QED
    BY <1>0, <2>2, DivisionOrdered
<1>4. r \in Int /\ k * r <= span
  BY <1>2, DivisionBounds
<1> HIDE DEF k, q, w, r
<1>5. Points * q <= Points * k
  BY <1>0, <1>1, <1>2, ProductsOrdered
<1>6. Points < k * (w + 1)
  <2>1. (w + 1) * MinBucket <= (w + 1) * k
    BY <1>0, <1>1, <1>2, <1>3, ProductsOrdered
  <2>2. (w + 1) * MinBucket = MinBucket * w + MinBucket /\ (w + 1) * k = k * (w + 1)
    BY <1>0, <1>1, <1>2
  <2>3. (w + 1) * MinBucket \in Int /\ (w + 1) * k \in Int
    BY <1>0, <1>1, <1>2
  <2> QED
    BY <1>0, <1>1, <2>1, <2>2, <2>3
<1>7. k * (Points + w + 1) = Points * k + k * (w + 1)
  BY <1>0, <1>1, <1>2
<1>8. k * r < k * (Points + w + 1)
  <2>1. /\ k * r \in Int /\ Points * q \in Int /\ Points * k \in Int
        /\ k * (w + 1) \in Int /\ k * (Points + w + 1) \in Int
    BY <1>0, <1>1, <1>2, <1>4
  <2> QED
    BY <1>0, <1>1, <1>4, <1>5, <1>6, <1>7, <2>1
<1>9. r < Points + w + 1
  BY <1>0, <1>1, <1>2, <1>4, <1>8, FactorsOrdered
<1>10. r + 2 <= Limit
  BY <1>0, <1>1, <1>4, <1>9
<1> QED
  BY <1>2, <1>10 DEF k, r

\* A limit no smaller than the number of rows cuts nothing off.
LEMMA EarliestIsAll ==
  ASSUME NEW T, T \subseteq Int, IsFiniteSet(T), NEW limit \in Nat, Cardinality(T) <= limit
  PROVE  Earliest(limit, T) = T
<1> SUFFICES ASSUME NEW t \in T PROVE Cardinality({u \in T : u < t}) < limit
  BY DEF Earliest
<1> DEFINE S == T \ {t}
           U == {u \in T : u < t}
<1>1. IsFiniteSet(S) /\ Cardinality(S) = Cardinality(T) - 1
  BY FS_RemoveElement
<1>2. U \in SUBSET S
  OBVIOUS
<1>3. IsFiniteSet(U) /\ Cardinality(U) <= Cardinality(S)
  BY <1>1, <1>2, FS_Subset
<1>4. Cardinality(U) \in Nat /\ Cardinality(T) \in Nat
  BY <1>3, FS_CardinalityType
<1> QED
  BY <1>1, <1>3, <1>4

\* Nothing is cut off a chart of spaced samples.
LEMMA QueryIsComplete ==
  ASSUME NEW T, T \subseteq Int, \A t, u \in T : t < u => u - t >= MinWrite,
         NEW to \in Int, NEW span \in Nat,
         NEW t \in T \cap (to - span)..to
  PROVE  PointOf(t, span) \in Query(T, to - span, to, Limit)
<1> DEFINE a == to - span
           R == T \cap a..to
           P == {PointOf(u, span) : u \in R}
<1>1. a \in Int /\ to - a = span /\ R \subseteq a..(a + span) /\ t \in R
  OBVIOUS
<1>2. IsFiniteSet(P) /\ Cardinality(P) <= Limit /\ P \subseteq Int
  <2>1. CASE span <= Hour
    <3>1. P = R
      BY <2>1 DEF PointOf
    <3>2. MinWrite \in Nat \ {0} /\ Hour \in Nat /\ Limit \in Nat
      BY StoreAssumption, HistoryAssumption, LimitAssumption
    <3>3. \A x, y \in R : x < y => y - x >= MinWrite
      OBVIOUS
    <3>4. IsFiniteSet(R) /\ Cardinality(R) <= span \div MinWrite + 1
      BY <1>1, <3>2, <3>3, SpacedAreFew
    <3>5. /\ span \div MinWrite \in Int /\ Hour \div MinWrite \in Int
          /\ span \div MinWrite <= Hour \div MinWrite
      BY <2>1, <3>2, DivisionBounds, DivisionOrdered
    <3>6. Cardinality(R) \in Nat
      BY <3>4, FS_CardinalityType
    <3>7. Cardinality(R) <= Limit
      BY <3>2, <3>4, <3>5, <3>6, LimitAssumption
    <3>8. R \subseteq Int
      BY <1>1
    <3> HIDE DEF P, R
    <3> QED
      BY <3>1, <3>4, <3>7, <3>8
  <2>2. CASE ~(span <= Hour)
    <3> DEFINE k == BucketSec(span)
    <3>1. P = {(u \div k) * k : u \in R}
      BY <2>2 DEF PointOf
    <3>2. k \in Nat \ {0} /\ span \div k + 2 <= Limit
      BY BucketsFitTheLimit
    <3> HIDE DEF k
    <3>3. IsFiniteSet(P) /\ Cardinality(P) <= span \div k + 2
      BY <1>1, <3>1, <3>2, BucketsAreFew
    <3>4. Cardinality(P) \in Nat /\ span \div k \in Int /\ Limit \in Nat
      BY <3>2, <3>3, FS_CardinalityType, DivisionBounds, LimitAssumption
    <3>5. P \subseteq Int
      <4>1. \A u \in R : u \div k \in Int
        BY <3>2, DivisionBounds
      <4> QED
        BY <3>1, <3>2, <4>1
    <3> QED
      BY <3>2, <3>3, <3>4, <3>5
  <2> QED
    BY <2>1, <2>2
<1>3. Earliest(Limit, P) = P
  BY <1>2, EarliestIsAll, LimitAssumption
<1>4. Query(T, a, to, Limit) = Earliest(Limit, P)
  BY <1>1 DEF Query
<1>5. PointOf(t, span) \in P
  BY <1>1
<1> QED
  BY <1>3, <1>4, <1>5

(***************************************************************************)
(* The state machine.                                                      *)
(***************************************************************************)

USE NoNodeAssumption, StoreAssumption DEF clock, register, feeds, retain

\* A feed past the choice of a node knows the node.
LocalsKnown == \A f \in Feed : pc[f] \in {"throttle", "insert"} => at[f] \in Node

Base == TypeOK /\ LocalsKnown

\* The throttle remembers the latest of the samples it knows of, inserted or pending.
LastIsLatest ==
    /\ \A s \in samples : s.fresh => s.ts <= last[s.node]
    /\ \A f \in Feed : Pending(f) => ts[f] <= last[at[f]]

LEMMA BaseInit == Init => Base
<1> SUFFICES ASSUME Init PROVE Base
  OBVIOUS
<1>1. /\ pc \in [Feed -> {"pick", "throttle", "insert"}]
      /\ at \in [Feed -> Node \cup {NoNode}]
      /\ ts \in [Feed -> Time]
  BY DEF Init, Time
<1>2. last \in [Node -> Time \cup {Never}] /\ now \in Time
  BY DEF Init, Time
<1>3. LocalsKnown
  BY DEF Init, LocalsKnown
<1> QED
  BY <1>1, <1>2, <1>3 DEF Init, Base, TypeOK

\* Retyping a set of samples as forgotten, or a part of it.
LEMMA StaleType ==
  ASSUME samples \subseteq Sample, NEW n
  PROVE  /\ Stale(n) \subseteq Sample
         /\ \A s \in Stale(n) : s.fresh => s \in samples /\ s.node # n
<1> SUFFICES ASSUME NEW s \in samples,
                    NEW t, t = [s EXCEPT !.fresh = (@ /\ s.node # n)]
             PROVE  t \in Sample /\ (t.fresh => t \in samples /\ t.node # n)
  BY DEF Stale
<1>1. s \in Sample
  OBVIOUS
<1>2. t \in Sample /\ t.node = s.node /\ t.ts = s.ts /\ (t.fresh <=> s.fresh /\ s.node # n)
  BY <1>1 DEF Sample
<1>3. t.fresh => t = s
  BY <1>1, <1>2 DEF Sample
<1> QED
  BY <1>2, <1>3

LEMMA BaseStep == Base /\ [Next]_vars => Base'
<1> SUFFICES ASSUME Base, [Next]_vars PROVE Base'
  OBVIOUS
<1> USE DEF Base
<1>1. ASSUME Tick \/ SetBack PROVE Base'
  <2>1. now' \in Time
    BY <1>1 DEF Tick, SetBack, TypeOK, Time
  <2> QED
    BY <1>1, <2>1 DEF Tick, SetBack, TypeOK, LocalsKnown
<1>2. ASSUME NEW n \in Node, AddRow(n) PROVE Base'
  BY <1>2 DEF AddRow, TypeOK, LocalsKnown
<1>3. ASSUME NEW n \in Node, DropThrottle(n) PROVE Base'
  <2>1. samples' \subseteq Sample
    BY <1>3, StaleType DEF DropThrottle, TypeOK
  <2>2. last' \in [Node -> Time \cup {Never}]
    BY <1>3 DEF DropThrottle, TypeOK
  <2>3. /\ fresh' \in [Feed -> BOOLEAN]
        /\ del' \in [Node -> {"none", "samples", "row"}]
    BY <1>3 DEF DropThrottle, TypeOK
  <2> QED
    BY <1>3, <2>1, <2>2, <2>3 DEF DropThrottle, TypeOK, LocalsKnown
<1>4. ASSUME NEW n \in Node, DropSamples(n) PROVE Base'
  BY <1>4 DEF DropSamples, TypeOK, LocalsKnown
<1>5. ASSUME NEW n \in Node, DropRow(n) PROVE Base'
  BY <1>5 DEF DropRow, TypeOK, LocalsKnown
<1>6. ASSUME NEW f \in Feed, ListNodes(f) PROVE Base'
  BY <1>6 DEF ListNodes, Listed, TypeOK, LocalsKnown
<1>7. ASSUME NEW f \in Feed, ReadClock(f) PROVE Base'
  <2>1. /\ pc' = [pc EXCEPT ![f] = "throttle"]
        /\ ts' = [ts EXCEPT ![f] = now]
        /\ UNCHANGED <<now, live, last, samples, fresh, del, setting, retention, applying, sweep, faults>>
    BY <1>7 DEF ReadClock, Goto
  <2>2. PICK n \in todo[f] : /\ todo' = [todo EXCEPT ![f] = @ \ {n}]
                             /\ at' = [at EXCEPT ![f] = n]
    BY <1>7 DEF ReadClock
  <2>3. n \in Node
    BY DEF TypeOK
  <2> QED
    BY <2>1, <2>2, <2>3 DEF TypeOK, LocalsKnown
<1>8. ASSUME NEW f \in Feed, Skip(f) PROVE Base'
  BY <1>8 DEF Skip, Goto, Return, TypeOK, LocalsKnown, Time
<1>9. ASSUME NEW f \in Feed, Pass(f) PROVE Base'
  <2>1. at[f] \in Node
    BY <1>9 DEF Pass, Goto, LocalsKnown
  <2> QED
    BY <1>9, <2>1 DEF Pass, Goto, TypeOK, LocalsKnown
<1>10. ASSUME NEW f \in Feed, Insert(f) PROVE Base'
  <2>1. at[f] \in Node
    BY <1>10 DEF Insert, Goto, LocalsKnown
  <2>2. SampleOf(f) \in Sample
    BY <2>1 DEF SampleOf, Sample, TypeOK
  <2>3. samples' \subseteq Sample
    BY <1>10, <2>2 DEF Insert, TypeOK
  <2> QED
    BY <1>10, <2>3 DEF Insert, Goto, Return, TypeOK, LocalsKnown, Time
<1>11. ASSUME NEW h \in Retentions, SaveSetting(h) \/ SetRetention(h) PROVE Base'
  BY <1>11 DEF SaveSetting, SetRetention, TypeOK, LocalsKnown
<1>12. ASSUME StartCleanup PROVE Base'
  <2>1. sweep' \in Time
    BY <1>12 DEF StartCleanup, CutOff, TypeOK, Time
  <2> QED
    BY <1>12, <2>1 DEF StartCleanup, TypeOK, LocalsKnown
<1>13. ASSUME DeleteOld PROVE Base'
  BY <1>13 DEF DeleteOld, Since, TypeOK, LocalsKnown
<1>14. ASSUME Restart PROVE Base'
  <2>1. PICK kept : kept \subseteq samples /\ samples' = {[s EXCEPT !.fresh = FALSE] : s \in kept}
    BY <1>14 DEF Restart, Since
  <2>2. ASSUME NEW s \in samples PROVE [s EXCEPT !.fresh = FALSE] \in Sample
    <3>1. s \in Sample
      BY DEF TypeOK
    <3> QED
      BY <3>1 DEF Sample
  <2>3. samples' \subseteq Sample
    BY <2>1, <2>2
  <2>4. /\ pc' \in [Feed -> {"pick", "throttle", "insert"}]
        /\ at' \in [Feed -> Node \cup {NoNode}]
        /\ ts' \in [Feed -> Time]
        /\ LocalsKnown'
    BY <1>14 DEF Restart, Time, LocalsKnown
  <2>5. /\ last' \in [Node -> Time \cup {Never}]
        /\ retention' \in Retentions
    BY <1>14 DEF Restart, InitialRetention, TypeOK
  <2> QED
    BY <1>14, <2>3, <2>4, <2>5 DEF Restart, TypeOK
<1>15. CASE UNCHANGED vars
  BY <1>15 DEF vars, TypeOK, LocalsKnown
<1> QED
  BY <1>1, <1>2, <1>3, <1>4, <1>5, <1>6, <1>7, <1>8, <1>9, <1>10, <1>11, <1>12, <1>13, <1>14, <1>15
     DEF Next, FeedStep, DeleteStep

\* Every variable of the store keeps its type in every behaviour (store.go:41-58).
THEOREM TypeCorrect == Spec => []TypeOK
<1>1. Spec => []Base
  BY BaseInit, BaseStep, PTL DEF Spec
<1> QED
  BY <1>1, PTL DEF Base

(***************************************************************************)
(* The throttle.                                                           *)
(***************************************************************************)

SpacedInv == Base /\ LastIsLatest /\ SamplesAreSpaced

LEMMA SpacedInit == Init => LastIsLatest /\ SamplesAreSpaced
BY DEF Init, LastIsLatest, SamplesAreSpaced, Pending

\* A step that neither adds a sample the throttle knows of nor forgets its time.
LEMMA FewerStaySpaced ==
  ASSUME SpacedInv,
         \A s \in samples' : s.fresh => s \in samples /\ last'[s.node] = last[s.node],
         \A f \in Feed : Pending(f)' =>
            Pending(f) /\ at'[f] = at[f] /\ ts'[f] = ts[f] /\ last'[at[f]] = last[at[f]]
  PROVE  LastIsLatest' /\ SamplesAreSpaced'
<1>1. LastIsLatest'
  BY DEF SpacedInv, LastIsLatest
<1>2. \A s, t \in {u \in samples' : u.fresh} :
        s.node = t.node /\ s.ts < t.ts => t.ts - s.ts >= MinWrite
  BY DEF SpacedInv, SamplesAreSpaced
<1>3. \A f \in Feed, s \in samples' : Pending(f)' /\ s.fresh /\ s.node = at'[f] =>
        ts'[f] - s.ts >= MinWrite \/ s.ts - ts'[f] >= MinWrite
  BY DEF SpacedInv, SamplesAreSpaced
<1>4. \A f, g \in Feed : f # g /\ Pending(f)' /\ Pending(g)' /\ at'[f] = at'[g] =>
        ts'[f] - ts'[g] >= MinWrite \/ ts'[g] - ts'[f] >= MinWrite
  BY DEF SpacedInv, SamplesAreSpaced
<1> QED
  BY <1>1, <1>2, <1>3, <1>4 DEF SamplesAreSpaced

\* A sample that passes the throttle is later than all it knows by an interval.
LEMMA PassStaysSpaced ==
  ASSUME SpacedInv, NEW f \in Feed, Pass(f)
  PROVE  LastIsLatest' /\ SamplesAreSpaced'
<1> DEFINE n == at[f]
<1>1. /\ pc[f] = "throttle" /\ pc' = [pc EXCEPT ![f] = "insert"]
      /\ last' = [last EXCEPT ![n] = ts[f]]
      /\ fresh' = [fresh EXCEPT ![f] = TRUE]
      /\ samples' = samples /\ at' = at /\ ts' = ts
  BY DEF Pass, Goto
<1>2. /\ n \in Node /\ ts[f] \in Nat
      /\ last \in [Node -> Time \cup {Never}]
      /\ \A g \in Feed : ts[g] \in Nat
      /\ \A g \in Feed : Pending(g) => at[g] \in Node
      /\ samples \subseteq Sample
      /\ pc \in [Feed -> {"pick", "throttle", "insert"}] /\ fresh \in [Feed -> BOOLEAN]
  BY <1>1 DEF SpacedInv, Base, TypeOK, LocalsKnown, Time, Pending
<1>3. last[n] = Never \/ ts[f] - last[n] >= MinWrite
  BY <1>2 DEF Pass, TooSoon, Time, Never
<1>4. ASSUME NEW s \in samples, s.fresh, s.node = n PROVE ts[f] - s.ts >= MinWrite
  <2>1. s.ts \in Nat /\ s.ts <= last[n]
    BY <1>2, <1>4 DEF SpacedInv, LastIsLatest, Sample, Time
  <2> QED
    BY <1>2, <1>3, <2>1 DEF Time, Never
<1>5. ASSUME NEW g \in Feed, Pending(g), at[g] = n PROVE ts[f] - ts[g] >= MinWrite
  <2>1. ts[g] \in Nat /\ ts[g] <= last[n]
    BY <1>2, <1>5 DEF SpacedInv, LastIsLatest
  <2> QED
    BY <1>2, <1>3, <2>1 DEF Time, Never
<1>6. \A g \in Feed : Pending(g)' => g = f \/ Pending(g)
  BY <1>1, <1>2 DEF Pending
<1>7. LastIsLatest'
  <2>1. ASSUME NEW s \in samples', s.fresh PROVE s.ts <= last'[s.node]
    <3>1. s.node \in Node /\ s.ts \in Nat /\ s.ts <= last[s.node]
      BY <1>1, <1>2, <2>1 DEF SpacedInv, LastIsLatest, Sample, Time
    <3> QED
      BY <1>1, <1>2, <1>4, <2>1, <3>1
  <2>2. ASSUME NEW g \in Feed, Pending(g)' PROVE ts'[g] <= last'[at'[g]]
    <3>1. CASE g = f
      BY <1>1, <1>2, <3>1
    <3>2. CASE g # f
      <4>1. Pending(g) /\ ts[g] <= last[at[g]] /\ at[g] \in Node
        BY <1>2, <1>6, <2>2, <3>2 DEF SpacedInv, LastIsLatest
      <4> QED
        BY <1>1, <1>2, <1>5, <4>1
    <3> QED
      BY <3>1, <3>2
  <2> QED
    BY <2>1, <2>2 DEF LastIsLatest
<1>8. SamplesAreSpaced'
  <2>1. \A s, t \in {u \in samples' : u.fresh} :
          s.node = t.node /\ s.ts < t.ts => t.ts - s.ts >= MinWrite
    BY <1>1 DEF SpacedInv, SamplesAreSpaced
  <2>2. ASSUME NEW g \in Feed, NEW s \in samples', Pending(g)', s.fresh, s.node = at'[g]
        PROVE  ts'[g] - s.ts >= MinWrite \/ s.ts - ts'[g] >= MinWrite
    <3>1. CASE g = f
      BY <1>1, <1>4, <2>2, <3>1
    <3>2. CASE g # f
      <4>1. Pending(g) /\ s \in samples /\ s.node = at[g]
        BY <1>1, <1>6, <2>2, <3>2
      <4> QED
        BY <1>1, <2>2, <4>1 DEF SpacedInv, SamplesAreSpaced
    <3> QED
      BY <3>1, <3>2
  <2>3. ASSUME NEW g \in Feed, NEW h \in Feed, g # h, Pending(g)', Pending(h)', at'[g] = at'[h]
        PROVE  ts'[g] - ts'[h] >= MinWrite \/ ts'[h] - ts'[g] >= MinWrite
    <3>1. CASE g = f
      <4>1. Pending(h) /\ at[h] = n
        BY <1>1, <1>6, <2>3, <3>1
      <4> QED
        BY <1>1, <1>5, <3>1, <4>1
    <3>2. CASE h = f
      <4>1. Pending(g) /\ at[g] = n
        BY <1>1, <1>6, <2>3, <3>2
      <4> QED
        BY <1>1, <1>5, <3>2, <4>1
    <3>3. CASE g # f /\ h # f
      <4>1. Pending(g) /\ Pending(h) /\ at[g] = at[h]
        BY <1>1, <1>6, <2>3, <3>3
      <4> QED
        BY <1>1, <2>3, <4>1 DEF SpacedInv, SamplesAreSpaced
    <3> QED
      BY <3>1, <3>2, <3>3
  <2> QED
    BY <2>1, <2>2, <2>3 DEF SamplesAreSpaced
<1> QED
  BY <1>7, <1>8

\* A pending sample keeps its distance when it is inserted.
LEMMA InsertStaysSpaced ==
  ASSUME SpacedInv, NEW f \in Feed, Insert(f)
  PROVE  LastIsLatest' /\ SamplesAreSpaced'
<1> DEFINE new == SampleOf(f)
<1>1. /\ pc[f] = "insert" /\ pc' = [pc EXCEPT ![f] = "pick"]
      /\ last' = last
      /\ at' = [at EXCEPT ![f] = NoNode]
      /\ ts' = [ts EXCEPT ![f] = 0]
      /\ fresh' = [fresh EXCEPT ![f] = FALSE]
      /\ samples' = samples \cup {new} \/ samples' = samples
  BY DEF Insert, Goto, Return
<1>2. /\ pc \in [Feed -> {"pick", "throttle", "insert"}] /\ fresh \in [Feed -> BOOLEAN]
      /\ at \in [Feed -> Node \cup {NoNode}] /\ ts \in [Feed -> Time]
      /\ samples \subseteq Sample
  BY DEF SpacedInv, Base, TypeOK
<1>3. ASSUME NEW g \in Feed, Pending(g)'
      PROVE  g # f /\ Pending(g) /\ at'[g] = at[g] /\ ts'[g] = ts[g]
  BY <1>1, <1>2, <1>3 DEF Pending
<1>4. CASE ~fresh[f] \/ samples' = samples
  <2>1. \A s \in samples' : s.fresh => s \in samples
    BY <1>1, <1>4 DEF SampleOf
  <2> QED
    BY <1>1, <1>3, <2>1, FewerStaySpaced
<1>5. CASE fresh[f] /\ samples' = samples \cup {new}
  <2>1. /\ Pending(f) /\ new.node = at[f] /\ new.ts = ts[f] /\ new.fresh
        /\ ts[f] \in Nat
    BY <1>1, <1>2, <1>5 DEF Pending, SampleOf, Time
  <2>2. LastIsLatest'
    BY <1>1, <1>3, <1>5, <2>1 DEF SpacedInv, LastIsLatest
  <2>3. ASSUME NEW s \in samples', NEW t \in samples', s.fresh, t.fresh, s.node = t.node, s.ts < t.ts
        PROVE  t.ts - s.ts >= MinWrite
    <3>1. CASE s \in samples /\ t \in samples
      BY <2>3, <3>1 DEF SpacedInv, SamplesAreSpaced
    <3>2. CASE s = new /\ t \in samples
      <4>1. t.ts \in Nat
        BY <1>2, <3>2 DEF Sample, Time
      <4>2. ts[f] - t.ts >= MinWrite \/ t.ts - ts[f] >= MinWrite
        BY <2>1, <2>3, <3>2 DEF SpacedInv, SamplesAreSpaced
      <4> QED
        BY <2>1, <2>3, <3>2, <4>1, <4>2
    <3>3. CASE s \in samples /\ t = new
      <4>1. s.ts \in Nat
        BY <1>2, <3>3 DEF Sample, Time
      <4>2. ts[f] - s.ts >= MinWrite \/ s.ts - ts[f] >= MinWrite
        BY <2>1, <2>3, <3>3 DEF SpacedInv, SamplesAreSpaced
      <4> QED
        BY <2>1, <2>3, <3>3, <4>1, <4>2
    <3>4. CASE s = new /\ t = new
      BY <2>1, <2>3, <3>4
    <3> QED
      BY <1>5, <3>1, <3>2, <3>3, <3>4
  <2>4. ASSUME NEW g \in Feed, NEW s \in samples', Pending(g)', s.fresh, s.node = at'[g]
        PROVE  ts'[g] - s.ts >= MinWrite \/ s.ts - ts'[g] >= MinWrite
    <3>1. g # f /\ Pending(g) /\ at'[g] = at[g] /\ ts'[g] = ts[g]
      BY <1>3, <2>4
    <3>2. CASE s \in samples
      BY <2>4, <3>1, <3>2 DEF SpacedInv, SamplesAreSpaced
    <3>3. CASE s = new
      <4>1. ts[g] - ts[f] >= MinWrite \/ ts[f] - ts[g] >= MinWrite
        BY <2>1, <2>4, <3>1, <3>3 DEF SpacedInv, SamplesAreSpaced
      <4> QED
        BY <2>1, <3>1, <3>3, <4>1
    <3> QED
      BY <1>5, <3>2, <3>3
  <2>5. \A g, h \in Feed : g # h /\ Pending(g)' /\ Pending(h)' /\ at'[g] = at'[h] =>
          ts'[g] - ts'[h] >= MinWrite \/ ts'[h] - ts'[g] >= MinWrite
    BY <1>3 DEF SpacedInv, SamplesAreSpaced
  <2> QED
    BY <2>2, <2>3, <2>4, <2>5 DEF SamplesAreSpaced
<1> QED
  BY <1>1, <1>4, <1>5

LEMMA SpacedStep == SpacedInv /\ [Next]_vars => LastIsLatest' /\ SamplesAreSpaced'
<1> SUFFICES ASSUME SpacedInv, [Next]_vars PROVE LastIsLatest' /\ SamplesAreSpaced'
  OBVIOUS
<1>1. ASSUME last' = last, samples' = samples, pc' = pc, at' = at, ts' = ts, fresh' = fresh
      PROVE  LastIsLatest' /\ SamplesAreSpaced'
  BY <1>1, FewerStaySpaced DEF Pending
<1>2. ASSUME Tick \/ SetBack \/ StartCleanup PROVE LastIsLatest' /\ SamplesAreSpaced'
  BY <1>1, <1>2 DEF Tick, SetBack, StartCleanup
<1>3. ASSUME NEW n \in Node, AddRow(n) \/ DropRow(n) PROVE LastIsLatest' /\ SamplesAreSpaced'
  BY <1>1, <1>3 DEF AddRow, DropRow
<1>4. ASSUME NEW f \in Feed, ListNodes(f) PROVE LastIsLatest' /\ SamplesAreSpaced'
  BY <1>1, <1>4 DEF ListNodes
<1>5. ASSUME NEW h \in Retentions, SaveSetting(h) \/ SetRetention(h)
      PROVE  LastIsLatest' /\ SamplesAreSpaced'
  BY <1>1, <1>5 DEF SaveSetting, SetRetention
<1>6. ASSUME NEW f \in Feed, ReadClock(f) \/ Skip(f) PROVE LastIsLatest' /\ SamplesAreSpaced'
  <2>1. /\ pc \in [Feed -> {"pick", "throttle", "insert"}] /\ fresh \in [Feed -> BOOLEAN]
        /\ at \in [Feed -> Node \cup {NoNode}] /\ ts \in [Feed -> Time]
    BY DEF SpacedInv, Base, TypeOK
  <2>2. /\ samples' = samples /\ last' = last
        /\ \A g \in Feed : g # f => pc'[g] = pc[g] /\ at'[g] = at[g] /\ ts'[g] = ts[g]
                                    /\ fresh'[g] = fresh[g]
        /\ pc'[f] # "insert"
    BY <1>6, <2>1 DEF ReadClock, Skip, Goto, Return
  <2>3. \A g \in Feed : Pending(g)' => Pending(g) /\ at'[g] = at[g] /\ ts'[g] = ts[g]
    BY <2>2 DEF Pending
  <2> QED
    BY <2>2, <2>3, FewerStaySpaced
<1>7. ASSUME NEW n \in Node, DropThrottle(n) PROVE LastIsLatest' /\ SamplesAreSpaced'
  <2>1. /\ samples' = Stale(n) /\ last' = [last EXCEPT ![n] = Never]
        /\ fresh' = [f \in Feed |-> fresh[f] /\ at[f] # n]
        /\ pc' = pc /\ at' = at /\ ts' = ts
    BY <1>7 DEF DropThrottle
  <2>2. samples \subseteq Sample /\ last \in [Node -> Time \cup {Never}]
    BY DEF SpacedInv, Base, TypeOK
  <2>3. ASSUME NEW s \in samples', s.fresh PROVE s \in samples /\ last'[s.node] = last[s.node]
    <3>1. s \in samples /\ s.node # n
      BY <2>1, <2>2, <2>3, StaleType
    <3>2. s.node \in Node
      BY <2>2, <3>1 DEF Sample
    <3> QED
      BY <2>1, <2>2, <3>1, <3>2
  <2>4. ASSUME NEW f \in Feed, Pending(f)'
        PROVE  Pending(f) /\ at'[f] = at[f] /\ ts'[f] = ts[f] /\ last'[at[f]] = last[at[f]]
    <3>1. pc[f] = "insert" /\ fresh[f] /\ at[f] # n
      BY <2>1, <2>4 DEF Pending
    <3>2. at[f] \in Node
      BY <3>1 DEF SpacedInv, Base, LocalsKnown
    <3> QED
      BY <2>1, <2>2, <3>1, <3>2 DEF Pending
  <2> QED
    BY <2>3, <2>4, FewerStaySpaced
<1>8. ASSUME NEW n \in Node, DropSamples(n) PROVE LastIsLatest' /\ SamplesAreSpaced'
  <2>1. /\ samples' \subseteq samples /\ last' = last
        /\ pc' = pc /\ at' = at /\ ts' = ts /\ fresh' = fresh
    BY <1>8 DEF DropSamples
  <2> QED
    BY <2>1, FewerStaySpaced DEF Pending
<1>9. ASSUME DeleteOld PROVE LastIsLatest' /\ SamplesAreSpaced'
  <2>1. /\ samples' \subseteq samples /\ last' = last
        /\ pc' = pc /\ at' = at /\ ts' = ts /\ fresh' = fresh
    BY <1>9 DEF DeleteOld, Since
  <2> QED
    BY <2>1, FewerStaySpaced DEF Pending
<1>10. ASSUME Restart PROVE LastIsLatest' /\ SamplesAreSpaced'
  <2>1. PICK kept : kept \subseteq samples /\ samples' = {[s EXCEPT !.fresh = FALSE] : s \in kept}
    BY <1>10 DEF Restart, Since
  <2>2. ASSUME NEW s \in kept PROVE ~[s EXCEPT !.fresh = FALSE].fresh
    <3>1. s \in Sample
      BY <2>1 DEF SpacedInv, Base, TypeOK
    <3> QED
      BY <3>1 DEF Sample
  <2>3. \A s \in samples' : ~s.fresh
    BY <2>1, <2>2
  <2>4. \A f \in Feed : ~Pending(f)'
    BY <1>10 DEF Restart, Pending
  <2> QED
    BY <2>3, <2>4, FewerStaySpaced
<1>11. CASE UNCHANGED vars
  BY <1>1, <1>11 DEF vars
<1> QED
  BY <1>2, <1>3, <1>4, <1>5, <1>6, <1>7, <1>8, <1>9, <1>10, <1>11, PassStaysSpaced, InsertStaysSpaced
     DEF Next, FeedStep, DeleteStep

LEMMA SpacedAlways == Spec => []SpacedInv
<1>1. Init => SpacedInv
  BY BaseInit, SpacedInit DEF SpacedInv
<1>2. SpacedInv /\ [Next]_vars => SpacedInv'
  BY BaseStep, SpacedStep DEF SpacedInv
<1> QED
  BY <1>1, <1>2, PTL DEF Spec

\* The throttle keeps the samples of a node apart, those about to be inserted included
\* (store.go:105-111): whatever the number of feeds, their order and the clock.
THEOREM ThrottleSpaces == Spec => []SamplesAreSpaced
BY SpacedAlways, PTL DEF SpacedInv

\* The limit of the query (store.go:153, 188) cuts nothing off a chart as long as the
\* throttle knows the samples: the throttle keeps the samples of an hour, and the
\* length of a bucket the points of a longer range, below what a chart asks for.
THEOREM ChartsAreComplete == Spec => []ChartIsComplete
<1>1. ASSUME SpacedInv PROVE ChartIsComplete
  <2> SUFFICES ASSUME NEW n \in Node, NEW span \in 0..MaxTime,
                      \A s \in samples : s.node = n => s.fresh,
                      NEW t \in TimesOf(n) \cap (now - span)..now
               PROVE  PointOf(t, span) \in Query(TimesOf(n), now - span, now, Limit)
    BY DEF ChartIsComplete
  <2>1. samples \subseteq Sample /\ now \in Int
    BY <1>1 DEF SpacedInv, Base, TypeOK, Time
  <2>2. TimesOf(n) \subseteq Int
    BY <2>1 DEF TimesOf, Sample, Time
  <2>3. ASSUME NEW v \in TimesOf(n), NEW u \in TimesOf(n), v < u PROVE u - v >= MinWrite
    <3>1. PICK r \in samples : r.node = n /\ r.ts = v /\ r.fresh
      BY DEF TimesOf
    <3>2. PICK s \in samples : s.node = n /\ s.ts = u /\ s.fresh
      BY DEF TimesOf
    <3> QED
      BY <1>1, <2>3, <3>1, <3>2 DEF SpacedInv, SamplesAreSpaced
  <2>4. span \in Nat
    OBVIOUS
  <2> QED
    BY <2>1, <2>2, <2>3, <2>4, QueryIsComplete
<1> QED
  BY <1>1, SpacedAlways, PTL

(***************************************************************************)
(* Deletion and retention.                                                 *)
(***************************************************************************)

\* No step brings anything back of a node that is forgotten, except the insertion of
\* its row (app.go:712-728 with app.go:106-152).
THEOREM NothingReturns == Spec => ForgottenForGood
<1>1. ASSUME Base, [Next]_vars, NEW n \in Node, Forgotten(n), n \notin live' PROVE Forgotten(n)'
  <2> USE <1>1 DEF Forgotten
  <2>1. \A s \in samples : s.node # n
    OBVIOUS
  <2>2. /\ pc \in [Feed -> {"pick", "throttle", "insert"}]
        /\ at \in [Feed -> Node \cup {NoNode}]
        /\ todo \in [Feed -> SUBSET Node]
        /\ samples \subseteq Sample
    BY DEF Base, TypeOK
  <2>3. ASSUME samples' \subseteq samples, UNCHANGED <<pc, todo, at>> PROVE Forgotten(n)'
    BY <2>3
  <2>4. ASSUME NEW f \in Feed, FeedStep(f) PROVE Forgotten(n)'
    <3>1. CASE ListNodes(f)
      BY <2>2, <3>1 DEF ListNodes, Listed
    <3>2. CASE ReadClock(f)
      BY <2>2, <3>2 DEF ReadClock, Goto
    <3>3. CASE Skip(f)
      BY <2>2, <3>3 DEF Skip, Goto, Return
    <3>4. CASE Pass(f)
      BY <2>2, <3>4 DEF Pass, Goto
    <3>5. CASE Insert(f)
      <4>1. pc[f] = "insert" /\ SampleOf(f).node # n
        BY <3>5 DEF Insert, Goto, SampleOf
      <4>2. \A s \in samples' : s.node # n
        BY <3>5, <4>1 DEF Insert
      <4> QED
        BY <2>2, <3>5, <4>2 DEF Insert, Goto, Return
    <3> QED
      BY <2>4, <3>1, <3>2, <3>3, <3>4, <3>5 DEF FeedStep
  <2>5. ASSUME NEW m \in Node, DropThrottle(m) PROVE Forgotten(n)'
    <3>1. ASSUME NEW s \in samples PROVE [s EXCEPT !.fresh = (@ /\ s.node # m)].node # n
      <4>1. s \in Sample
        BY <2>2
      <4> QED
        BY <4>1 DEF Sample
    <3>2. \A s \in samples' : s.node # n
      BY <2>5, <3>1 DEF DropThrottle, Stale
    <3> QED
      BY <2>5, <3>2 DEF DropThrottle
  <2>6. ASSUME Restart PROVE Forgotten(n)'
    <3>1. PICK kept : kept \subseteq samples /\ samples' = {[s EXCEPT !.fresh = FALSE] : s \in kept}
      BY <2>6 DEF Restart, Since
    <3>2. ASSUME NEW s \in kept PROVE [s EXCEPT !.fresh = FALSE].node # n
      <4>1. s \in Sample
        BY <2>2, <3>1
      <4> QED
        BY <3>1, <4>1 DEF Sample
    <3>3. \A s \in samples' : s.node # n
      BY <3>1, <3>2
    <3> QED
      BY <2>6, <3>3 DEF Restart
  <2>7. ASSUME NEW m \in Node, AddRow(m) \/ DropRow(m) PROVE Forgotten(n)'
    BY <2>3, <2>7 DEF AddRow, DropRow
  <2>8. ASSUME NEW m \in Node, DropSamples(m) PROVE Forgotten(n)'
    BY <2>3, <2>8 DEF DropSamples
  <2>9. ASSUME NEW h \in Retentions, SaveSetting(h) \/ SetRetention(h) PROVE Forgotten(n)'
    BY <2>3, <2>9 DEF SaveSetting, SetRetention
  <2>10. ASSUME Tick \/ SetBack \/ StartCleanup \/ DeleteOld PROVE Forgotten(n)'
    BY <2>3, <2>10 DEF Tick, SetBack, StartCleanup, DeleteOld, Since
  <2>11. CASE UNCHANGED vars
    BY <2>3, <2>11 DEF vars
  <2> QED
    BY <2>4, <2>5, <2>6, <2>7, <2>8, <2>9, <2>10, <2>11 DEF Next, DeleteStep
<1>2. Base /\ [Next]_vars => [\A n \in Node : Forgotten(n) => Forgotten(n)' \/ n \in live']_vars
  BY <1>1
<1> QED
  BY <1>2, BaseInit, BaseStep, PTL DEF Spec, ForgottenForGood

\* While a change of the retention time is in progress, it is the one that is stored.
ApplyingIsStored ==
    "overlap" \notin faults => \/ applying = {} /\ retention = setting
                              \/ applying = {setting}

\* The Store uses the stored retention time whenever no change is in progress
\* (app.go:648-653, store.go:204-212), unless changes have overlapped.
THEOREM RetentionIsStored == Spec => []RetentionAgrees
<1>1. Init => ApplyingIsStored
  BY DEF Init, ApplyingIsStored
<1>2. ApplyingIsStored /\ [Next]_vars => ApplyingIsStored'
  <2> SUFFICES ASSUME ApplyingIsStored, [Next]_vars PROVE ApplyingIsStored'
    OBVIOUS
  <2> USE DEF ApplyingIsStored
  <2>1. ASSUME UNCHANGED <<setting, retention, applying, faults>> PROVE ApplyingIsStored'
    BY <2>1
  <2>2. ASSUME NEW h \in Retentions, SaveSetting(h) PROVE ApplyingIsStored'
    BY <2>2 DEF SaveSetting
  <2>3. ASSUME NEW h \in Retentions, SetRetention(h) PROVE ApplyingIsStored'
    BY <2>3 DEF SetRetention
  <2>4. ASSUME Restart PROVE ApplyingIsStored'
    BY <2>4 DEF Restart, InitialRetention
  <2>5. ASSUME Tick \/ SetBack \/ StartCleanup \/ DeleteOld PROVE ApplyingIsStored'
    BY <2>1, <2>5 DEF Tick, SetBack, StartCleanup, DeleteOld
  <2>6. ASSUME NEW n \in Node, AddRow(n) \/ DropThrottle(n) \/ DeleteStep(n) PROVE ApplyingIsStored'
    BY <2>1, <2>6 DEF AddRow, DropThrottle, DeleteStep, DropSamples, DropRow
  <2>7. ASSUME NEW f \in Feed, FeedStep(f) PROVE ApplyingIsStored'
    BY <2>1, <2>7 DEF FeedStep, ListNodes, ReadClock, Skip, Pass, Insert
  <2>8. CASE UNCHANGED vars
    BY <2>1, <2>8 DEF vars
  <2> QED
    BY <2>2, <2>3, <2>4, <2>5, <2>6, <2>7, <2>8 DEF Next
<1>3. ApplyingIsStored => RetentionAgrees
  BY DEF ApplyingIsStored, RetentionAgrees
<1> QED
  BY <1>1, <1>2, <1>3, PTL DEF Spec

===============================================================================
