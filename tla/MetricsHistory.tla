---------------------------- MODULE MetricsHistory ----------------------------
(***************************************************************************)
(* The query behind the charts of a node (Store.Query): raw samples for    *)
(* short ranges, one point per bucket of time for longer ones, and in both *)
(* cases only the first rows in order of time, up to a limit.              *)
(*                                                                         *)
(* A row is known by its time; the averages in it are left out.            *)
(***************************************************************************)
EXTENDS Integers, FiniteSets

CONSTANTS
    Hour,           \* the longest range answered with raw samples (3600 s)
    Points,         \* how many points a longer range aims at (300)
    MinBucket       \* the shortest bucket (30 s)

ASSUME HistoryAssumption ==
    /\ Hour \in Nat
    /\ Points \in Nat \ {0}
    /\ MinBucket \in Nat \ {0}

\* The length of a bucket for a range of the given length.
BucketSec(span) == IF span \div Points < MinBucket THEN MinBucket ELSE span \div Points

\* ORDER BY timestamp ASC LIMIT ?
Earliest(limit, T) == {t \in T : Cardinality({u \in T : u < t}) < limit}

\* The point that stands for a sample taken at time t.
PointOf(t, span) ==
    IF span <= Hour THEN t ELSE (t \div BucketSec(span)) * BucketSec(span)

\* The times of the rows answered for samples taken at the times of T.
Query(T, from, to, limit) ==
    Earliest(limit, {PointOf(t, to - from) : t \in T \cap from..to})

===============================================================================
