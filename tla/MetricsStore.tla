----------------------------- MODULE MetricsStore -----------------------------
(***************************************************************************)
(* The store of node metrics.  The callback of the node register lists the *)
(* nodes and records a sample of each, in the goroutine that made the      *)
(* change; many run at once (the feeds).  A throttle under a lock keeps    *)
(* samples apart, the deletion of a node drops its samples, an hourly loop *)
(* drops those past the retention time, which the operator may change.     *)
(*                                                                         *)
(* Rows of nodes and snapshots change as NodeRegistry lets them: at any    *)
(* time any listed node may have a snapshot or not.  The contents of a     *)
(* sample are left out.  Samples of a node taken at the same second are    *)
(* one element of samples.                                                 *)
(***************************************************************************)
EXTENDS MetricsHistory

CONSTANTS
    Node,           \* ids of nodes
    Feed,           \* the goroutines that run the callback at one time
    NoNode,         \* no node
    MinWrite,       \* the least time between two samples of a node (25 s)
    Retentions,     \* the retention times an operator may choose
    Limit,          \* how many rows a chart asks for (500)
    MaxTime,        \* bound: the last second of the clock
    FaultChoices    \* the sets of faults a behaviour may meet

\* "db": an access to the database may fail; "clock": the clock may be set back;
\* "overlap": the retention may be changed while another change is in progress.
AllFaults == {"db", "clock", "overlap"}

ASSUME NoNodeAssumption == NoNode \notin Node
ASSUME StoreAssumption ==
    /\ MinWrite \in Nat \ {0}
    /\ Retentions \subseteq Nat /\ Retentions # {}
    /\ MaxTime \in Nat
    /\ FaultChoices \subseteq SUBSET AllFaults

\* A chart asks for more rows than an hour holds samples or a longer range buckets.
ASSUME LimitAssumption ==
    /\ Limit \in Nat
    /\ Hour \div MinWrite < Limit
    /\ Points + Points \div MinBucket + 2 <= Limit

VARIABLES
    now,        \* the clock of the panel
    live,       \* the nodes with a row that is not deleted
    last,       \* node -> lastWrite, Never if it has no entry
    samples,    \* the rows of table `samples'
    pc,         \* feed -> where it is
    todo,       \* feed -> the listed nodes it has still to record
    at,         \* feed -> the node it is recording
    ts,         \* feed -> the time it has read for that sample
    fresh,      \* feed -> history: whether the throttle still knows that sample
    del,        \* node -> where the request that deletes it is
    setting,    \* the retention time in table `settings'
    retention,  \* the retention time of the Store
    applying,   \* the retention times saved and not yet applied
    sweep,      \* the cut-off of the clean-up in progress, or Never
    faults      \* the faults of this behaviour

clock == <<now>>
register == <<live>>
feeds == <<pc, todo, at, ts, fresh>>
retain == <<setting, retention, applying, sweep>>
vars == <<now, live, last, samples, pc, todo, at, ts, fresh, del,
          setting, retention, applying, sweep, faults>>

Time == 0..MaxTime
Never == -1
Sample == [node : Node, ts : Time, fresh : BOOLEAN]

TypeOK ==
    /\ now \in Time
    /\ live \subseteq Node
    /\ last \in [Node -> Time \cup {Never}]
    /\ samples \subseteq Sample
    /\ pc \in [Feed -> {"pick", "throttle", "insert"}]
    /\ todo \in [Feed -> SUBSET Node]
    /\ at \in [Feed -> Node \cup {NoNode}]
    /\ ts \in [Feed -> Time]
    /\ fresh \in [Feed -> BOOLEAN]
    /\ del \in [Node -> {"none", "samples", "row"}]
    /\ setting \in Retentions /\ retention \in Retentions
    /\ applying \subseteq Retentions
    /\ sweep \in Time \cup {Never}
    /\ faults \in FaultChoices

Init ==
    /\ now = 0
    /\ live = {}
    /\ last = [n \in Node |-> Never]
    /\ samples = {}
    /\ pc = [f \in Feed |-> "pick"]
    /\ todo = [f \in Feed |-> {}]
    /\ at = [f \in Feed |-> NoNode]
    /\ ts = [f \in Feed |-> 0]
    /\ fresh = [f \in Feed |-> FALSE]
    /\ del = [n \in Node |-> "none"]
    /\ setting \in Retentions /\ retention = setting
    /\ applying = {} /\ sweep = Never
    /\ faults \in FaultChoices

(***************************************************************************)
(* The clock and the register.                                             *)
(***************************************************************************)

Tick ==
    /\ now < MaxTime
    /\ now' = now + 1
    /\ UNCHANGED <<register, last, samples, feeds, del, retain, faults>>

\* The clock is set back.
SetBack ==
    /\ "clock" \in faults
    /\ now > 0
    /\ now' \in 0..(now - 1)
    /\ UNCHANGED <<register, last, samples, feeds, del, retain, faults>>

\* A node registers, or a pending Save inserts a deleted row again.
AddRow(n) ==
    /\ live' = live \cup {n}
    /\ UNCHANGED <<clock, last, samples, feeds, del, retain, faults>>

(***************************************************************************)
(* The callback OnChange, run by a feed.                                   *)
(***************************************************************************)

Goto(f, from, to) == pc[f] = from /\ pc' = [pc EXCEPT ![f] = to]

\* Fault model of the next definition: deleted rows are listed too.
ListedWithDeleted == Node

\* The rows repo.List returns.
Listed == live

\* A change of the register, by a report or a request, calls OnChange in a goroutine
\* with nothing else to do: it lists the nodes and will record those with a snapshot.
\* If the list fails, it only logs.
ListNodes(f) ==
    /\ pc[f] = "pick" /\ todo[f] = {}
    /\ \E reported \in SUBSET Listed : todo' = [todo EXCEPT ![f] = reported]
    /\ UNCHANGED <<clock, register, last, samples, pc, at, ts, fresh, del, retain, faults>>

\* Record begins for the next node of the list: it reads the clock.
ReadClock(f) ==
    /\ Goto(f, "pick", "throttle")
    /\ \E n \in todo[f] :
        /\ todo' = [todo EXCEPT ![f] = @ \ {n}]
        /\ at' = [at EXCEPT ![f] = n]
    /\ ts' = [ts EXCEPT ![f] = now]
    /\ UNCHANGED <<clock, register, last, samples, fresh, del, retain, faults>>

\* Fault model of the next definition: the difference may have either sign.
TooSoonEitherWay(n, t) == last[n] # Never /\ t - last[n] < MinWrite /\ last[n] - t < MinWrite

\* Less than the interval has passed since the last write, or the clock went back.
TooSoon(n, t) == last[n] # Never /\ t - last[n] < MinWrite

\* The locals of Record are gone when it returns.
Return(f) ==
    /\ at' = [at EXCEPT ![f] = NoNode]
    /\ ts' = [ts EXCEPT ![f] = 0]
    /\ fresh' = [fresh EXCEPT ![f] = FALSE]

\* Record skips the sample.
Skip(f) ==
    /\ Goto(f, "throttle", "pick")
    /\ TooSoon(at[f], ts[f])
    /\ Return(f)
    /\ UNCHANGED <<clock, register, last, samples, todo, del, retain, faults>>

\* Fault model of the next definition: the write is not noted.
PassUnnoted(f) ==
    /\ Goto(f, "throttle", "insert")
    /\ ~TooSoon(at[f], ts[f])
    /\ fresh' = [fresh EXCEPT ![f] = TRUE]
    /\ UNCHANGED <<clock, register, last, samples, todo, at, ts, del, retain, faults>>

\* Record notes the write, under the lock, before it inserts the sample.
Pass(f) ==
    /\ Goto(f, "throttle", "insert")
    /\ ~TooSoon(at[f], ts[f])
    /\ last' = [last EXCEPT ![at[f]] = ts[f]]
    /\ fresh' = [fresh EXCEPT ![f] = TRUE]
    /\ UNCHANGED <<clock, register, samples, todo, at, ts, del, retain, faults>>

\* The sample of feed f.
SampleOf(f) == [node |-> at[f], ts |-> ts[f], fresh |-> fresh[f]]

\* The sample is inserted, or the failure is logged.
Insert(f) ==
    /\ Goto(f, "insert", "pick")
    /\ \/ samples' = samples \cup {SampleOf(f)}
       \/ "db" \in faults /\ samples' = samples
    /\ Return(f)
    /\ UNCHANGED <<clock, register, last, todo, del, retain, faults>>

FeedStep(f) ==
    \/ ListNodes(f) \/ ReadClock(f) \/ Skip(f) \/ Pass(f) \/ Insert(f)

(***************************************************************************)
(* apiDeleteNode, from Store.DeleteNode on; one request for a node at a    *)
(* time.                                                                   *)
(***************************************************************************)

\* The samples of node n are no longer known to the throttle.
Stale(n) == {[s EXCEPT !.fresh = (@ /\ s.node # n)] : s \in samples}

DropThrottle(n) ==
    /\ del[n] = "none"
    /\ del' = [del EXCEPT ![n] = "samples"]
    /\ last' = [last EXCEPT ![n] = Never]
    /\ samples' = Stale(n)
    /\ fresh' = [f \in Feed |-> fresh[f] /\ at[f] # n]
    /\ UNCHANGED <<clock, register, pc, todo, at, ts, retain, faults>>

\* An error here is ignored.
DropSamples(n) ==
    /\ del[n] = "samples"
    /\ del' = [del EXCEPT ![n] = "row"]
    /\ \/ samples' = {s \in samples : s.node # n}
       \/ "db" \in faults /\ samples' = samples
    /\ UNCHANGED <<clock, register, last, feeds, retain, faults>>

\* Service.Delete: the row goes last, and OnChange is called.
DropRow(n) ==
    /\ del[n] = "row"
    /\ del' = [del EXCEPT ![n] = "none"]
    /\ \/ live' = live \ {n}
       \/ "db" \in faults /\ live' = live
    /\ UNCHANGED <<clock, last, samples, feeds, retain, faults>>

DeleteStep(n) == DropSamples(n) \/ DropRow(n)

(***************************************************************************)
(* Retention.                                                              *)
(***************************************************************************)

\* apiUpdateMetricsRetention stores the new time; on an error nothing changes.
SaveSetting(h) ==
    /\ applying = {} \/ "overlap" \in faults
    /\ setting' = h
    /\ applying' = applying \cup {h}
    /\ UNCHANGED <<clock, register, last, samples, feeds, del, retention, sweep, faults>>

\* ... and then tells the Store.
SetRetention(h) ==
    /\ h \in applying
    /\ retention' = h
    /\ applying' = applying \ {h}
    /\ UNCHANGED <<clock, register, last, samples, feeds, del, setting, sweep, faults>>

\* Fault model of the next definition: the sign of the retention time is lost.
CutOffAhead == now + retention

\* Samples older than this are past the retention time.
CutOff == now - retention

\* Fault model of the next definition: the clean-up goes through the nodes there are.
SinceOfLive(cutoff) == {s \in samples : s.ts >= cutoff \/ s.node \notin live}

\* The samples a clean-up with the given cut-off leaves.
Since(cutoff) == {s \in samples : s.ts >= cutoff}

\* The hourly clean-up reads the retention time and the clock ...
StartCleanup ==
    /\ sweep = Never
    /\ CutOff > 0
    /\ sweep' = CutOff
    /\ UNCHANGED <<clock, register, last, samples, feeds, del, setting, retention, applying, faults>>

\* ... and deletes what is older.
DeleteOld ==
    /\ sweep # Never
    /\ sweep' = Never
    /\ \/ samples' = Since(sweep)
       \/ "db" \in faults /\ samples' = samples
    /\ UNCHANGED <<clock, register, last, feeds, del, setting, retention, applying, faults>>

\* Fault model of the next definition: the start takes no notice of the setting.
DefaultRetention == CHOOSE h \in Retentions : \A k \in Retentions : h <= k

\* The retention time NewApp gives the Store.
InitialRetention == setting

\* The panel starts again, and cleans up before it serves anybody.  Rows stay.
Restart ==
    /\ last' = [n \in Node |-> Never]
    /\ pc' = [f \in Feed |-> "pick"]
    /\ todo' = [f \in Feed |-> {}]
    /\ at' = [f \in Feed |-> NoNode]
    /\ ts' = [f \in Feed |-> 0]
    /\ fresh' = [f \in Feed |-> FALSE]
    /\ del' = [n \in Node |-> "none"]
    /\ retention' = InitialRetention
    /\ applying' = {} /\ sweep' = Never
    /\ \E kept \in {Since(now - setting)} \cup (IF "db" \in faults THEN {samples} ELSE {}) :
        samples' = {[s EXCEPT !.fresh = FALSE] : s \in kept}
    /\ UNCHANGED <<now, live, setting, faults>>

Next ==
    \/ Tick \/ SetBack \/ Restart \/ StartCleanup \/ DeleteOld
    \/ \E n \in Node : AddRow(n) \/ DropThrottle(n) \/ DeleteStep(n)
    \/ \E f \in Feed : FeedStep(f)
    \/ \E h \in Retentions : SaveSetting(h) \/ SetRetention(h)

Spec == Init /\ [][Next]_vars

\* The clean-up loop runs as long as the panel does.
FairSpec == Spec /\ WF_vars(StartCleanup) /\ WF_vars(DeleteOld)

(***************************************************************************)
(* Properties.                                                             *)
(***************************************************************************)

\* Two samples of one node that the throttle knows of are an interval apart, those
\* still to be inserted included: however many goroutines record the node, whatever
\* order they pass the lock in and whatever the clock does.
Pending(f) == pc[f] = "insert" /\ fresh[f]
SamplesAreSpaced ==
    /\ \A s, t \in {u \in samples : u.fresh} :
        s.node = t.node /\ s.ts < t.ts => t.ts - s.ts >= MinWrite
    /\ \A f \in Feed, s \in samples : Pending(f) /\ s.fresh /\ s.node = at[f] =>
        ts[f] - s.ts >= MinWrite \/ s.ts - ts[f] >= MinWrite
    /\ \A f, g \in Feed : f # g /\ Pending(f) /\ Pending(g) /\ at[f] = at[g] =>
        ts[f] - ts[g] >= MinWrite \/ ts[g] - ts[f] >= MinWrite

\* The times of the samples of node n.
TimesOf(n) == {s.ts : s \in {u \in samples : u.node = n}}

\* A chart shows every sample of its range, as long as the throttle knows them all:
\* the limit of the query, which would cut off the newest rows, cuts nothing off.
ChartIsComplete ==
    \A n \in Node, span \in 0..MaxTime :
        (\A s \in samples : s.node = n => s.fresh) =>
            \A t \in TimesOf(n) \cap (now - span)..now :
                PointOf(t, span) \in Query(TimesOf(n), now - span, now, Limit)

\* Node n has no row, no sample, and no feed that has listed it.
Forgotten(n) ==
    /\ n \notin live
    /\ \A s \in samples : s.node # n
    /\ \A f \in Feed : n \notin todo[f] /\ (pc[f] \in {"throttle", "insert"} => at[f] # n)

\* A node that is forgotten gains no sample and no listing unless its row comes back,
\* though its reports may still arrive.
ForgottenForGood == [][\A n \in Node : Forgotten(n) => Forgotten(n)' \/ n \in live']_vars

\* When no change of the retention time is in progress, the Store uses the one that is
\* stored, and would after a restart; changes that overlap may leave it with another.
RetentionAgrees == "overlap" \notin faults /\ applying = {} => retention = setting

\* A sample past the retention time is dropped in the end, that of a deleted node
\* too, unless the clock or the operator makes it young again.
TooOld(s) == s.ts < CutOff
RetentionIsEnforced ==
    \A n \in Node, t \in Time :
        LET old == \E s \in samples : s.node = n /\ s.ts = t /\ TooOld(s)
        IN  "db" \notin faults => (old ~> ~old)

===============================================================================
