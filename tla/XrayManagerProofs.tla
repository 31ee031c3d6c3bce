------------------------- MODULE XrayManagerProofs --------------------------
(***************************************************************************)
(* Proofs about XrayManager, for any number of processes, streams and      *)
(* pushed configs, and with or without failing I/O.                        *)
(*                                                                         *)
(* TypeCorrect and RunningWatched hold whether or not a Start overtakes a  *)
(* late waiter.  The other properties speak of Prompt: OneWaited, that     *)
(* while running is set only the current process is waited for, is what a  *)
(* late waiter breaks and what makes OneActive inductive.                  *)
(***************************************************************************)
EXTENDS XrayManager, TLAPS

USE NamesAssumption DEF procs, Ctx

\* A Start changes the manager's fields and the processes only within their types.
LEMMA StartTypes ==
  ASSUME TypeOK, NEW ctx \in Ctx, Start(ctx)
  PROVE  /\ running' \in BOOLEAN
         /\ cancel' \in Proc \cup {NoProc}
         /\ state' \in [Proc -> {"alive", "failed", "clean", "gone"}]
         /\ waiter' \in [Proc -> {"none", "waiting", "marked", "delay"}]
         /\ parent' \in [Proc -> Ctx]
         /\ stopped' \subseteq Proc
         /\ config' \in [Proc -> Nat]
<1> USE DEF TypeOK
<1>1. CASE (StartSkips \/ StartFails(ctx)) /\ UNCHANGED procs
  BY <1>1 DEF StartSkips, StartFails
<1>2. ASSUME NEW p \in Proc, StartRuns(ctx, p)
      PROVE  /\ running' \in BOOLEAN
             /\ cancel' \in Proc \cup {NoProc}
             /\ state' \in [Proc -> {"alive", "failed", "clean", "gone"}]
             /\ waiter' \in [Proc -> {"none", "waiting", "marked", "delay"}]
             /\ parent' \in [Proc -> Ctx]
             /\ stopped' \subseteq Proc
             /\ config' \in [Proc -> Nat]
  BY <1>2 DEF StartRuns
<1> QED
  BY <1>1, <1>2 DEF Start

\* The types of the manager's variables are kept by every step.
LEMMA TypeOKStep ==
  ASSUME TypeOK, [Next]_vars
  PROVE  TypeOK'
<1> USE DEF TypeOK
<1>1. CASE AgentStart
  BY <1>1, StartTypes DEF AgentStart
<1>2. CASE Shutdown
  BY <1>2 DEF Shutdown
<1>3. ASSUME NEW p \in Proc, ProcessEnds(p) PROVE TypeOK'
  BY <1>3 DEF ProcessEnds
<1>4. ASSUME NEW p \in Proc, WaiterMarks(p) PROVE TypeOK'
  BY <1>4 DEF WaiterMarks, RunningAfterWait
<1>5. ASSUME NEW p \in Proc, WaiterDecides(p) PROVE TypeOK'
  BY <1>5 DEF WaiterDecides, WaiterEnds
<1>6. ASSUME NEW p \in Proc, WaiterGivesUp(p) PROVE TypeOK'
  BY <1>6 DEF WaiterGivesUp, WaiterEnds
<1>7. ASSUME NEW p \in Proc, WaiterRestarts(p) PROVE TypeOK'
  <2>1. CASE (StartSkips \/ StartFails(parent[p])) /\ WaiterEnds(p)
    BY <1>7, <2>1 DEF WaiterRestarts, WaiterEnds, StartSkips, StartFails
  <2>2. CASE StartRuns(parent[p], p)
    BY <1>7, <2>2 DEF WaiterRestarts, StartRuns
  <2> QED
    BY <1>7, <2>1, <2>2 DEF WaiterRestarts
<1>8. ASSUME NEW s \in Stream, StreamOpens(s) PROVE TypeOK'
  BY <1>8 DEF StreamOpens
<1>9. ASSUME NEW s \in Stream, StreamDrops(s) PROVE TypeOK'
  BY <1>9 DEF StreamDrops
<1>10. ASSUME NEW s \in Stream, ReceivePush(s) PROVE TypeOK'
  BY <1>10 DEF ReceivePush, Move
<1>11. ASSUME NEW s \in Stream, WriteConfig(s) PROVE TypeOK'
  BY <1>11 DEF WriteConfig, Move
<1>12. ASSUME NEW s \in Stream, StopXray(s) PROVE TypeOK'
  BY <1>12 DEF StopXray, Move, StoppedCurrent
<1>13. ASSUME NEW s \in Stream, RestartXray(s) PROVE TypeOK'
  BY <1>13, StartTypes DEF RestartXray, Move
<1>14. CASE UNCHANGED vars
  BY <1>14 DEF vars
<1> QED
  BY <1>1, <1>2, <1>3, <1>4, <1>5, <1>6, <1>7, <1>8, <1>9, <1>10, <1>11, <1>12, <1>13, <1>14
    DEF Next, Waiting, Applying

\* The initial state is well typed.
LEMMA TypeOKInit == Init => TypeOK
<1> SUFFICES ASSUME Init PROVE TypeOK
  OBVIOUS
<1>1. running \in BOOLEAN /\ agent \in BOOLEAN
  BY DEF Init
<1>2. cancel \in Proc \cup {NoProc} /\ stopped \subseteq Proc /\ live \subseteq Ctx
  BY DEF Init
<1>3. file \in Nat /\ config \in [Proc -> Nat]
  BY DEF Init
<1>4. /\ state \in [Proc -> {"alive", "failed", "clean", "gone"}]
      /\ waiter \in [Proc -> {"none", "waiting", "marked", "delay"}]
      /\ parent \in [Proc -> Ctx]
      /\ apply \in [Stream -> {"unopened", "idle", "write", "stop", "start"}]
  BY DEF Init
<1>5. faults \subseteq AllFaults
  BY FaultsAssumption DEF Init
<1> QED
  BY <1>1, <1>2, <1>3, <1>4, <1>5 DEF TypeOK

\* Every reachable state of the manager is well typed.
THEOREM TypeCorrect == Spec => []TypeOK
<1>1. TypeOK /\ [Next]_vars => TypeOK'
  BY TypeOKStep
<1>2. QED
  BY <1>1, TypeOKInit, PTL DEF Spec

\* A Start that is refused or fails leaves a watched manager watched.
LEMMA NoStartWatched ==
  ASSUME TypeOK, RunningIsWatched, NEW ctx \in Ctx, StartSkips \/ StartFails(ctx),
         \A p \in Proc : waiter[p] = "waiting" => waiter'[p] = "waiting"
  PROVE  RunningIsWatched'
<1>1. CASE StartSkips
  BY <1>1 DEF TypeOK, RunningIsWatched, StartSkips
<1>2. CASE StartFails(ctx)
  <2>1. ~running'
    BY <1>2 DEF StartFails, AlreadyRunning
  <2> QED
    BY <2>1 DEF RunningIsWatched
<1> QED
  BY <1>1, <1>2

\* A Start that succeeds has a new waiter watch the new process.
LEMMA StartRunsWatched ==
  ASSUME TypeOK, NEW ctx \in Ctx, NEW p \in Proc, StartRuns(ctx, p)
  PROVE  RunningIsWatched'
<1>1. cancel' = p /\ waiter'[p] = "waiting"
  BY DEF TypeOK, StartRuns
<1> QED
  BY <1>1 DEF RunningIsWatched

\* So a Start, whatever it does, leaves the manager watched.
LEMMA StartWatched ==
  ASSUME TypeOK, RunningIsWatched, NEW ctx \in Ctx, Start(ctx)
  PROVE  RunningIsWatched'
<1>1. CASE (StartSkips \/ StartFails(ctx)) /\ UNCHANGED procs
  BY <1>1, NoStartWatched
<1>2. ASSUME NEW p \in Proc, StartRuns(ctx, p) PROVE RunningIsWatched'
  BY <1>2, StartRunsWatched
<1> QED
  BY <1>1, <1>2 DEF Start

\* Every step keeps a waiter on the process that running speaks of.
LEMMA RunningIsWatchedStep ==
  ASSUME TypeOK, RunningIsWatched, [Next]_vars
  PROVE  RunningIsWatched'
<1> USE DEF TypeOK, RunningIsWatched
<1>1. CASE AgentStart
  BY <1>1, StartWatched DEF AgentStart
<1>2. CASE Shutdown
  BY <1>2 DEF Shutdown
<1>3. ASSUME NEW p \in Proc, ProcessEnds(p) PROVE RunningIsWatched'
  BY <1>3 DEF ProcessEnds
<1>4. ASSUME NEW p \in Proc, WaiterMarks(p) PROVE RunningIsWatched'
  BY <1>4 DEF WaiterMarks, RunningAfterWait
<1>5. ASSUME NEW p \in Proc, WaiterDecides(p) PROVE RunningIsWatched'
  BY <1>5 DEF WaiterDecides, WaiterEnds
<1>6. ASSUME NEW p \in Proc, WaiterGivesUp(p) PROVE RunningIsWatched'
  BY <1>6 DEF WaiterGivesUp, WaiterEnds
<1>7. ASSUME NEW p \in Proc, WaiterRestarts(p) PROVE RunningIsWatched'
  <2>1. parent[p] \in Ctx
    OBVIOUS
  <2>2. CASE (StartSkips \/ StartFails(parent[p])) /\ WaiterEnds(p)
    <3>1. \A q \in Proc : waiter[q] = "waiting" => waiter'[q] = "waiting"
      BY <1>7, <2>2 DEF WaiterRestarts, WaiterEnds
    <3> QED
      BY <2>1, <2>2, <3>1, NoStartWatched
  <2>3. CASE StartRuns(parent[p], p)
    BY <2>1, <2>3, StartRunsWatched
  <2> QED
    BY <1>7, <2>2, <2>3 DEF WaiterRestarts
<1>8. ASSUME NEW s \in Stream, StreamOpens(s) PROVE RunningIsWatched'
  BY <1>8 DEF StreamOpens
<1>9. ASSUME NEW s \in Stream, StreamDrops(s) PROVE RunningIsWatched'
  BY <1>9 DEF StreamDrops
<1>10. ASSUME NEW s \in Stream, ReceivePush(s) PROVE RunningIsWatched'
  BY <1>10 DEF ReceivePush, Move
<1>11. ASSUME NEW s \in Stream, WriteConfig(s) PROVE RunningIsWatched'
  BY <1>11 DEF WriteConfig, Move
<1>12. ASSUME NEW s \in Stream, StopXray(s) PROVE RunningIsWatched'
  BY <1>12 DEF StopXray, Move, StoppedCurrent
<1>13. ASSUME NEW s \in Stream, RestartXray(s) PROVE RunningIsWatched'
  BY <1>13, StartWatched DEF RestartXray
<1>14. CASE UNCHANGED vars
  BY <1>14 DEF vars
<1> QED
  BY <1>1, <1>2, <1>3, <1>4, <1>5, <1>6, <1>7, <1>8, <1>9, <1>10, <1>11, <1>12, <1>13, <1>14
    DEF Next, Waiting, Applying

\* Whatever late waiters do, running never stays true after the process it speaks of
\* has died: its waiter is still to come and will clear it.
THEOREM RunningWatched == Spec => []RunningIsWatched
<1>1. Init => RunningIsWatched
  BY DEF Init, RunningIsWatched
<1>2. TypeOK /\ RunningIsWatched /\ [Next]_vars => RunningIsWatched'
  BY RunningIsWatchedStep
<1>3. QED
  BY <1>1, <1>2, TypeCorrect, PTL DEF Spec

-----------------------------------------------------------------------------

\* A process is only started with the context of a stream that was opened.
ParentsOpened == \A p \in Proc : parent[p] \in Stream => apply[parent[p]] # "unopened"

\* Every step keeps the parents among the opened streams.
LEMMA ParentsOpenedStep ==
  ASSUME TypeOK, ParentsOpened, [Next]_vars
  PROVE  ParentsOpened'
<1> USE DEF TypeOK, ParentsOpened
<1>1. CASE AgentStart
  BY <1>1 DEF AgentStart, Start, StartSkips, StartFails, StartRuns
<1>2. CASE Shutdown
  BY <1>2 DEF Shutdown
<1>3. ASSUME NEW p \in Proc, ProcessEnds(p) PROVE ParentsOpened'
  BY <1>3 DEF ProcessEnds
<1>4. ASSUME NEW p \in Proc, WaiterMarks(p) PROVE ParentsOpened'
  BY <1>4 DEF WaiterMarks, RunningAfterWait
<1>5. ASSUME NEW p \in Proc, WaiterDecides(p) PROVE ParentsOpened'
  BY <1>5 DEF WaiterDecides, WaiterEnds
<1>6. ASSUME NEW p \in Proc, WaiterGivesUp(p) PROVE ParentsOpened'
  BY <1>6 DEF WaiterGivesUp, WaiterEnds
<1>7. ASSUME NEW p \in Proc, WaiterRestarts(p) PROVE ParentsOpened'
  BY <1>7 DEF WaiterRestarts, WaiterEnds, StartSkips, StartFails, StartRuns
<1>8. ASSUME NEW s \in Stream, StreamOpens(s) PROVE ParentsOpened'
  BY <1>8 DEF StreamOpens
<1>9. ASSUME NEW s \in Stream, StreamDrops(s) PROVE ParentsOpened'
  BY <1>9 DEF StreamDrops
<1>10. ASSUME NEW s \in Stream, ReceivePush(s) PROVE ParentsOpened'
  BY <1>10 DEF ReceivePush, Move
<1>11. ASSUME NEW s \in Stream, WriteConfig(s) PROVE ParentsOpened'
  BY <1>11 DEF WriteConfig, Move
<1>12. ASSUME NEW s \in Stream, StopXray(s) PROVE ParentsOpened'
  BY <1>12 DEF StopXray, Move, StoppedCurrent
<1>13. ASSUME NEW s \in Stream, RestartXray(s) PROVE ParentsOpened'
  BY <1>13 DEF RestartXray, Move, Start, StartSkips, StartFails, StartRuns
<1>14. CASE UNCHANGED vars
  BY <1>14 DEF vars
<1> QED
  BY <1>1, <1>2, <1>3, <1>4, <1>5, <1>6, <1>7, <1>8, <1>9, <1>10, <1>11, <1>12, <1>13, <1>14
    DEF Next, Waiting, Applying

\* While running is set only the current process is waited for, and a process that
\* runs is the current one.
OneWaited ==
    /\ running => \A p \in Proc : waiter[p] = "waiting" => p = cancel
    /\ \A p \in Active : running /\ cancel = p /\ waiter[p] = "waiting"

\* Every step keeps OneWaited when no Start overtakes a late waiter.
LEMMA OneWaitedStep ==
  ASSUME Prompt, TypeOK, ParentsOpened, OneWaited, [Next]_vars
  PROVE  OneWaited'
<1> USE DEF TypeOK, OneWaited, Active, Cancelled, AlreadyRunning, Prompt
<1>1. CASE AgentStart
  BY <1>1 DEF AgentStart, Start, StartSkips, StartFails, StartRuns, MayStart, Unnoticed
<1>2. CASE Shutdown
  BY <1>2 DEF Shutdown
<1>3. ASSUME NEW p \in Proc, ProcessEnds(p) PROVE OneWaited'
  BY <1>3 DEF ProcessEnds
<1>4. ASSUME NEW p \in Proc, WaiterMarks(p) PROVE OneWaited'
  BY <1>4 DEF WaiterMarks, RunningAfterWait
<1>5. ASSUME NEW p \in Proc, WaiterDecides(p) PROVE OneWaited'
  BY <1>5 DEF WaiterDecides, WaiterEnds
<1>6. ASSUME NEW p \in Proc, WaiterGivesUp(p) PROVE OneWaited'
  BY <1>6 DEF WaiterGivesUp, WaiterEnds
<1>7. ASSUME NEW p \in Proc, WaiterRestarts(p) PROVE OneWaited'
  BY <1>7 DEF WaiterRestarts, WaiterEnds, StartSkips, StartFails, StartRuns, MayStart, Unnoticed
<1>8. ASSUME NEW s \in Stream, StreamOpens(s) PROVE OneWaited'
  BY <1>8 DEF StreamOpens, ParentsOpened
<1>9. ASSUME NEW s \in Stream, StreamDrops(s) PROVE OneWaited'
  BY <1>9 DEF StreamDrops
<1>10. ASSUME NEW s \in Stream, ReceivePush(s) PROVE OneWaited'
  BY <1>10 DEF ReceivePush, Move
<1>11. ASSUME NEW s \in Stream, WriteConfig(s) PROVE OneWaited'
  BY <1>11 DEF WriteConfig, Move
<1>12. ASSUME NEW s \in Stream, StopXray(s) PROVE OneWaited'
  BY <1>12 DEF StopXray, Move, StoppedCurrent
<1>13. ASSUME NEW s \in Stream, RestartXray(s) PROVE OneWaited'
  BY <1>13 DEF RestartXray, Move, Start, StartSkips, StartFails, StartRuns, MayStart, Unnoticed
<1>14. CASE UNCHANGED vars
  BY <1>14 DEF vars
<1> QED
  BY <1>1, <1>2, <1>3, <1>4, <1>5, <1>6, <1>7, <1>8, <1>9, <1>10, <1>11, <1>12, <1>13, <1>14
    DEF Next, Waiting, Applying

\* The faults a behaviour may meet never change.
LEMMA FaultsKept ==
  ASSUME [Next]_vars
  PROVE  faults' = faults
<1>1. CASE AgentStart
  BY <1>1 DEF AgentStart
<1>2. CASE Shutdown
  BY <1>2 DEF Shutdown
<1>3. ASSUME NEW p \in Proc, ProcessEnds(p) \/ Waiting(p) PROVE faults' = faults
  BY <1>3 DEF ProcessEnds, Waiting, WaiterMarks, WaiterDecides, WaiterGivesUp, WaiterRestarts
<1>4. ASSUME NEW s \in Stream, StreamOpens(s) \/ StreamDrops(s) \/ ReceivePush(s) \/ Applying(s)
      PROVE  faults' = faults
  BY <1>4 DEF StreamOpens, StreamDrops, ReceivePush, Applying, WriteConfig, StopXray, RestartXray
<1>5. CASE UNCHANGED vars
  BY <1>5 DEF vars
<1> QED
  BY <1>1, <1>2, <1>3, <1>4, <1>5 DEF Next

\* The invariant that the theorems below rest on.
PromptInv == TypeOK /\ ParentsOpened /\ (Prompt => OneWaited)

\* OneWaited holds of every behaviour in which no Start overtakes a late waiter.
THEOREM PromptInvariant == Spec => []PromptInv
<1>1. Init => PromptInv
  <2>1. ASSUME Init PROVE ParentsOpened /\ OneWaited
    BY <2>1 DEF Init, ParentsOpened, OneWaited, Active
  <2> QED
    BY <2>1, TypeOKInit DEF PromptInv
<1>2. ASSUME PromptInv, [Next]_vars PROVE PromptInv'
  <2>1. TypeOK' /\ ParentsOpened'
    BY <1>2, TypeOKStep, ParentsOpenedStep DEF PromptInv
  <2>2. ASSUME Prompt' PROVE OneWaited'
    BY <1>2, <2>2, OneWaitedStep, FaultsKept DEF PromptInv, Prompt
  <2> QED
    BY <2>1, <2>2 DEF PromptInv
<1>3. QED
  BY <1>1, <1>2, PTL DEF Spec

\* Restarts after a failure, and configs applied by old and new streams, never leave
\* two processes running.
THEOREM OnlyOneActive == Spec => []OneActive
<1>1. PromptInv => OneActive
  BY DEF PromptInv, OneWaited, OneActive
<1>2. QED
  BY <1>1, PromptInvariant, PTL

\* A process that runs is reported as running.
THEOREM AliveReported == Spec => []AliveIsReported
<1>1. PromptInv => AliveIsReported
  BY DEF PromptInv, OneWaited, AliveIsReported
<1>2. QED
  BY <1>1, PromptInvariant, PTL

\* Only Stop moves an ApplyConfig from "stop" to "start", and it leaves no process
\* running.
LEMMA StopEndsAllStep ==
  ASSUME PromptInv, [Next]_vars
  PROVE  StopEndsAll
<1> USE DEF PromptInv, TypeOK, OneWaited, StopEndsAll
<1>1. CASE AgentStart
  BY <1>1 DEF AgentStart, Start, StartSkips, StartFails, StartRuns
<1>2. CASE Shutdown
  BY <1>2 DEF Shutdown
<1>3. ASSUME NEW p \in Proc, ProcessEnds(p) PROVE StopEndsAll
  BY <1>3 DEF ProcessEnds
<1>4. ASSUME NEW p \in Proc, WaiterMarks(p) PROVE StopEndsAll
  BY <1>4 DEF WaiterMarks, RunningAfterWait
<1>5. ASSUME NEW p \in Proc, WaiterDecides(p) PROVE StopEndsAll
  BY <1>5 DEF WaiterDecides, WaiterEnds
<1>6. ASSUME NEW p \in Proc, WaiterGivesUp(p) PROVE StopEndsAll
  BY <1>6 DEF WaiterGivesUp, WaiterEnds
<1>7. ASSUME NEW p \in Proc, WaiterRestarts(p) PROVE StopEndsAll
  BY <1>7 DEF WaiterRestarts, WaiterEnds, StartSkips, StartFails, StartRuns
<1>8. ASSUME NEW s \in Stream, StreamOpens(s) PROVE StopEndsAll
  BY <1>8 DEF StreamOpens
<1>9. ASSUME NEW s \in Stream, StreamDrops(s) PROVE StopEndsAll
  BY <1>9 DEF StreamDrops
<1>10. ASSUME NEW s \in Stream, ReceivePush(s) PROVE StopEndsAll
  BY <1>10 DEF ReceivePush, Move
<1>11. ASSUME NEW s \in Stream, WriteConfig(s) PROVE StopEndsAll
  BY <1>11 DEF WriteConfig, Move
<1>12. ASSUME NEW s \in Stream, StopXray(s) PROVE StopEndsAll
  BY <1>12 DEF StopXray, Move, StoppedCurrent, Active, Cancelled
<1>13. ASSUME NEW s \in Stream, RestartXray(s) PROVE StopEndsAll
  BY <1>13 DEF RestartXray, Move, Start, StartSkips, StartFails, StartRuns
<1>14. CASE UNCHANGED vars
  BY <1>14 DEF vars
<1> QED
  BY <1>1, <1>2, <1>3, <1>4, <1>5, <1>6, <1>7, <1>8, <1>9, <1>10, <1>11, <1>12, <1>13, <1>14
    DEF Next, Waiting, Applying

\* After Stop no Xray process is left that was not told to end.
THEOREM StopKills == Spec => StopLeavesNothing
<1>1. PromptInv /\ [Next]_vars => StopEndsAll
  BY StopEndsAllStep
<1>2. QED
  BY <1>1, PromptInvariant, PTL DEF Spec, StopLeavesNothing

\* A process that runs with an older config than the file is about to be stopped by
\* an ApplyConfig that has written the file.
ConfigIsComing ==
    \A p \in Active : config[p] # file => \E s \in Stream : apply[s] = "stop"

\* Every step keeps ConfigIsComing.
LEMMA ConfigIsComingStep ==
  ASSUME Prompt, PromptInv, ConfigIsComing, [Next]_vars
  PROVE  ConfigIsComing'
<1> USE DEF PromptInv, TypeOK, ConfigIsComing, Active, Cancelled
<1>1. CASE AgentStart
  BY <1>1 DEF AgentStart, Start, StartSkips, StartFails, StartRuns
<1>2. CASE Shutdown
  BY <1>2 DEF Shutdown
<1>3. ASSUME NEW p \in Proc, ProcessEnds(p) PROVE ConfigIsComing'
  BY <1>3 DEF ProcessEnds
<1>4. ASSUME NEW p \in Proc, WaiterMarks(p) PROVE ConfigIsComing'
  BY <1>4 DEF WaiterMarks, RunningAfterWait
<1>5. ASSUME NEW p \in Proc, WaiterDecides(p) PROVE ConfigIsComing'
  BY <1>5 DEF WaiterDecides, WaiterEnds
<1>6. ASSUME NEW p \in Proc, WaiterGivesUp(p) PROVE ConfigIsComing'
  BY <1>6 DEF WaiterGivesUp, WaiterEnds
<1>7. ASSUME NEW p \in Proc, WaiterRestarts(p) PROVE ConfigIsComing'
  BY <1>7 DEF WaiterRestarts, WaiterEnds, StartSkips, StartFails, StartRuns
<1>8. ASSUME NEW s \in Stream, StreamOpens(s) PROVE ConfigIsComing'
  BY <1>8 DEF StreamOpens, ParentsOpened
<1>9. ASSUME NEW s \in Stream, StreamDrops(s) PROVE ConfigIsComing'
  BY <1>9 DEF StreamDrops
<1>10. ASSUME NEW s \in Stream, ReceivePush(s) PROVE ConfigIsComing'
  BY <1>10 DEF ReceivePush, Move
<1>11. ASSUME NEW s \in Stream, WriteConfig(s) PROVE ConfigIsComing'
  BY <1>11 DEF WriteConfig, Move
<1>12. ASSUME NEW s \in Stream, StopXray(s) PROVE ConfigIsComing'
  <2>1. apply[s] = "stop" /\ apply'[s] = "start"
    BY <1>12 DEF StopXray, Move
  <2>2. Active' = {}
    BY <2>1, StopEndsAllStep DEF StopEndsAll
  <2> QED
    BY <2>2
<1>13. ASSUME NEW s \in Stream, RestartXray(s) PROVE ConfigIsComing'
  BY <1>13 DEF RestartXray, Move, Start, StartSkips, StartFails, StartRuns
<1>14. CASE UNCHANGED vars
  BY <1>14 DEF vars
<1> QED
  BY <1>1, <1>2, <1>3, <1>4, <1>5, <1>6, <1>7, <1>8, <1>9, <1>10, <1>11, <1>12, <1>13, <1>14
    DEF Next, Waiting, Applying

\* Once every ApplyConfig has returned, the process that runs has the last config
\* written, whichever Start it came from.
THEOREM SettledLatest == Spec => []SettledConfigIsLatest
<1> DEFINE Coming == Prompt => ConfigIsComing
<1>1. Init => Coming
  BY DEF Init, ConfigIsComing, Active
<1>2. ASSUME PromptInv, Coming, [Next]_vars PROVE Coming'
  BY <1>2, ConfigIsComingStep, FaultsKept DEF Prompt
<1>3. Coming => SettledConfigIsLatest
  BY DEF ConfigIsComing, SettledConfigIsLatest
<1>4. QED
  <2> HIDE DEF Coming
  <2> QED
    BY <1>1, <1>2, <1>3, PromptInvariant, PTL DEF Spec

-----------------------------------------------------------------------------
(***************************************************************************)
(* While waiters are prompt, XrayManager implements XraySupervisor.        *)
(***************************************************************************)

\* Steps that XraySupervisor does not see.
LEMMA Unseen ==
  ASSUME Active' = Active, \A p \in Active : config'[p] = config[p], file' = file,
         \A s \in Stream : apply'[s] = "stop" <=> apply[s] = "stop"
  PROVE  UNCHANGED Supervisor!vars
<1>1. {[proc |-> p, config |-> config[p]] : p \in Active}'
          = {[proc |-> p, config |-> config[p]] : p \in Active}
  OBVIOUS
<1> QED
  BY <1>1 DEF Supervisor!vars

\* Steps after which nothing runs.
LEMMA NothingRuns ==
  ASSUME Active' = {}, Active # {}, file' = file,
         \A s \in Stream : apply'[s] = "stop" <=> apply[s] = "stop"
  PROVE  Supervisor!End
  BY DEF Supervisor!End

\* A Start runs a process only when none runs.
LEMMA StartIsRun ==
  ASSUME Prompt, PromptInv, NEW ctx \in Ctx, NEW p \in Proc, MayStart, StartRuns(ctx, p),
         file' = file, live' = live, \A s \in Stream : apply'[s] = "stop" <=> apply[s] = "stop"
  PROVE  Supervisor!Run(p)
<1> USE DEF PromptInv, TypeOK, OneWaited
<1>1. Active = {}
  BY DEF StartRuns, AlreadyRunning
<1>2. Active' = {p}
  BY <1>1 DEF StartRuns, Active, Cancelled, MayStart, Unnoticed
<1>3. config'[p] = file
  BY DEF StartRuns
<1> QED
  BY <1>1, <1>2, <1>3 DEF Supervisor!Run

\* The step of a Start.
LEMMA StartSeen ==
  ASSUME Prompt, PromptInv, NEW ctx \in Ctx, Start(ctx),
         file' = file, live' = live, \A s \in Stream : apply'[s] = "stop" <=> apply[s] = "stop"
  PROVE  [Supervisor!Next]_(Supervisor!vars)
<1>1. CASE (StartSkips \/ StartFails(ctx)) /\ UNCHANGED procs
  BY <1>1, Unseen DEF Active, Cancelled
<1>2. CASE \E p \in Proc : StartRuns(ctx, p)
  BY <1>2, StartIsRun DEF Start, Supervisor!Next
<1> QED
  BY <1>1, <1>2 DEF Start

\* Every step is a step of XraySupervisor or is not seen.
LEMMA SupervisorStep ==
  ASSUME Prompt, PromptInv, [Next]_vars
  PROVE  [Supervisor!Next]_(Supervisor!vars)
<1> USE DEF PromptInv, TypeOK, Active, Cancelled
<1>1. CASE AgentStart
  BY <1>1, StartSeen DEF AgentStart
<1>2. CASE Shutdown \/ \E s \in Stream : StreamDrops(s)
  <2>1. Active' \subseteq Active /\ UNCHANGED <<file, apply, config>>
    BY <1>2 DEF Shutdown, StreamDrops
  <2>2. Active' = Active \/ Active' = {}
    BY <2>1 DEF OneWaited
  <2> QED
    BY <2>1, <2>2, Unseen, NothingRuns DEF Supervisor!Next
<1>3. ASSUME NEW p \in Proc, ProcessEnds(p) PROVE [Supervisor!Next]_(Supervisor!vars)
  <2>1. Active' = Active \ {p} /\ UNCHANGED <<file, apply, config>>
    BY <1>3 DEF ProcessEnds
  <2>2. Active' = Active \/ Active' = {}
    BY <2>1 DEF OneWaited
  <2> QED
    BY <2>1, <2>2, Unseen, NothingRuns DEF Supervisor!Next
<1>4. ASSUME NEW p \in Proc, WaiterMarks(p) PROVE [Supervisor!Next]_(Supervisor!vars)
  BY <1>4, Unseen DEF WaiterMarks
<1>5. ASSUME NEW p \in Proc, WaiterEnds(p), waiter[p] # "waiting", UNCHANGED <<live, file, apply>>
      PROVE  [Supervisor!Next]_(Supervisor!vars)
  BY <1>5, Unseen DEF WaiterEnds, OneWaited
<1>6. ASSUME NEW p \in Proc, WaiterDecides(p) \/ WaiterGivesUp(p)
      PROVE  [Supervisor!Next]_(Supervisor!vars)
  BY <1>5, <1>6, Unseen DEF WaiterDecides, WaiterGivesUp
<1>7. ASSUME NEW p \in Proc, WaiterRestarts(p) PROVE [Supervisor!Next]_(Supervisor!vars)
  BY <1>5, <1>7, StartIsRun DEF WaiterRestarts, Supervisor!Next
<1>8. ASSUME NEW s \in Stream, StreamOpens(s) PROVE [Supervisor!Next]_(Supervisor!vars)
  BY <1>8, Unseen DEF StreamOpens, ParentsOpened
<1>9. ASSUME NEW s \in Stream, ReceivePush(s) PROVE [Supervisor!Next]_(Supervisor!vars)
  BY <1>9, Unseen DEF ReceivePush, Move
<1>10. ASSUME NEW s \in Stream, WriteConfig(s) PROVE [Supervisor!Next]_(Supervisor!vars)
  <2>1. CASE file' = file + 1
    <3>1. Active' = Active /\ config' = config
      BY <1>10 DEF WriteConfig
    <3>2. Supervisor!Write(s)
      BY <1>10, <2>1, <3>1 DEF WriteConfig, Move, Supervisor!Write
    <3> QED
      BY <3>2 DEF Supervisor!Next
  <2>2. CASE file' = file
    BY <1>10, <2>2, Unseen DEF WriteConfig, Move
  <2> QED
    BY <1>10, <2>1, <2>2 DEF WriteConfig
<1>11. ASSUME NEW s \in Stream, StopXray(s) PROVE [Supervisor!Next]_(Supervisor!vars)
  <2>1. Active' = {}
    BY <1>11, StopEndsAllStep DEF StopEndsAll, StopXray, Move
  <2>2. Supervisor!Replace(s)
    BY <1>11, <2>1 DEF StopXray, Move, Supervisor!Replace
  <2> QED
    BY <2>2 DEF Supervisor!Next
<1>12. ASSUME NEW s \in Stream, RestartXray(s) PROVE [Supervisor!Next]_(Supervisor!vars)
  BY <1>12, StartSeen DEF RestartXray, Move
<1>13. CASE UNCHANGED vars
  BY <1>13, Unseen DEF vars
<1> QED
  BY <1>1, <1>2, <1>3, <1>4, <1>6, <1>7, <1>8, <1>9, <1>10, <1>11, <1>12, <1>13
    DEF Next, Waiting, Applying

\* Waiters, contexts and ApplyConfigs of several streams are one supervised process.
THEOREM SupervisorImplemented == Spec => SupervisorSpec
<1>1. Init => Supervisor!Init
  BY DEF Init, Supervisor!Init, Active
<1>2. PromptInv /\ [Next]_vars => [Prompt => Supervisor!Next]_(Supervisor!vars)
  BY SupervisorStep
<1> QED
  BY <1>1, <1>2, PromptInvariant, PTL DEF Spec, SupervisorSpec

\* And so what runs is up to date unless an ApplyConfig is about to replace it: a fact
\* about XraySupervisor alone, which the manager inherits.
THEOREM UpToDateInherited == Spec => [](Prompt => Supervisor!UpToDate)
<1>1. Init => Supervisor!UpToDate
  BY DEF Init, Active, Supervisor!UpToDate
<1>2. Supervisor!UpToDate /\ [Supervisor!Next]_(Supervisor!vars) => Supervisor!UpToDate'
  <2> SUFFICES ASSUME Supervisor!UpToDate, [Supervisor!Next]_(Supervisor!vars)
               PROVE  Supervisor!UpToDate'
    OBVIOUS
  <2> USE DEF Supervisor!UpToDate
  <2>1. ASSUME NEW s \in Stream, Supervisor!Write(s) PROVE Supervisor!UpToDate'
    BY <2>1 DEF Supervisor!Write
  <2>2. CASE Supervisor!End \/ \E s \in Stream : Supervisor!Replace(s)
    BY <2>2 DEF Supervisor!End, Supervisor!Replace
  <2>3. ASSUME NEW p \in Proc, Supervisor!Run(p) PROVE Supervisor!UpToDate'
    BY <2>3 DEF Supervisor!Run
  <2>4. CASE UNCHANGED Supervisor!vars
    BY <2>4 DEF Supervisor!vars
  <2> QED
    BY <2>1, <2>2, <2>3, <2>4 DEF Supervisor!Next
<1>3. PromptInv /\ (Prompt => Supervisor!UpToDate) /\ [Next]_vars => (Prompt => Supervisor!UpToDate)'
  BY <1>2, SupervisorStep, FaultsKept DEF Prompt
<1> QED
  BY <1>1, <1>3, PromptInvariant, PTL DEF Spec

=============================================================================
