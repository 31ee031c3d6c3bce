----------------------------- MODULE XrayManager -----------------------------
(***************************************************************************)
(* The node's Xray manager: the fields running and cancel under its mutex, *)
(* the processes it started with the goroutine that waits for each, and    *)
(* ApplyConfig, called by the receive loop of a panel stream with that     *)
(* stream's context.  m.cmd is written and never read: it is left out.     *)
(***************************************************************************)
EXTENDS Naturals, FiniteSets

CONSTANTS
    Proc,       \* names for the processes alive or waited for at one time
    NoProc,     \* no cancel function
    Stream,     \* the panel streams the agent opens, one after the other
    Root,       \* the agent's own context
    MaxPush,    \* bound: the number of configs written
    FaultChoices \* the sets of faults a behaviour may meet

\* What may go wrong.
AllFaults == {"late",   \* a Start overtakes the waiter of a dead process
              "io"}     \* the binary fails to start, the file cannot be written

ASSUME NamesAssumption == NoProc \notin Proc /\ Root \notin Stream
ASSUME BoundAssumption == MaxPush \in Nat
ASSUME FaultsAssumption == FaultChoices \subseteq SUBSET AllFaults

VARIABLES
    running,    \* Manager.running
    cancel,     \* Manager.cancel: the process whose context it cancels
    file,       \* config.json, by the number of the push that wrote it
    state,      \* process -> "alive", "failed" or "clean" (exit status), "gone"
    waiter,     \* process -> where the goroutine waiting for it is
    parent,     \* process -> the context its own was derived from
    stopped,    \* the processes whose own context was cancelled
    config,     \* process -> the config it was started with
    live,       \* the contexts not cancelled, of the agent and its streams
    apply,      \* stream -> where the ApplyConfig of its receive loop is
    agent,      \* whether Agent.Run has made its first Start
    faults      \* which of AllFaults this behaviour may meet, chosen once

procs == <<state, waiter, parent, stopped, config>>
vars == <<running, cancel, file, procs, live, apply, agent, faults>>

Ctx == Stream \cup {Root}

TypeOK ==
    /\ running \in BOOLEAN
    /\ cancel \in Proc \cup {NoProc}
    /\ file \in Nat
    /\ state \in [Proc -> {"alive", "failed", "clean", "gone"}]
    /\ waiter \in [Proc -> {"none", "waiting", "marked", "delay"}]
    /\ parent \in [Proc -> Ctx]
    /\ stopped \subseteq Proc
    /\ config \in [Proc -> Nat]
    /\ live \subseteq Ctx
    /\ apply \in [Stream -> {"unopened", "idle", "write", "stop", "start"}]
    /\ agent \in BOOLEAN
    /\ faults \subseteq AllFaults

Init ==
    /\ running = FALSE /\ cancel = NoProc
    /\ file = 0
    /\ state = [p \in Proc |-> "gone"]
    /\ waiter = [p \in Proc |-> "none"]
    /\ parent = [p \in Proc |-> Root]
    /\ stopped = {}
    /\ config = [p \in Proc |-> 0]
    /\ live = {Root}
    /\ apply = [s \in Stream |-> "unopened"]
    /\ agent = FALSE
    /\ faults \in FaultChoices

\* Whether the process's context is done: by Stop, or with the one it derives from.
Cancelled(p) == p \in stopped \/ parent[p] \notin live

\* Processes that run and that nobody has asked to end.
Active == {p \in Proc : state[p] = "alive" /\ ~Cancelled(p)}

\* A process is on its way out while its waiter has not noticed.
Unnoticed == {p \in Proc : waiter[p] = "waiting" /\ p \notin Active}

-----------------------------------------------------------------------------

\* Fault model of the next definition: a running manager starts another process.
NeverRunning == FALSE

AlreadyRunning == running

StartSkips == AlreadyRunning /\ UNCHANGED <<running, cancel>>

\* cmd.Start fails, always so when ctx is done.  The cancel function of the failed
\* attempt replaces the old one and has nothing to cancel.
StartFails(ctx) ==
    /\ ~AlreadyRunning
    /\ ctx \notin live \/ "io" \in faults
    /\ cancel' = NoProc
    /\ UNCHANGED running

\* cmd.Start succeeds: process p runs with the config file as it is now.
StartRuns(ctx, p) ==
    /\ ~AlreadyRunning
    /\ ctx \in live
    /\ running' = TRUE
    /\ cancel' = p
    /\ state' = [state EXCEPT ![p] = "alive"]
    /\ waiter' = [waiter EXCEPT ![p] = "waiting"]
    /\ parent' = [parent EXCEPT ![p] = ctx]
    /\ stopped' = stopped \ {p}
    /\ config' = [config EXCEPT ![p] = file]

\* Every waiter notices the end of its process before the next Start.
Prompt == "late" \notin faults

\* A Start waits for the waiter of a process on its way out, or may overtake it.
MayStart == ~Prompt \/ Unnoticed = {}

\* Start(ctx), under the mutex.
Start(ctx) ==
    /\ MayStart
    /\ \/ (StartSkips \/ StartFails(ctx)) /\ UNCHANGED procs
       \/ \E p \in Proc : waiter[p] = "none" /\ StartRuns(ctx, p)

\* Agent.Run starts Xray once, before the first connection.
AgentStart ==
    /\ ~agent
    /\ agent' = TRUE
    /\ Start(Root)
    /\ UNCHANGED <<file, live, apply, faults>>

\* The process ends: killed when its context is done, else by itself.
ProcessEnds(p) ==
    /\ state[p] = "alive"
    /\ \/ state' = [state EXCEPT ![p] = "failed"]
       \/ ~Cancelled(p) /\ state' = [state EXCEPT ![p] = "clean"]
    /\ UNCHANGED <<running, cancel, file, waiter, parent, stopped, config, live, apply, agent, faults>>

\* Fault model of the next definition: the waiter leaves running alone.
RunningUntouched == running

\* The waiter clears running, whichever process is the current one.
RunningAfterWait == FALSE

WaiterMarks(p) ==
    /\ waiter[p] = "waiting" /\ state[p] \in {"failed", "clean"}
    /\ running' = RunningAfterWait
    /\ waiter' = [waiter EXCEPT ![p] = "marked"]
    /\ UNCHANGED <<cancel, file, state, parent, stopped, config, live, apply, agent, faults>>

\* The goroutine ends: nothing of the process is left but its cancel function.
WaiterEnds(p) ==
    /\ waiter' = [waiter EXCEPT ![p] = "none"]
    /\ state' = [state EXCEPT ![p] = "gone"]
    /\ parent' = [parent EXCEPT ![p] = Root]
    /\ stopped' = stopped \ {p}
    /\ config' = [config EXCEPT ![p] = 0]

\* Fault model of the next definition: every exit is taken for an ordinary one.
NeverUnexpected(p) == FALSE

Unexpected(p) == state[p] = "failed" /\ ~Cancelled(p)

\* After an unexpected exit the waiter sleeps for three seconds.
WaiterDecides(p) ==
    /\ waiter[p] = "marked"
    /\ \/ /\ Unexpected(p)
          /\ waiter' = [waiter EXCEPT ![p] = "delay"]
          /\ UNCHANGED <<state, parent, stopped, config>>
       \/ ~Unexpected(p) /\ WaiterEnds(p)
    /\ UNCHANGED <<running, cancel, file, live, apply, agent, faults>>

\* The context is done before the sleep is over.
WaiterGivesUp(p) ==
    /\ waiter[p] = "delay" /\ parent[p] \notin live
    /\ WaiterEnds(p)
    /\ UNCHANGED <<running, cancel, file, live, apply, agent, faults>>

\* The sleep is over: Start with the context of the process that exited, whose
\* name is free for the process started in its place.
WaiterRestarts(p) ==
    /\ waiter[p] = "delay"
    /\ MayStart
    /\ \/ (StartSkips \/ StartFails(parent[p])) /\ WaiterEnds(p)
       \/ StartRuns(parent[p], p)
    /\ UNCHANGED <<file, live, apply, agent, faults>>

-----------------------------------------------------------------------------

\* The agent connects to the panel; at most one stream is in use.
StreamOpens(s) ==
    /\ agent /\ live = {Root} /\ apply[s] = "unopened"
    /\ live' = live \cup {s}
    /\ apply' = [apply EXCEPT ![s] = "idle"]
    /\ UNCHANGED <<running, cancel, file, procs, agent, faults>>

\* connectAndServe returns and cancels the stream's context; its receive loop may
\* still be inside ApplyConfig.
StreamDrops(s) ==
    /\ s \in live
    /\ live' = live \ {s}
    /\ UNCHANGED <<running, cancel, file, procs, apply, agent, faults>>

\* The agent is told to shut down: every context is done.
Shutdown ==
    /\ agent /\ Root \in live
    /\ live' = {}
    /\ UNCHANGED <<running, cancel, file, procs, apply, agent, faults>>

Move(s, from, to) == apply[s] = from /\ apply' = [apply EXCEPT ![s] = to]

\* A ConfigPush arrives.
ReceivePush(s) ==
    /\ s \in live
    /\ file + Cardinality({t \in Stream : apply[t] = "write"}) < MaxPush
    /\ Move(s, "idle", "write")
    /\ UNCHANGED <<running, cancel, file, procs, live, agent, faults>>

\* Fault model of the next definition: Start without Stop.
WriteThenStart(s) ==
    /\ Move(s, "write", "start")
    /\ file' = file + 1
    /\ UNCHANGED <<running, cancel, procs, live, agent, faults>>

\* ApplyConfig writes the file; when it cannot it returns at once.
WriteConfig(s) ==
    /\ \/ Move(s, "write", "stop") /\ file' = file + 1
       \/ "io" \in faults /\ Move(s, "write", "idle") /\ UNCHANGED file
    /\ UNCHANGED <<running, cancel, procs, live, agent, faults>>

\* Fault model of the next definition: Stop forgets the process.
StoppedNobody == stopped

\* Stop cancels the context of the process whose cancel function it has.
StoppedCurrent == stopped \cup {p \in {cancel} \cap Proc : waiter[p] # "none"}

\* Restart, first half: Stop.
StopXray(s) ==
    /\ Move(s, "stop", "start")
    /\ stopped' = StoppedCurrent
    /\ cancel' = NoProc
    /\ running' = FALSE
    /\ UNCHANGED <<file, state, waiter, parent, config, live, agent, faults>>

\* Restart, second half, half a second later: Start with the stream's context.
RestartXray(s) ==
    /\ Move(s, "start", "idle")
    /\ Start(s)
    /\ UNCHANGED <<file, live, agent, faults>>

-----------------------------------------------------------------------------

Waiting(p) == WaiterMarks(p) \/ WaiterDecides(p) \/ WaiterGivesUp(p) \/ WaiterRestarts(p)
Applying(s) == WriteConfig(s) \/ StopXray(s) \/ RestartXray(s)

Next == \/ AgentStart \/ Shutdown
        \/ \E p \in Proc : ProcessEnds(p) \/ Waiting(p)
        \/ \E s \in Stream : StreamOpens(s) \/ StreamDrops(s) \/ ReceivePush(s) \/ Applying(s)

Spec == Init /\ [][Next]_vars

\* Goroutines run, sleeps end, and a process told to end ends.
FairSpec ==
    /\ Spec
    /\ \A p \in Proc : WF_vars(Waiting(p)) /\ WF_vars(Cancelled(p) /\ ProcessEnds(p))
    /\ \A s \in Stream : WF_vars(Applying(s))

-----------------------------------------------------------------------------

\* running is never left true without a waiter that will clear it: the death of the
\* current process is always noticed, in whatever order Stop, Start and the waiters
\* of older processes run.
RunningIsWatched == running => cancel # NoProc /\ waiter[cancel] = "waiting"

\* While waiters are prompt, no two Xray processes run at once, apart from one that
\* was told to end.
OneActive == Prompt => \A p, q \in Active : p = q

\* "IsRunning returns whether the xray process is alive": while waiters are prompt, a
\* process that runs is reported as running.
AliveIsReported == Prompt /\ Active # {} => running

\* The manager as XraySupervisor sees it: what runs is what nobody has asked to end.
Supervisor == INSTANCE XraySupervisor WITH
    written <- file,
    serving <- {[proc |-> p, config |-> config[p]] : p \in Active},
    replacing <- {s \in Stream : apply[s] = "stop"}

\* While waiters are prompt, starts, automatic restarts, pushes of old and new streams
\* and the ends of their contexts make up one Xray that is replaced, never two.
SupervisorSpec == Supervisor!Init /\ [][Prompt => Supervisor!Next]_(Supervisor!vars)

StopEndsAll ==
    Prompt /\ (\E s \in Stream : apply[s] = "stop" /\ apply'[s] = "start") => Active' = {}

\* "Stop kills the Xray process": while waiters are prompt, nothing runs after Stop.
StopLeavesNothing == [][StopEndsAll]_vars

\* While waiters are prompt and no ApplyConfig is under way, the process that runs has
\* the last config written, whichever ApplyConfig or automatic restart started it.
SettledConfigIsLatest ==
    Prompt /\ (\A s \in Stream : apply[s] \in {"unopened", "idle"}) =>
        \A p \in Active : config[p] = file

\* A process that fails by itself is replaced, unless its context ends.
FailureIsRepaired ==
    \A p \in Proc : (faults = {} /\ state[p] = "failed" /\ ~Cancelled(p))
                        ~> (Active # {} \/ p \in stopped \/ parent[p] \notin live)

-----------------------------------------------------------------------------
\* What a comment of the code says and the code does not do.

\* "Auto-restart after a short delay": a process that ends without Stop or shutdown
\* is replaced.
UnaskedExitIsRepaired ==
    \A p \in Proc : (state[p] = "failed" /\ p \notin stopped)
                        ~> (Active # {} \/ p \in stopped \/ Root \notin live)

=============================================================================
