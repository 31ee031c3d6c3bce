----------------------------- MODULE NodeControl -----------------------------
(***************************************************************************)
(* One node agent and the panel's register, joined by the streams the      *)
(* agent opens.  The agent dials with the secret it has, the register's    *)
(* handlers interleave (a handler of a broken stream may still run), and   *)
(* the acknowledgement, with the new secret, may never arrive.             *)
(***************************************************************************)

CONSTANTS
    Conn, NoConn, Doomed, DbMayFail,    \* of NodeRegistry
    FaultChoices                        \* the sets of faults a behaviour may meet

VARIABLES
    record, status, secret, streams, snapshots, pc, presented, nodeOf, open,
    told, delPc, delTo,                         \* the panel: NodeRegistry
    at, link, mem, cfg, file, env, faults       \* the node: NodeAgent

Panel == INSTANCE NodeRegistry
Agent == INSTANCE NodeAgent

ASSUME ConnAssumption == NoConn \notin Conn
ASSUME DoomedAssumption == Doomed \subseteq Conn
ASSUME DbMayFailAssumption == DbMayFail \in BOOLEAN
ASSUME FaultsAssumption == FaultChoices \subseteq SUBSET Agent!AllFaults

panel == <<record, status, secret, streams, snapshots, pc, presented, nodeOf,
           open, told, delPc, delTo>>
agent == <<at, link, mem, cfg, file, env, faults>>
vars == <<panel, agent>>

TypeOK == Panel!TypeOK /\ Agent!TypeOK

Init == faults \in FaultChoices /\ Panel!Init /\ Agent!Init

AgentStarts == Agent!Start /\ UNCHANGED panel

\* The agent opens a stream and its Handshake arrives.
AgentConnects(c) ==
    /\ Agent!Connect(c)
    /\ Panel!ReceiveHandshake(c, Agent!SecretToPresent)

\* The ack the handler has sent arrives, with the secret that handler issued.
AckArrives ==
    /\ link \in open
    /\ pc[link] \in {"install"} \cup Panel!Registered
    /\ Agent!ReceiveAck(Panel!NewSecret(link))
    /\ UNCHANGED panel

AgentPersists == (Agent!OpenFile \/ Agent!WriteFile) /\ UNCHANGED panel

\* The agent finds its stream gone: rejected, broken, or ended by the panel.
AgentSeesEnd ==
    /\ link \notin open
    /\ Agent!Disconnected
    /\ UNCHANGED panel

\* The panel's Disconnect arrives: the agent closes the stream.
DisconnectArrives ==
    /\ at = "serving" /\ link \in told
    /\ Agent!Disconnected
    /\ Panel!Break(link)

AgentStops ==
    /\ Agent!Stop
    /\ IF link \in open THEN Panel!Break(link) ELSE UNCHANGED panel

\* The transport breaks, during a handshake only where faults says so.
LinkBreaks(c) ==
    /\ c = link => at = "serving" \/ "link" \in faults
    /\ Panel!Break(c)
    /\ UNCHANGED agent

\* The panel's handlers; messages come only from an agent that serves.
PanelHandles(c) ==
    /\ \/ Panel!Answering(c) \/ Panel!UpdateSnapshot(c) \/ Panel!Leaving(c)
       \/ at = "serving" /\ c = link /\ Panel!ReceiveReport(c)
    /\ UNCHANGED agent

\* heartbeatLoop: the agent sends a heartbeat on the stream it serves.
Heartbeat(c) ==
    /\ at = "serving" /\ c = link
    /\ Panel!ReceiveHeartbeat(c)
    /\ UNCHANGED agent

PanelDeletes(n) == Panel!Deleting(n) /\ UNCHANGED agent

\* The panel restarts, during a handshake only where the link may break then.
PanelRestarts ==
    /\ at \in {"down", "dial", "serving"} \/ "link" \in faults
    /\ Panel!Restart
    /\ UNCHANGED agent

AgentActs == \/ AgentStarts \/ (\E c \in Conn : AgentConnects(c)) \/ AckArrives
             \/ AgentPersists \/ AgentSeesEnd \/ DisconnectArrives

Next == \/ AgentActs \/ AgentStops \/ PanelRestarts
        \/ \E c \in Conn : PanelHandles(c) \/ Heartbeat(c) \/ LinkBreaks(c)
        \/ \E n \in Conn : PanelDeletes(n)

Spec == Init /\ [][Next]_vars

\* The agent keeps dialling and serving and sends heartbeats; the panel runs its
\* handlers.  Nothing makes transports break, processes end, or administrators act.
FairSpec ==
    /\ Spec
    /\ WF_vars(AgentActs)
    /\ \A c \in Conn : /\ WF_vars(Panel!Answering(c) /\ UNCHANGED agent)
                       /\ WF_vars(Panel!UpdateSnapshot(c) /\ UNCHANGED agent)
                       /\ WF_vars(Panel!Leaving(c) /\ UNCHANGED agent)
                       /\ WF_vars(Heartbeat(c))

-----------------------------------------------------------------------------

\* No fault hits a handshake: streams break while they serve, either side restarts
\* between handshakes, and handlers of broken streams still linger.
Quiet == faults = {}

\* The secret the agent would present now, from memory or configuration, is held by
\* a row, and by a live one unless an administrator deleted it.
KnownSecretIsHeld ==
    at = "dial" /\ Agent!SecretToPresent # NoConn =>
        \E n \in Conn : secret[n] = Agent!SecretToPresent

\* When no fault hits a handshake, rotation never separates agent and panel.
QuietSecretIsHeld == Quiet => KnownSecretIsHeld

\* And the agent never becomes a second node: only an agent without a secret registers,
\* and it has none only as long as the panel has no row of it.
QuietAgentIsOneNode ==
    Quiet => \A m, n \in Conn : record[m] # "absent" /\ record[n] # "absent" => m = n

\* The process does not die in a handshake and no transport breaks there; the file
\* may not be written and an operator may set RECONNECT_SECRET.
Orderly == faults \cap {"link", "crash"} = {}

\* Then the secret in the agent's memory is held by a row whenever it dials or serves:
\* what the other faults spoil shows at the next start of the process, not before.
OrderlyMemoryIsHeld ==
    Orderly /\ at \in {"dial", "serving"} /\ mem # NoConn => \E n \in Conn : secret[n] = mem

\* The agent's secret is not that of any row, and it is not in the middle of a
\* handshake that was begun while it still was.
LockedOut ==
    /\ at = "dial" \/ (at = "handshake" /\ pc[link] \in {"lookup", "closed"})
    /\ Agent!SecretToPresent # NoConn
    /\ Panel!RowsWithSecret(Agent!SecretToPresent) = {}

\* Without faults in handshakes an agent is locked out only by an administrator: the
\* very row whose secret it has was deleted.
QuietLockOutIsDeliberate ==
    Quiet /\ LockedOut =>
        \E n \in Doomed : record[n] = "deleted" /\ secret[n] = Agent!SecretToPresent

\* An agent once locked out presents the same secret for ever and is never let in
\* again, however often it retries, until its process ends.
LockOutIsForGood == [][LockedOut => LockedOut' \/ at' = "down"]_vars

\* Every quiet handshake ends in service unless the node was deleted: after any
\* number of broken streams and restarts of either side the node gets back in.
NodeReconnects ==
    Quiet /\ at = "handshake"
        ~> (at \in {"serving", "down"} \/ \E n \in Doomed : record[n] = "deleted")

\* A handler whose transport is gone ends, and neither its entry in the streams map
\* nor its snapshot stays behind, whatever the handlers of the agent's other streams
\* and the deletion of its node do meanwhile.
BrokenStreamIsCleanedUp ==
    []<>\A c \in Conn : c \notin open =>
            /\ pc[c] \notin Panel!Running
            /\ \A n \in Conn : streams[n] # c /\ snapshots[n] # c

\* The offline status that the handler of an older stream leaves on a node that is
\* connected again is healed by the agent's heartbeats.
HeartbeatHealsStatus ==
    at = "serving" ~>
        \/ at # "serving"
        \/ \E n \in Conn : nodeOf[link] = n /\ (status[n] = "online" \/ record[n] # "live")

=============================================================================
