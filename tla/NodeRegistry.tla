---------------------------- MODULE NodeRegistry ----------------------------
(***************************************************************************)
(* The panel's register of nodes: the rows of table `nodes', the streams   *)
(* map of the gRPC server, the in-memory snapshots, the handler that       *)
(* serves one Connect stream, and the HTTP handler that deletes a node.    *)
(*                                                                         *)
(* A connection is one Connect call.  A handler creates at most one node   *)
(* and at most one reconnect secret, both random and never drawn twice, so *)
(* the connection itself names the node it registers and the secret it     *)
(* issues: Node and Secret are both Conn.                                  *)
(***************************************************************************)

CONSTANTS
    Conn,       \* the Connect calls that may ever be made
    NoConn,     \* the zero value: no stream, no snapshot, empty secret, no node
    Doomed,     \* the nodes that administrators may delete
    DbMayFail   \* whether an access to the database may return an error

ASSUME NoConnAssumption == NoConn \notin Conn
ASSUME DoomedAssumption == Doomed \subseteq Conn
ASSUME DbMayFailAssumption == DbMayFail \in BOOLEAN

Node == Conn
Secret == Conn

VARIABLES
    record,     \* node -> "absent", "live" or "deleted" (deleted_at set)
    status,     \* node -> its row's status
    secret,     \* node -> its row's reconnect_secret
    streams,    \* GRPCServer.streams: node -> connection registered for it
    snapshots,  \* Service.snapshots: node -> connection the snapshot came on
    pc,         \* connection -> where its handler is
    presented,  \* connection -> reconnect secret of its Handshake
    nodeOf,     \* connection -> the handler's nodeID
    open,       \* the connections whose transport is up
    told,       \* the open connections on which a Disconnect was sent
    delPc,      \* node -> where the HTTP handler deleting it is
    delTo       \* node -> the connection that handler read from streams

rows == <<record, status, secret>>
handler == <<pc, presented, nodeOf>>
deletion == <<delPc, delTo>>
vars == <<rows, streams, snapshots, handler, open, told, deletion>>

\* A handler that has begun and not ended.
Running == {"register", "lookup", "save", "ack", "install", "serving",
            "report", "offline", "forget", "forgetOnly"}
\* A handler between its entry into the streams map and its last deferred step.
Registered == {"serving", "report"}
\* The ends of a handler: "noack" returned because the ack could not be sent,
\* "failed" could not write the offline status, "closed" is every other return.
Ended == {"closed", "noack", "failed"}

\* The secrets a node can present: those an ack was sent for.
AckedSecrets == {c \in Conn : pc[c] \in (Running \cup Ended)
                                \ {"register", "lookup", "save", "ack", "noack"}}

TypeOK ==
    /\ record \in [Node -> {"absent", "live", "deleted"}]
    /\ status \in [Node -> {"online", "offline"}]
    /\ secret \in [Node -> Secret \cup {NoConn}]
    /\ streams \in [Node -> Conn \cup {NoConn}]
    /\ snapshots \in [Node -> Conn \cup {NoConn}]
    /\ pc \in [Conn -> {"idle"} \cup Running \cup Ended]
    /\ presented \in [Conn -> Secret \cup {NoConn}]
    /\ nodeOf \in [Conn -> Node \cup {NoConn}]
    /\ open \subseteq Conn
    /\ told \subseteq Conn
    /\ delPc \in [Node -> {"none", "send", "snapshot", "row"}]
    /\ delTo \in [Node -> Conn \cup {NoConn}]

Init ==
    /\ record = [n \in Node |-> "absent"]
    /\ status = [n \in Node |-> "offline"]
    /\ secret = [n \in Node |-> NoConn]
    /\ streams = [n \in Node |-> NoConn]
    /\ snapshots = [n \in Node |-> NoConn]
    /\ pc = [c \in Conn |-> "idle"]
    /\ presented = [c \in Conn |-> NoConn]
    /\ nodeOf = [c \in Conn |-> NoConn]
    /\ open = {}
    /\ told = {}
    /\ delPc = [n \in Node |-> "none"]
    /\ delTo = [n \in Node |-> NoConn]

Goto(c, from, to) == pc[c] = from /\ pc' = [pc EXCEPT ![c] = to]

(***************************************************************************)
(* The handshake.                                                          *)
(***************************************************************************)

\* The stream fails before its first message, its first message is not a
\* Handshake, or the Handshake does not pass verifyAuth.
RefuseStream(c) ==
    /\ Goto(c, "idle", "closed")
    /\ UNCHANGED <<rows, streams, snapshots, presented, nodeOf, open, told, deletion>>

\* An authorised Handshake arrives with reconnect secret s (NoConn: empty).
ReceiveHandshake(c, s) ==
    /\ s \in AckedSecrets \cup {NoConn}
    /\ Goto(c, "idle", IF s = NoConn THEN "register" ELSE "lookup")
    /\ presented' = [presented EXCEPT ![c] = s]
    /\ open' = open \cup {c}
    /\ UNCHANGED <<rows, streams, snapshots, nodeOf, told, deletion>>

\* The handshake error path: the node is sent a HandshakeAck that is not ok.
Reject(c) ==
    /\ pc' = [pc EXCEPT ![c] = "closed"]
    /\ nodeOf' = [nodeOf EXCEPT ![c] = NoConn]
    /\ open' = open \ {c}
    /\ UNCHANGED rows

\* Fault model of the next definition: the row waits for the first heartbeat.
ConnectingAtHandshake == "connecting"

\* The status a handshake writes.
StatusAtHandshake == "online"

\* Fault models of the next definition: a secret is kept by every reconnect, or
\* the row is written before it is drawn.
KeptSecret(c) == IF presented[c] = NoConn THEN c ELSE presented[c]
EmptySecret(c) == NoConn

\* generateSecret: a secret never drawn before.
NewSecret(c) == c

\* Service.Register: a new row, online from the start.
Register(c) ==
    /\ pc[c] = "register"
    /\ \/ /\ record' = [record EXCEPT ![c] = "live"]
          /\ status' = [status EXCEPT ![c] = StatusAtHandshake]
          /\ secret' = [secret EXCEPT ![c] = NewSecret(c)]
          /\ nodeOf' = [nodeOf EXCEPT ![c] = c]
          /\ pc' = [pc EXCEPT ![c] = "ack"]
          /\ UNCHANGED open
       \/ DbMayFail /\ Reject(c)
    /\ UNCHANGED <<streams, snapshots, presented, told, deletion>>

\* Fault model of the next definition: soft-deleted rows are found too.
RowsEvenDeleted(s) == {n \in Node : record[n] # "absent" /\ secret[n] = s}

\* The row that GetByReconnectSecret finds: soft-deleted rows are not seen.
RowsWithSecret(s) == {n \in Node : record[n] = "live" /\ secret[n] = s}

\* Service.Reconnect, first half: read the row that holds the secret.
LookupSecret(c) ==
    /\ pc[c] = "lookup"
    /\ \/ \E n \in RowsWithSecret(presented[c]) :
             /\ nodeOf' = [nodeOf EXCEPT ![c] = n]
             /\ pc' = [pc EXCEPT ![c] = "save"]
             /\ UNCHANGED <<rows, open>>
       \/ (RowsWithSecret(presented[c]) = {} \/ DbMayFail) /\ Reject(c)
    /\ UNCHANGED <<streams, snapshots, presented, told, deletion>>

\* Service.Reconnect, second half: Save the row read before with a new secret.
\* gorm's Save of a row that its UPDATE no longer matches inserts the row again,
\* so that a row soft-deleted since the lookup is live afterwards.
SaveRow(c) ==
    /\ pc[c] = "save"
    /\ \/ /\ record' = [record EXCEPT ![nodeOf[c]] = "live"]
          /\ status' = [status EXCEPT ![nodeOf[c]] = StatusAtHandshake]
          /\ secret' = [secret EXCEPT ![nodeOf[c]] = NewSecret(c)]
          /\ pc' = [pc EXCEPT ![c] = "ack"]
          /\ UNCHANGED <<nodeOf, open>>
       \/ DbMayFail /\ Reject(c)
    /\ UNCHANGED <<streams, snapshots, presented, told, deletion>>

\* The positive HandshakeAck.  When it cannot be sent the handler returns at
\* once: the deferred clean-up has not been set up yet.
SendAck(c) ==
    /\ Goto(c, "ack", IF c \in open THEN "install" ELSE "noack")
    /\ UNCHANGED <<rows, streams, snapshots, presented, nodeOf, open, told, deletion>>

\* Register the stream, over an older one of the same node if there is one.
InstallStream(c) ==
    /\ Goto(c, "install", "serving")
    /\ streams' = [streams EXCEPT ![nodeOf[c]] = c]
    /\ UNCHANGED <<rows, snapshots, presented, nodeOf, open, told, deletion>>

(***************************************************************************)
(* The receive loop.  A message is received only while the transport is    *)
(* up: one still buffered when it broke is received before Break.          *)
(***************************************************************************)

\* Fault model of the next definition: a heartbeat does not touch the status.
MarkNothing(n) == UNCHANGED status

\* Service.MarkOnline: an UPDATE, so a deleted row is left alone.  Its error is
\* dropped.
MarkOnline(n) ==
    \/ status' = [status EXCEPT ![n] = IF record[n] = "live" THEN "online" ELSE @]
    \/ DbMayFail /\ UNCHANGED status

ReceiveHeartbeat(c) ==
    /\ pc[c] = "serving" /\ c \in open
    /\ MarkOnline(nodeOf[c])
    /\ UNCHANGED <<record, secret, streams, snapshots, handler, open, told, deletion>>

\* A StatusReport, first call: MarkOnline.
ReceiveReport(c) ==
    /\ c \in open
    /\ Goto(c, "serving", "report")
    /\ MarkOnline(nodeOf[c])
    /\ UNCHANGED <<record, secret, streams, snapshots, presented, nodeOf, open, told, deletion>>

\* A StatusReport, second call: UpdateSnapshot.
UpdateSnapshot(c) ==
    /\ Goto(c, "report", "serving")
    /\ snapshots' = [snapshots EXCEPT ![nodeOf[c]] = c]
    /\ UNCHANGED <<rows, streams, presented, nodeOf, open, told, deletion>>

(***************************************************************************)
(* The deferred clean-up.                                                  *)
(***************************************************************************)

\* Fault models of the next definition: whoever owns the entry, or never.
RemoveAnyEntry(c) == [streams EXCEPT ![nodeOf[c]] = NoConn]
RemoveNoEntry(c) == streams

\* Only the handler's own entry is removed: it may have been replaced.
RemoveOwnEntry(c) == [streams EXCEPT ![nodeOf[c]] = IF @ = c THEN NoConn ELSE @]

\* Recv returns an error: the stream is unregistered.
Unregister(c) ==
    /\ c \notin open
    /\ Goto(c, "serving", "offline")
    /\ streams' = RemoveOwnEntry(c)
    /\ UNCHANGED <<rows, snapshots, presented, nodeOf, open, told, deletion>>

\* Fault model of the next definition: the status is not written.
OfflineNowhere(c) == status

\* SetStatus is an UPDATE: a row that is not live is left alone.
OfflineRow(c) ==
    [status EXCEPT ![nodeOf[c]] = IF record[nodeOf[c]] = "live" THEN "offline" ELSE @]

\* Service.MarkOffline, the status, whoever serves the node now.  The error of
\* the write is dropped.
MarkOffline(c) ==
    /\ \/ /\ Goto(c, "offline", "forget")
          /\ status' = OfflineRow(c)
       \/ /\ DbMayFail
          /\ Goto(c, "offline", "forgetOnly")
          /\ UNCHANGED status
    /\ UNCHANGED <<record, secret, streams, snapshots, presented, nodeOf, open, told, deletion>>

\* Fault model of the next definition: the snapshot is kept.
WithSnapshot(n) == snapshots

WithoutSnapshot(n) == [snapshots EXCEPT ![n] = NoConn]

\* Service.MarkOffline, the snapshot.
ForgetSnapshot(c) ==
    /\ Goto(c, "forget", "closed") \/ Goto(c, "forgetOnly", "failed")
    /\ snapshots' = WithoutSnapshot(nodeOf[c])
    /\ UNCHANGED <<rows, streams, presented, nodeOf, open, told, deletion>>

(***************************************************************************)
(* Deleting a node: DELETE /api/nodes/{id}.  The samples deleted between   *)
(* the Disconnect and the snapshot belong to MetricsStore.                 *)
(***************************************************************************)

\* DisconnectNode: SendToNode reads the streams map and releases its lock.
FindStream(n) ==
    /\ n \in Doomed /\ record[n] # "absent"
    /\ delPc[n] = "none"
    /\ delPc' = [delPc EXCEPT ![n] = IF streams[n] = NoConn THEN "snapshot" ELSE "send"]
    /\ delTo' = [delTo EXCEPT ![n] = streams[n]]
    /\ UNCHANGED <<rows, streams, snapshots, handler, open, told>>

\* SendToNode: the Disconnect goes to the stream read before.
SendDisconnect(n) ==
    /\ delPc[n] = "send"
    /\ delPc' = [delPc EXCEPT ![n] = "snapshot"]
    /\ delTo' = [delTo EXCEPT ![n] = NoConn]
    /\ told' = told \cup ({delTo[n]} \cap open)
    /\ UNCHANGED <<rows, streams, snapshots, handler, open>>

\* Service.Delete: the snapshot, then the row.
DeleteSnapshot(n) ==
    /\ delPc[n] = "snapshot"
    /\ delPc' = [delPc EXCEPT ![n] = "row"]
    /\ snapshots' = WithoutSnapshot(n)
    /\ UNCHANGED <<rows, streams, handler, open, told, delTo>>

\* Repository.Delete: a soft delete.  An error is reported and leaves the row.
DeleteRow(n) ==
    /\ delPc[n] = "row"
    /\ delPc' = [delPc EXCEPT ![n] = "none"]
    /\ \/ record' = [record EXCEPT ![n] = "deleted"]
       \/ DbMayFail /\ UNCHANGED record
    /\ UNCHANGED <<status, secret, streams, snapshots, handler, open, told, delTo>>

(***************************************************************************)
(* The environment.                                                        *)
(***************************************************************************)

\* The transport breaks, or the node closes the stream.
Break(c) ==
    /\ c \in open
    /\ open' = open \ {c}
    /\ told' = told \ {c}
    /\ UNCHANGED <<rows, streams, snapshots, handler, deletion>>

\* Where a handler stopped by the end of the panel's process is left.
StoppedAt(c) == CASE pc[c] \in {"idle"} \cup Ended -> pc[c]
                  [] pc[c] = "ack" -> "noack"
                  [] OTHER -> "closed"

\* NewService: SetAllOffline.
AllOffline == [n \in Node |-> IF record[n] = "live" THEN "offline" ELSE status[n]]

\* The panel's process ends and a new one starts: only the rows survive.
Restart ==
    /\ \E c \in Conn : pc[c] \in Running
    /\ status' = AllOffline
    /\ streams' = [n \in Node |-> NoConn]
    /\ snapshots' = [n \in Node |-> NoConn]
    /\ pc' = [c \in Conn |-> StoppedAt(c)]
    /\ nodeOf' = [c \in Conn |-> IF pc[c] = "save" THEN NoConn ELSE nodeOf[c]]
    /\ open' = {}
    /\ delPc' = [n \in Node |-> "none"]
    /\ delTo' = [n \in Node |-> NoConn]
    /\ told' = {}
    /\ UNCHANGED <<record, secret, presented>>

-----------------------------------------------------------------------------

Handshaking(c) == \/ RefuseStream(c)
                  \/ \E s \in Secret \cup {NoConn} : ReceiveHandshake(c, s)
Answering(c) == Register(c) \/ LookupSecret(c) \/ SaveRow(c) \/ SendAck(c) \/ InstallStream(c)
Receiving(c) == ReceiveHeartbeat(c) \/ ReceiveReport(c) \/ UpdateSnapshot(c)
Leaving(c) == Unregister(c) \/ MarkOffline(c) \/ ForgetSnapshot(c)
Deleting(n) == FindStream(n) \/ SendDisconnect(n) \/ DeleteSnapshot(n) \/ DeleteRow(n)

Next == \/ \E c \in Conn : Handshaking(c) \/ Answering(c) \/ Receiving(c) \/ Leaving(c)
        \/ \E n \in Node : Deleting(n)
        \/ \E c \in Conn : Break(c)
        \/ Restart

Spec == Init /\ [][Next]_vars

-----------------------------------------------------------------------------

\* Every entry of the streams map belongs to a handler of that very node which is
\* still in its receive loop: SendToNode never finds the stream of a handler that
\* has returned, in whatever order the handlers of one node start and leave.
StreamIsServed ==
    \A n \in Node : streams[n] # NoConn =>
        nodeOf[streams[n]] = n /\ pc[streams[n]] \in Registered

\* A snapshot does not outlive the handler that received it: the metrics List
\* shows came over a connection whose MarkOffline is still to come.
SnapshotIsServed ==
    \A n \in Node : snapshots[n] # NoConn =>
        /\ nodeOf[snapshots[n]] = n
        /\ pc[snapshots[n]] \in Registered \cup {"offline", "forget", "forgetOnly"}

\* The register as NodeCredentials sees it: a secret counts as issued once the row
\* that holds it is written.
Credentials == INSTANCE NodeCredentials WITH
    NoSecret <- NoConn,
    standing <- record,
    holds <- secret,
    issued <- {c \in Conn : nodeOf[c] # NoConn /\ pc[c] # "save"}

\* Whatever handshakes, failed writes and deletions interleave, every successful
\* handshake issues a secret never issued before and a replaced one stays useless.
CredentialsSpec == Credentials!Spec

\* No two rows, live or deleted, ever hold the same secret, so that a Reconnect finds
\* the row of the very node that presents it.
SecretIdentifiesNode == Credentials!SecretIdentifiesNode

\* A row that says "online" has a handler that will still mark it offline, or
\* one of the two handlers that never will: one whose ack could not be sent and
\* one whose status write failed.  No other path leaves a row online for good.
OnlineIsAccounted ==
    \A n \in Node : record[n] = "live" /\ status[n] = "online" =>
        \E c \in Conn : /\ nodeOf[c] = n
                        /\ pc[c] \in {"ack", "install", "serving", "report",
                                      "offline", "forgetOnly", "noack", "failed"}

\* No handler is between reading the row of node n and saving it.
NoSavePending(n) == \A c \in Conn : pc[c] = "save" => nodeOf[c] # n

DeletedStays ==
    \A n \in Node : record[n] = "deleted" /\ NoSavePending(n)
                        => record'[n] = "deleted" /\ NoSavePending(n)'

\* A deletion is final once no Reconnect holds a copy of the row that it read
\* before: only a pending Save brings a deleted row back.
DeletionSettles == [][DeletedStays]_vars

EntryKept ==
    \A n \in Node : streams[n] # NoConn /\ streams'[n] = NoConn
                        => pc'[streams[n]] \notin Registered

\* The entry of a handler that is in its receive loop is only taken away by that
\* handler itself or replaced by a later stream of the same node.
EntryKeptWhileServing == [][EntryKept]_vars

=============================================================================
