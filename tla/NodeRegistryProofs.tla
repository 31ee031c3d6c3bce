------------------------- MODULE NodeRegistryProofs -------------------------
(***************************************************************************)
(* Proofs about NodeRegistry, for any set of connections, any set of nodes *)
(* that are deleted, and with or without failing writes.                   *)
(*                                                                         *)
(* TypeOK and two facts about what a handler knows make the inductive      *)
(* invariant; each safety property is inductive relative to it.  A lemma   *)
(* XStep says that every step keeps X, with one case per action.           *)
(***************************************************************************)
EXTENDS NodeRegistry, TLAPS

USE NoConnAssumption DEF Node, Secret, Running, Ended, rows, handler, deletion

\* The types of the register's variables are kept by every step.
LEMMA TypeOKStep ==
  ASSUME TypeOK, [Next]_vars
  PROVE  TypeOK'
<1> USE DEF TypeOK
<1>1. ASSUME NEW c \in Conn, RefuseStream(c) PROVE TypeOK'
  BY <1>1 DEF RefuseStream, Goto
<1>2. ASSUME NEW c \in Conn, Register(c) PROVE TypeOK'
  <2>1. CASE Reject(c)
    BY <1>2, <2>1 DEF Register, Reject
  <2>2. CASE ~Reject(c)
    BY <1>2, <2>2 DEF Register, NewSecret, StatusAtHandshake
  <2> QED
    BY <2>1, <2>2
<1>3. ASSUME NEW c \in Conn, LookupSecret(c) PROVE TypeOK'
  <2>1. ASSUME NEW n \in RowsWithSecret(presented[c]),
               nodeOf' = [nodeOf EXCEPT ![c] = n], pc' = [pc EXCEPT ![c] = "save"],
               UNCHANGED <<rows, open>>
        PROVE  TypeOK'
    BY <1>3, <2>1 DEF LookupSecret, RowsWithSecret
  <2>2. CASE Reject(c)
    BY <1>3, <2>2 DEF LookupSecret, Reject
  <2> QED
    BY <1>3, <2>1, <2>2 DEF LookupSecret
<1>4. ASSUME NEW c \in Conn, SaveRow(c) PROVE TypeOK'
  <2>1. CASE Reject(c)
    BY <1>4, <2>1 DEF SaveRow, Reject
  <2>2. CASE ~Reject(c)
    BY <1>4, <2>2 DEF SaveRow, NewSecret, StatusAtHandshake
  <2> QED
    BY <2>1, <2>2
<1>5. ASSUME NEW c \in Conn, SendAck(c) PROVE TypeOK'
  BY <1>5 DEF SendAck, Goto
<1>6. ASSUME NEW c \in Conn, InstallStream(c) PROVE TypeOK'
  BY <1>6 DEF InstallStream, Goto
<1>7. ASSUME NEW c \in Conn, ReceiveHeartbeat(c) PROVE TypeOK'
  BY <1>7 DEF ReceiveHeartbeat, MarkOnline
<1>8. ASSUME NEW c \in Conn, ReceiveReport(c) PROVE TypeOK'
  BY <1>8 DEF ReceiveReport, MarkOnline, Goto
<1>9. ASSUME NEW c \in Conn, UpdateSnapshot(c) PROVE TypeOK'
  BY <1>9 DEF UpdateSnapshot, Goto
<1>10. ASSUME NEW c \in Conn, Unregister(c) PROVE TypeOK'
  BY <1>10 DEF Unregister, RemoveOwnEntry, Goto
<1>11. ASSUME NEW c \in Conn, MarkOffline(c) PROVE TypeOK'
  BY <1>11 DEF MarkOffline, OfflineRow, Goto
<1>12. ASSUME NEW c \in Conn, ForgetSnapshot(c) PROVE TypeOK'
  BY <1>12 DEF ForgetSnapshot, WithoutSnapshot, Goto
<1>13. ASSUME NEW c \in Conn, Break(c) PROVE TypeOK'
  BY <1>13 DEF Break
<1>14. ASSUME NEW c \in Conn, NEW s \in Secret \cup {NoConn}, ReceiveHandshake(c, s) PROVE TypeOK'
  BY <1>14 DEF ReceiveHandshake, Goto
<1>15. ASSUME NEW n \in Node, FindStream(n) PROVE TypeOK'
  BY <1>15 DEF FindStream
<1>16. ASSUME NEW n \in Node, SendDisconnect(n) PROVE TypeOK'
  BY <1>16 DEF SendDisconnect
<1>17. ASSUME NEW n \in Node, DeleteSnapshot(n) PROVE TypeOK'
  BY <1>17 DEF DeleteSnapshot, WithoutSnapshot
<1>18. ASSUME NEW n \in Node, DeleteRow(n) PROVE TypeOK'
  BY <1>18 DEF DeleteRow
<1>19. CASE Restart
  BY <1>19 DEF Restart, AllOffline, StoppedAt
<1>20. CASE UNCHANGED vars
  BY <1>20 DEF vars
<1> QED
  BY <1>1, <1>2, <1>3, <1>4, <1>5, <1>6, <1>7, <1>8, <1>9, <1>10, <1>11, <1>12, <1>13, <1>14, <1>15, <1>16, <1>17, <1>18, <1>19, <1>20
    DEF Next, Handshaking, Answering, Receiving, Leaving, Deleting

\* A handler has a node from the moment it reads or creates the row until it ends,
\* and none before.
HandlersKnowNodes ==
    \A c \in Conn :
        /\ pc[c] \in {"save", "ack", "install", "serving", "report",
                      "offline", "forget", "forgetOnly"} => nodeOf[c] \in Node
        /\ pc[c] \in {"idle", "register", "lookup"} => nodeOf[c] = NoConn

\* Every step keeps what handlers know of their nodes.
LEMMA HandlersKnowNodesStep ==
  ASSUME TypeOK, HandlersKnowNodes, [Next]_vars
  PROVE  HandlersKnowNodes'
<1> USE DEF TypeOK, HandlersKnowNodes
<1>1. ASSUME NEW c \in Conn, RefuseStream(c) PROVE HandlersKnowNodes'
  BY <1>1 DEF RefuseStream, Goto
<1>2. ASSUME NEW c \in Conn, Register(c) PROVE HandlersKnowNodes'
  <2>1. CASE Reject(c)
    BY <1>2, <2>1 DEF Register, Reject
  <2>2. CASE ~Reject(c)
    BY <1>2, <2>2 DEF Register, NewSecret, StatusAtHandshake
  <2> QED
    BY <2>1, <2>2
<1>3. ASSUME NEW c \in Conn, LookupSecret(c) PROVE HandlersKnowNodes'
  <2>1. ASSUME NEW n \in RowsWithSecret(presented[c]),
               nodeOf' = [nodeOf EXCEPT ![c] = n], pc' = [pc EXCEPT ![c] = "save"],
               UNCHANGED <<rows, open>>
        PROVE  HandlersKnowNodes'
    BY <1>3, <2>1 DEF LookupSecret, RowsWithSecret
  <2>2. CASE Reject(c)
    BY <1>3, <2>2 DEF LookupSecret, Reject
  <2> QED
    BY <1>3, <2>1, <2>2 DEF LookupSecret
<1>4. ASSUME NEW c \in Conn, SaveRow(c) PROVE HandlersKnowNodes'
  <2>1. CASE Reject(c)
    BY <1>4, <2>1 DEF SaveRow, Reject
  <2>2. CASE ~Reject(c)
    BY <1>4, <2>2 DEF SaveRow, NewSecret, StatusAtHandshake
  <2> QED
    BY <2>1, <2>2
<1>5. ASSUME NEW c \in Conn, SendAck(c) PROVE HandlersKnowNodes'
  BY <1>5 DEF SendAck, Goto
<1>6. ASSUME NEW c \in Conn, InstallStream(c) PROVE HandlersKnowNodes'
  BY <1>6 DEF InstallStream, Goto
<1>7. ASSUME NEW c \in Conn, ReceiveHeartbeat(c) PROVE HandlersKnowNodes'
  BY <1>7 DEF ReceiveHeartbeat, MarkOnline
<1>8. ASSUME NEW c \in Conn, ReceiveReport(c) PROVE HandlersKnowNodes'
  BY <1>8 DEF ReceiveReport, MarkOnline, Goto
<1>9. ASSUME NEW c \in Conn, UpdateSnapshot(c) PROVE HandlersKnowNodes'
  BY <1>9 DEF UpdateSnapshot, Goto
<1>10. ASSUME NEW c \in Conn, Unregister(c) PROVE HandlersKnowNodes'
  BY <1>10 DEF Unregister, RemoveOwnEntry, Goto
<1>11. ASSUME NEW c \in Conn, MarkOffline(c) PROVE HandlersKnowNodes'
  BY <1>11 DEF MarkOffline, OfflineRow, Goto
<1>12. ASSUME NEW c \in Conn, ForgetSnapshot(c) PROVE HandlersKnowNodes'
  BY <1>12 DEF ForgetSnapshot, WithoutSnapshot, Goto
<1>13. ASSUME NEW c \in Conn, Break(c) PROVE HandlersKnowNodes'
  BY <1>13 DEF Break
<1>14. ASSUME NEW c \in Conn, NEW s \in Secret \cup {NoConn}, ReceiveHandshake(c, s) PROVE HandlersKnowNodes'
  BY <1>14 DEF ReceiveHandshake, Goto
<1>15. ASSUME NEW n \in Node, FindStream(n) PROVE HandlersKnowNodes'
  BY <1>15 DEF FindStream
<1>16. ASSUME NEW n \in Node, SendDisconnect(n) PROVE HandlersKnowNodes'
  BY <1>16 DEF SendDisconnect
<1>17. ASSUME NEW n \in Node, DeleteSnapshot(n) PROVE HandlersKnowNodes'
  BY <1>17 DEF DeleteSnapshot, WithoutSnapshot
<1>18. ASSUME NEW n \in Node, DeleteRow(n) PROVE HandlersKnowNodes'
  BY <1>18 DEF DeleteRow
<1>19. CASE Restart
  BY <1>19 DEF Restart, AllOffline, StoppedAt
<1>20. CASE UNCHANGED vars
  BY <1>20 DEF vars
<1> QED
  BY <1>1, <1>2, <1>3, <1>4, <1>5, <1>6, <1>7, <1>8, <1>9, <1>10, <1>11, <1>12, <1>13, <1>14, <1>15, <1>16, <1>17, <1>18, <1>19, <1>20
    DEF Next, Handshaking, Answering, Receiving, Leaving, Deleting

\* A node has a row once the connection it is named after has registered it, and
\* a handler or a deletion is only ever about a node that has one.
NodesHaveRows ==
    /\ \A c \in Conn : pc[c] \in {"idle", "register"} => record[c] = "absent"
    /\ \A c \in Conn : nodeOf[c] # NoConn => record[nodeOf[c]] # "absent"
    /\ \A n \in Node : delPc[n] # "none" => record[n] # "absent"

\* Every step keeps rows and their users together.
LEMMA NodesHaveRowsStep ==
  ASSUME TypeOK, HandlersKnowNodes, NodesHaveRows, [Next]_vars
  PROVE  NodesHaveRows'
<1> USE DEF TypeOK, HandlersKnowNodes, NodesHaveRows
<1>1. ASSUME NEW c \in Conn, RefuseStream(c) PROVE NodesHaveRows'
  BY <1>1 DEF RefuseStream, Goto
<1>2. ASSUME NEW c \in Conn, Register(c) PROVE NodesHaveRows'
  <2>1. CASE Reject(c)
    BY <1>2, <2>1 DEF Register, Reject
  <2>2. CASE ~Reject(c)
    BY <1>2, <2>2 DEF Register, NewSecret, StatusAtHandshake
  <2> QED
    BY <2>1, <2>2
<1>3. ASSUME NEW c \in Conn, LookupSecret(c) PROVE NodesHaveRows'
  <2>1. ASSUME NEW n \in RowsWithSecret(presented[c]),
               nodeOf' = [nodeOf EXCEPT ![c] = n], pc' = [pc EXCEPT ![c] = "save"],
               UNCHANGED <<rows, open>>
        PROVE  NodesHaveRows'
    BY <1>3, <2>1 DEF LookupSecret, RowsWithSecret
  <2>2. CASE Reject(c)
    BY <1>3, <2>2 DEF LookupSecret, Reject
  <2> QED
    BY <1>3, <2>1, <2>2 DEF LookupSecret
<1>4. ASSUME NEW c \in Conn, SaveRow(c) PROVE NodesHaveRows'
  <2>1. CASE Reject(c)
    BY <1>4, <2>1 DEF SaveRow, Reject
  <2>2. CASE ~Reject(c)
    BY <1>4, <2>2 DEF SaveRow, NewSecret, StatusAtHandshake
  <2> QED
    BY <2>1, <2>2
<1>5. ASSUME NEW c \in Conn, SendAck(c) PROVE NodesHaveRows'
  BY <1>5 DEF SendAck, Goto
<1>6. ASSUME NEW c \in Conn, InstallStream(c) PROVE NodesHaveRows'
  BY <1>6 DEF InstallStream, Goto
<1>7. ASSUME NEW c \in Conn, ReceiveHeartbeat(c) PROVE NodesHaveRows'
  BY <1>7 DEF ReceiveHeartbeat, MarkOnline
<1>8. ASSUME NEW c \in Conn, ReceiveReport(c) PROVE NodesHaveRows'
  BY <1>8 DEF ReceiveReport, MarkOnline, Goto
<1>9. ASSUME NEW c \in Conn, UpdateSnapshot(c) PROVE NodesHaveRows'
  BY <1>9 DEF UpdateSnapshot, Goto
<1>10. ASSUME NEW c \in Conn, Unregister(c) PROVE NodesHaveRows'
  BY <1>10 DEF Unregister, RemoveOwnEntry, Goto
<1>11. ASSUME NEW c \in Conn, MarkOffline(c) PROVE NodesHaveRows'
  BY <1>11 DEF MarkOffline, OfflineRow, Goto
<1>12. ASSUME NEW c \in Conn, ForgetSnapshot(c) PROVE NodesHaveRows'
  BY <1>12 DEF ForgetSnapshot, WithoutSnapshot, Goto
<1>13. ASSUME NEW c \in Conn, Break(c) PROVE NodesHaveRows'
  BY <1>13 DEF Break
<1>14. ASSUME NEW c \in Conn, NEW s \in Secret \cup {NoConn}, ReceiveHandshake(c, s) PROVE NodesHaveRows'
  BY <1>14 DEF ReceiveHandshake, Goto
<1>15. ASSUME NEW n \in Node, FindStream(n) PROVE NodesHaveRows'
  BY <1>15 DEF FindStream
<1>16. ASSUME NEW n \in Node, SendDisconnect(n) PROVE NodesHaveRows'
  BY <1>16 DEF SendDisconnect
<1>17. ASSUME NEW n \in Node, DeleteSnapshot(n) PROVE NodesHaveRows'
  BY <1>17 DEF DeleteSnapshot, WithoutSnapshot
<1>18. ASSUME NEW n \in Node, DeleteRow(n) PROVE NodesHaveRows'
  BY <1>18 DEF DeleteRow
<1>19. CASE Restart
  BY <1>19 DEF Restart, AllOffline, StoppedAt
<1>20. CASE UNCHANGED vars
  BY <1>20 DEF vars
<1> QED
  BY <1>1, <1>2, <1>3, <1>4, <1>5, <1>6, <1>7, <1>8, <1>9, <1>10, <1>11, <1>12, <1>13, <1>14, <1>15, <1>16, <1>17, <1>18, <1>19, <1>20
    DEF Next, Handshaking, Answering, Receiving, Leaving, Deleting

\* The inductive invariant the properties are proved from.
IInv == TypeOK /\ HandlersKnowNodes /\ NodesHaveRows

\* The inductive invariant holds in every reachable state: handlers only ever act
\* for nodes that have a row.
THEOREM Inductive == Spec => []IInv
<1>1. Init => IInv
  BY DEF Init, IInv, TypeOK, HandlersKnowNodes, NodesHaveRows
<1>2. IInv /\ [Next]_vars => IInv'
  BY TypeOKStep, HandlersKnowNodesStep, NodesHaveRowsStep DEF IInv
<1>3. QED
  BY <1>1, <1>2, PTL DEF Spec

\* Type correctness, for every set of connections: in particular the statuses
\* "connecting" and "unregistered" of model.go are never stored.
THEOREM TypeCorrect == Spec => []TypeOK
<1>1. IInv => TypeOK
  BY DEF IInv
<1>2. QED
  BY <1>1, Inductive, PTL


\* Every step keeps the streams map to handlers in their receive loop.
LEMMA StreamIsServedStep ==
  ASSUME TypeOK, HandlersKnowNodes, StreamIsServed, [Next]_vars
  PROVE  StreamIsServed'
<1> USE DEF TypeOK, HandlersKnowNodes, StreamIsServed, Registered
<1>1. ASSUME NEW c \in Conn, RefuseStream(c) PROVE StreamIsServed'
  BY <1>1 DEF RefuseStream, Goto
<1>2. ASSUME NEW c \in Conn, Register(c) PROVE StreamIsServed'
  <2>1. CASE Reject(c)
    BY <1>2, <2>1 DEF Register, Reject
  <2>2. CASE ~Reject(c)
    BY <1>2, <2>2 DEF Register, NewSecret, StatusAtHandshake
  <2> QED
    BY <2>1, <2>2
<1>3. ASSUME NEW c \in Conn, LookupSecret(c) PROVE StreamIsServed'
  <2>1. ASSUME NEW n \in RowsWithSecret(presented[c]),
               nodeOf' = [nodeOf EXCEPT ![c] = n], pc' = [pc EXCEPT ![c] = "save"],
               UNCHANGED <<rows, open>>
        PROVE  StreamIsServed'
    BY <1>3, <2>1 DEF LookupSecret, RowsWithSecret
  <2>2. CASE Reject(c)
    BY <1>3, <2>2 DEF LookupSecret, Reject
  <2> QED
    BY <1>3, <2>1, <2>2 DEF LookupSecret
<1>4. ASSUME NEW c \in Conn, SaveRow(c) PROVE StreamIsServed'
  <2>1. CASE Reject(c)
    BY <1>4, <2>1 DEF SaveRow, Reject
  <2>2. CASE ~Reject(c)
    BY <1>4, <2>2 DEF SaveRow, NewSecret, StatusAtHandshake
  <2> QED
    BY <2>1, <2>2
<1>5. ASSUME NEW c \in Conn, SendAck(c) PROVE StreamIsServed'
  BY <1>5 DEF SendAck, Goto
<1>6. ASSUME NEW c \in Conn, InstallStream(c) PROVE StreamIsServed'
  BY <1>6 DEF InstallStream, Goto
<1>7. ASSUME NEW c \in Conn, ReceiveHeartbeat(c) PROVE StreamIsServed'
  BY <1>7 DEF ReceiveHeartbeat, MarkOnline
<1>8. ASSUME NEW c \in Conn, ReceiveReport(c) PROVE StreamIsServed'
  BY <1>8 DEF ReceiveReport, MarkOnline, Goto
<1>9. ASSUME NEW c \in Conn, UpdateSnapshot(c) PROVE StreamIsServed'
  BY <1>9 DEF UpdateSnapshot, Goto
<1>10. ASSUME NEW c \in Conn, Unregister(c) PROVE StreamIsServed'
  BY <1>10 DEF Unregister, RemoveOwnEntry, Goto
<1>11. ASSUME NEW c \in Conn, MarkOffline(c) PROVE StreamIsServed'
  BY <1>11 DEF MarkOffline, OfflineRow, Goto
<1>12. ASSUME NEW c \in Conn, ForgetSnapshot(c) PROVE StreamIsServed'
  BY <1>12 DEF ForgetSnapshot, WithoutSnapshot, Goto
<1>13. ASSUME NEW c \in Conn, Break(c) PROVE StreamIsServed'
  BY <1>13 DEF Break
<1>14. ASSUME NEW c \in Conn, NEW s \in Secret \cup {NoConn}, ReceiveHandshake(c, s) PROVE StreamIsServed'
  BY <1>14 DEF ReceiveHandshake, Goto
<1>15. ASSUME NEW n \in Node, FindStream(n) PROVE StreamIsServed'
  BY <1>15 DEF FindStream
<1>16. ASSUME NEW n \in Node, SendDisconnect(n) PROVE StreamIsServed'
  BY <1>16 DEF SendDisconnect
<1>17. ASSUME NEW n \in Node, DeleteSnapshot(n) PROVE StreamIsServed'
  BY <1>17 DEF DeleteSnapshot, WithoutSnapshot
<1>18. ASSUME NEW n \in Node, DeleteRow(n) PROVE StreamIsServed'
  BY <1>18 DEF DeleteRow
<1>19. CASE Restart
  BY <1>19 DEF Restart, AllOffline, StoppedAt
<1>20. CASE UNCHANGED vars
  BY <1>20 DEF vars
<1> QED
  BY <1>1, <1>2, <1>3, <1>4, <1>5, <1>6, <1>7, <1>8, <1>9, <1>10, <1>11, <1>12, <1>13, <1>14, <1>15, <1>16, <1>17, <1>18, <1>19, <1>20
    DEF Next, Handshaking, Answering, Receiving, Leaving, Deleting

\* The streams map only ever holds streams of handlers in their receive loop, under
\* the node they serve: whatever order handlers of one node are replaced and leave in.
THEOREM StreamsAreServed == Spec => []StreamIsServed
<1>1. Init => StreamIsServed
  BY DEF Init, StreamIsServed
<1>2. IInv /\ StreamIsServed /\ [Next]_vars => StreamIsServed'
  BY StreamIsServedStep DEF IInv
<1>3. QED
  BY <1>1, <1>2, Inductive, PTL DEF Spec

\* Every step keeps snapshots to handlers that have still to forget them.
LEMMA SnapshotIsServedStep ==
  ASSUME TypeOK, HandlersKnowNodes, SnapshotIsServed, [Next]_vars
  PROVE  SnapshotIsServed'
<1> USE DEF TypeOK, HandlersKnowNodes, SnapshotIsServed, Registered
<1>1. ASSUME NEW c \in Conn, RefuseStream(c) PROVE SnapshotIsServed'
  BY <1>1 DEF RefuseStream, Goto
<1>2. ASSUME NEW c \in Conn, Register(c) PROVE SnapshotIsServed'
  <2>1. CASE Reject(c)
    BY <1>2, <2>1 DEF Register, Reject
  <2>2. CASE ~Reject(c)
    BY <1>2, <2>2 DEF Register, NewSecret, StatusAtHandshake
  <2> QED
    BY <2>1, <2>2
<1>3. ASSUME NEW c \in Conn, LookupSecret(c) PROVE SnapshotIsServed'
  <2>1. ASSUME NEW n \in RowsWithSecret(presented[c]),
               nodeOf' = [nodeOf EXCEPT ![c] = n], pc' = [pc EXCEPT ![c] = "save"],
               UNCHANGED <<rows, open>>
        PROVE  SnapshotIsServed'
    BY <1>3, <2>1 DEF LookupSecret, RowsWithSecret
  <2>2. CASE Reject(c)
    BY <1>3, <2>2 DEF LookupSecret, Reject
  <2> QED
    BY <1>3, <2>1, <2>2 DEF LookupSecret
<1>4. ASSUME NEW c \in Conn, SaveRow(c) PROVE SnapshotIsServed'
  <2>1. CASE Reject(c)
    BY <1>4, <2>1 DEF SaveRow, Reject
  <2>2. CASE ~Reject(c)
    BY <1>4, <2>2 DEF SaveRow, NewSecret, StatusAtHandshake
  <2> QED
    BY <2>1, <2>2
<1>5. ASSUME NEW c \in Conn, SendAck(c) PROVE SnapshotIsServed'
  BY <1>5 DEF SendAck, Goto
<1>6. ASSUME NEW c \in Conn, InstallStream(c) PROVE SnapshotIsServed'
  BY <1>6 DEF InstallStream, Goto
<1>7. ASSUME NEW c \in Conn, ReceiveHeartbeat(c) PROVE SnapshotIsServed'
  BY <1>7 DEF ReceiveHeartbeat, MarkOnline
<1>8. ASSUME NEW c \in Conn, ReceiveReport(c) PROVE SnapshotIsServed'
  BY <1>8 DEF ReceiveReport, MarkOnline, Goto
<1>9. ASSUME NEW c \in Conn, UpdateSnapshot(c) PROVE SnapshotIsServed'
  BY <1>9 DEF UpdateSnapshot, Goto
<1>10. ASSUME NEW c \in Conn, Unregister(c) PROVE SnapshotIsServed'
  BY <1>10 DEF Unregister, RemoveOwnEntry, Goto
<1>11. ASSUME NEW c \in Conn, MarkOffline(c) PROVE SnapshotIsServed'
  BY <1>11 DEF MarkOffline, OfflineRow, Goto
<1>12. ASSUME NEW c \in Conn, ForgetSnapshot(c) PROVE SnapshotIsServed'
  BY <1>12 DEF ForgetSnapshot, WithoutSnapshot, Goto
<1>13. ASSUME NEW c \in Conn, Break(c) PROVE SnapshotIsServed'
  BY <1>13 DEF Break
<1>14. ASSUME NEW c \in Conn, NEW s \in Secret \cup {NoConn}, ReceiveHandshake(c, s) PROVE SnapshotIsServed'
  BY <1>14 DEF ReceiveHandshake, Goto
<1>15. ASSUME NEW n \in Node, FindStream(n) PROVE SnapshotIsServed'
  BY <1>15 DEF FindStream
<1>16. ASSUME NEW n \in Node, SendDisconnect(n) PROVE SnapshotIsServed'
  BY <1>16 DEF SendDisconnect
<1>17. ASSUME NEW n \in Node, DeleteSnapshot(n) PROVE SnapshotIsServed'
  BY <1>17 DEF DeleteSnapshot, WithoutSnapshot
<1>18. ASSUME NEW n \in Node, DeleteRow(n) PROVE SnapshotIsServed'
  BY <1>18 DEF DeleteRow
<1>19. CASE Restart
  BY <1>19 DEF Restart, AllOffline, StoppedAt
<1>20. CASE UNCHANGED vars
  BY <1>20 DEF vars
<1> QED
  BY <1>1, <1>2, <1>3, <1>4, <1>5, <1>6, <1>7, <1>8, <1>9, <1>10, <1>11, <1>12, <1>13, <1>14, <1>15, <1>16, <1>17, <1>18, <1>19, <1>20
    DEF Next, Handshaking, Answering, Receiving, Leaving, Deleting

\* No snapshot outlives the handler that received it, although the deferred clean-up
\* of any other handler, a deletion and a report may run in any order.
THEOREM SnapshotsAreServed == Spec => []SnapshotIsServed
<1>1. Init => SnapshotIsServed
  BY DEF Init, SnapshotIsServed
<1>2. IInv /\ SnapshotIsServed /\ [Next]_vars => SnapshotIsServed'
  BY SnapshotIsServedStep DEF IInv
<1>3. QED
  BY <1>1, <1>2, Inductive, PTL DEF Spec

\* Every step leaves a handler to account for each row that is online.
LEMMA OnlineIsAccountedStep ==
  ASSUME TypeOK, HandlersKnowNodes, OnlineIsAccounted, [Next]_vars
  PROVE  OnlineIsAccounted'
<1> USE DEF TypeOK, HandlersKnowNodes, OnlineIsAccounted
<1>1. ASSUME NEW c \in Conn, RefuseStream(c) PROVE OnlineIsAccounted'
  BY <1>1 DEF RefuseStream, Goto
<1>2. ASSUME NEW c \in Conn, Register(c) PROVE OnlineIsAccounted'
  <2>1. CASE Reject(c)
    BY <1>2, <2>1 DEF Register, Reject
  <2>2. CASE ~Reject(c)
    BY <1>2, <2>2 DEF Register, NewSecret, StatusAtHandshake
  <2> QED
    BY <2>1, <2>2
<1>3. ASSUME NEW c \in Conn, LookupSecret(c) PROVE OnlineIsAccounted'
  <2>1. ASSUME NEW n \in RowsWithSecret(presented[c]),
               nodeOf' = [nodeOf EXCEPT ![c] = n], pc' = [pc EXCEPT ![c] = "save"],
               UNCHANGED <<rows, open>>
        PROVE  OnlineIsAccounted'
    BY <1>3, <2>1 DEF LookupSecret, RowsWithSecret
  <2>2. CASE Reject(c)
    BY <1>3, <2>2 DEF LookupSecret, Reject
  <2> QED
    BY <1>3, <2>1, <2>2 DEF LookupSecret
<1>4. ASSUME NEW c \in Conn, SaveRow(c) PROVE OnlineIsAccounted'
  <2>1. CASE Reject(c)
    BY <1>4, <2>1 DEF SaveRow, Reject
  <2>2. CASE ~Reject(c)
    BY <1>4, <2>2 DEF SaveRow, NewSecret, StatusAtHandshake
  <2> QED
    BY <2>1, <2>2
<1>5. ASSUME NEW c \in Conn, SendAck(c) PROVE OnlineIsAccounted'
  BY <1>5 DEF SendAck, Goto
<1>6. ASSUME NEW c \in Conn, InstallStream(c) PROVE OnlineIsAccounted'
  BY <1>6 DEF InstallStream, Goto
<1>7. ASSUME NEW c \in Conn, ReceiveHeartbeat(c) PROVE OnlineIsAccounted'
  BY <1>7 DEF ReceiveHeartbeat, MarkOnline
<1>8. ASSUME NEW c \in Conn, ReceiveReport(c) PROVE OnlineIsAccounted'
  BY <1>8 DEF ReceiveReport, MarkOnline, Goto
<1>9. ASSUME NEW c \in Conn, UpdateSnapshot(c) PROVE OnlineIsAccounted'
  BY <1>9 DEF UpdateSnapshot, Goto
<1>10. ASSUME NEW c \in Conn, Unregister(c) PROVE OnlineIsAccounted'
  BY <1>10 DEF Unregister, RemoveOwnEntry, Goto
<1>11. ASSUME NEW c \in Conn, MarkOffline(c) PROVE OnlineIsAccounted'
  BY <1>11 DEF MarkOffline, OfflineRow, Goto
<1>12. ASSUME NEW c \in Conn, ForgetSnapshot(c) PROVE OnlineIsAccounted'
  BY <1>12 DEF ForgetSnapshot, WithoutSnapshot, Goto
<1>13. ASSUME NEW c \in Conn, Break(c) PROVE OnlineIsAccounted'
  BY <1>13 DEF Break
<1>14. ASSUME NEW c \in Conn, NEW s \in Secret \cup {NoConn}, ReceiveHandshake(c, s) PROVE OnlineIsAccounted'
  BY <1>14 DEF ReceiveHandshake, Goto
<1>15. ASSUME NEW n \in Node, FindStream(n) PROVE OnlineIsAccounted'
  BY <1>15 DEF FindStream
<1>16. ASSUME NEW n \in Node, SendDisconnect(n) PROVE OnlineIsAccounted'
  BY <1>16 DEF SendDisconnect
<1>17. ASSUME NEW n \in Node, DeleteSnapshot(n) PROVE OnlineIsAccounted'
  BY <1>17 DEF DeleteSnapshot, WithoutSnapshot
<1>18. ASSUME NEW n \in Node, DeleteRow(n) PROVE OnlineIsAccounted'
  BY <1>18 DEF DeleteRow
<1>19. CASE Restart
  BY <1>19 DEF Restart, AllOffline, StoppedAt
<1>20. CASE UNCHANGED vars
  BY <1>20 DEF vars
<1> QED
  BY <1>1, <1>2, <1>3, <1>4, <1>5, <1>6, <1>7, <1>8, <1>9, <1>10, <1>11, <1>12, <1>13, <1>14, <1>15, <1>16, <1>17, <1>18, <1>19, <1>20
    DEF Next, Handshaking, Answering, Receiving, Leaving, Deleting

\* A live row that says online has a handler that will still write offline, or one
\* that lost its ack or its write: the two ways a row stays online for good.
THEOREM OnlineIsAccountedFor == Spec => []OnlineIsAccounted
<1>1. Init => OnlineIsAccounted
  BY DEF Init, OnlineIsAccounted
<1>2. IInv /\ OnlineIsAccounted /\ [Next]_vars => OnlineIsAccounted'
  BY OnlineIsAccountedStep DEF IInv
<1>3. QED
  BY <1>1, <1>2, Inductive, PTL DEF Spec

-----------------------------------------------------------------------------

\* The next-state relation, action by action.


\* The secrets issued so far, as NodeCredentials counts them.
Issued == {c \in Conn : nodeOf[c] # NoConn /\ pc[c] # "save"}

\* A step that writes no row and issues no secret is a stutter of NodeCredentials.
LEMMA QuietStep ==
  ASSUME UNCHANGED <<record, secret>>, Issued' = Issued
  PROVE  UNCHANGED Credentials!vars
BY DEF Credentials!vars, Issued

\* Every step of the register is a step of NodeCredentials or a stutter.
LEMMA CredentialsStep ==
  ASSUME IInv, [Next]_vars
  PROVE  [Credentials!Next]_(Credentials!vars)
<1> USE DEF IInv, TypeOK, HandlersKnowNodes, NodesHaveRows, Issued
<1>1. ASSUME NEW c \in Conn, RefuseStream(c) PROVE [Credentials!Next]_(Credentials!vars)
  <2> UNCHANGED <<record, secret>> /\ Issued' = Issued
    BY <1>1 DEF RefuseStream, Goto
  <2> QED
    BY QuietStep
<1>2. ASSUME NEW c \in Conn, Register(c) PROVE [Credentials!Next]_(Credentials!vars)
  <2>1. CASE Reject(c)
    <3> UNCHANGED <<record, secret>> /\ Issued' = Issued
      BY <1>2, <2>1 DEF Register, Reject
    <3> QED
      BY QuietStep
  <2>2. CASE ~Reject(c)
    <3>1. Credentials!Enroll(c, c)
      BY <1>2, <2>2 DEF Register, NewSecret, Credentials!Enroll, Credentials!Issue
    <3> QED
      BY <3>1 DEF Credentials!Next
  <2> QED
    BY <2>1, <2>2
<1>3. ASSUME NEW c \in Conn, LookupSecret(c) PROVE [Credentials!Next]_(Credentials!vars)
  <2> UNCHANGED <<record, secret>> /\ Issued' = Issued
    BY <1>3 DEF LookupSecret, RowsWithSecret, Reject
  <2> QED
    BY QuietStep
<1>4. ASSUME NEW c \in Conn, SaveRow(c) PROVE [Credentials!Next]_(Credentials!vars)
  <2>1. CASE Reject(c)
    <3> UNCHANGED <<record, secret>> /\ Issued' = Issued
      BY <1>4, <2>1 DEF SaveRow, Reject
    <3> QED
      BY QuietStep
  <2>2. CASE ~Reject(c)
    <3>1. PICK n \in Node : n = nodeOf[c]
      BY <1>4 DEF SaveRow
    <3>2. Credentials!Rotate(n, c) \/ Credentials!Reinstate(n, c)
      BY <1>4, <2>2, <3>1 DEF SaveRow, NewSecret, Credentials!Rotate, Credentials!Reinstate, Credentials!Issue
    <3> QED
      BY <3>2 DEF Credentials!Next
  <2> QED
    BY <2>1, <2>2
<1>5. ASSUME NEW c \in Conn, SendAck(c) PROVE [Credentials!Next]_(Credentials!vars)
  <2> UNCHANGED <<record, secret>> /\ Issued' = Issued
    BY <1>5 DEF SendAck, Goto
  <2> QED
    BY QuietStep
<1>6. ASSUME NEW c \in Conn, InstallStream(c) PROVE [Credentials!Next]_(Credentials!vars)
  <2> UNCHANGED <<record, secret>> /\ Issued' = Issued
    BY <1>6 DEF InstallStream, Goto
  <2> QED
    BY QuietStep
<1>7. ASSUME NEW c \in Conn, ReceiveHeartbeat(c) PROVE [Credentials!Next]_(Credentials!vars)
  <2> UNCHANGED <<record, secret>> /\ Issued' = Issued
    BY <1>7 DEF ReceiveHeartbeat, MarkOnline
  <2> QED
    BY QuietStep
<1>8. ASSUME NEW c \in Conn, ReceiveReport(c) PROVE [Credentials!Next]_(Credentials!vars)
  <2> UNCHANGED <<record, secret>> /\ Issued' = Issued
    BY <1>8 DEF ReceiveReport, MarkOnline, Goto
  <2> QED
    BY QuietStep
<1>9. ASSUME NEW c \in Conn, UpdateSnapshot(c) PROVE [Credentials!Next]_(Credentials!vars)
  <2> UNCHANGED <<record, secret>> /\ Issued' = Issued
    BY <1>9 DEF UpdateSnapshot, Goto
  <2> QED
    BY QuietStep
<1>10. ASSUME NEW c \in Conn, Unregister(c) PROVE [Credentials!Next]_(Credentials!vars)
  <2> UNCHANGED <<record, secret>> /\ Issued' = Issued
    BY <1>10 DEF Unregister, RemoveOwnEntry, Goto
  <2> QED
    BY QuietStep
<1>11. ASSUME NEW c \in Conn, MarkOffline(c) PROVE [Credentials!Next]_(Credentials!vars)
  <2> UNCHANGED <<record, secret>> /\ Issued' = Issued
    BY <1>11 DEF MarkOffline, OfflineRow, Goto
  <2> QED
    BY QuietStep
<1>12. ASSUME NEW c \in Conn, ForgetSnapshot(c) PROVE [Credentials!Next]_(Credentials!vars)
  <2> UNCHANGED <<record, secret>> /\ Issued' = Issued
    BY <1>12 DEF ForgetSnapshot, WithoutSnapshot, Goto
  <2> QED
    BY QuietStep
<1>13. ASSUME NEW c \in Conn, Break(c) PROVE [Credentials!Next]_(Credentials!vars)
  <2> UNCHANGED <<record, secret>> /\ Issued' = Issued
    BY <1>13 DEF Break
  <2> QED
    BY QuietStep
<1>14. ASSUME NEW c \in Conn, NEW s \in Secret \cup {NoConn}, ReceiveHandshake(c, s) PROVE [Credentials!Next]_(Credentials!vars)
  <2> UNCHANGED <<record, secret>> /\ Issued' = Issued
    BY <1>14 DEF ReceiveHandshake, Goto
  <2> QED
    BY QuietStep
<1>15. ASSUME NEW n \in Node, FindStream(n) PROVE [Credentials!Next]_(Credentials!vars)
  <2> UNCHANGED <<record, secret>> /\ Issued' = Issued
    BY <1>15 DEF FindStream
  <2> QED
    BY QuietStep
<1>16. ASSUME NEW n \in Node, SendDisconnect(n) PROVE [Credentials!Next]_(Credentials!vars)
  <2> UNCHANGED <<record, secret>> /\ Issued' = Issued
    BY <1>16 DEF SendDisconnect
  <2> QED
    BY QuietStep
<1>17. ASSUME NEW n \in Node, DeleteSnapshot(n) PROVE [Credentials!Next]_(Credentials!vars)
  <2> UNCHANGED <<record, secret>> /\ Issued' = Issued
    BY <1>17 DEF DeleteSnapshot, WithoutSnapshot
  <2> QED
    BY QuietStep
<1>18. ASSUME NEW n \in Node, DeleteRow(n) PROVE [Credentials!Next]_(Credentials!vars)
  <2>1. CASE record' = record
    <3> UNCHANGED <<record, secret>> /\ Issued' = Issued
      BY <1>18, <2>1 DEF DeleteRow
    <3> QED
      BY QuietStep
  <2>2. CASE record' # record
    <3>1. Credentials!Revoke(n)
      BY <1>18, <2>2 DEF DeleteRow, Credentials!Revoke
    <3> QED
      BY <3>1 DEF Credentials!Next
  <2> QED
    BY <2>1, <2>2
<1>19. CASE Restart
  <2> UNCHANGED <<record, secret>> /\ Issued' = Issued
    BY <1>19 DEF Restart, AllOffline, StoppedAt
  <2> QED
    BY QuietStep
<1>20. CASE UNCHANGED vars
  <2> UNCHANGED <<record, secret>> /\ Issued' = Issued
    BY <1>20 DEF vars
  <2> QED
    BY QuietStep
<1> QED
  BY <1>1, <1>2, <1>3, <1>4, <1>5, <1>6, <1>7, <1>8, <1>9, <1>10, <1>11, <1>12, <1>13, <1>14, <1>15, <1>16, <1>17, <1>18, <1>19, <1>20
    DEF Next, Handshaking, Answering, Receiving, Leaving, Deleting

\* The register implements NodeCredentials: every successful handshake issues a
\* secret never issued before, whatever handlers, failed writes, deletions and
\* restarts interleave.
THEOREM CredentialsImplemented == Spec => CredentialsSpec
<1>1. Init => Credentials!Init
  BY DEF Init, Credentials!Init
<1>2. IInv /\ [Next]_vars => [Credentials!Next]_(Credentials!vars)
  BY CredentialsStep
<1>3. QED
  BY <1>1, <1>2, Inductive, PTL DEF Spec, CredentialsSpec, Credentials!Spec

\* What NodeCredentials keeps: the secret a registered node holds was issued, and
\* to no other node.
SecretsAreApart ==
    /\ \A n \in Node : record[n] # "absent" => secret[n] \in Issued
    /\ SecretIdentifiesNode

\* A step of NodeCredentials issues at most one secret, a fresh one, to one node.
LEMMA SecretsApartStep ==
  ASSUME TypeOK, SecretsAreApart, [Credentials!Next]_(Credentials!vars)
  PROVE  SecretsAreApart' /\ Credentials!SpentStaysSpent
<1> USE DEF TypeOK, SecretsAreApart, SecretIdentifiesNode, Credentials!SpentStaysSpent,
            Credentials!SecretIdentifiesNode, Issued
<1>1. ASSUME NEW n \in Node, NEW s \in Secret, NEW from, Credentials!Issue(n, s, from)
      PROVE  SecretsAreApart' /\ Credentials!SpentStaysSpent
  BY <1>1 DEF Credentials!Issue
<1>2. ASSUME NEW n \in Node, Credentials!Revoke(n)
      PROVE  SecretsAreApart' /\ Credentials!SpentStaysSpent
  BY <1>2 DEF Credentials!Revoke
<1>3. CASE UNCHANGED Credentials!vars
  BY <1>3 DEF Credentials!vars
<1> QED
  BY <1>1, <1>2, <1>3
    DEF Credentials!Next, Credentials!Enroll, Credentials!Rotate, Credentials!Reinstate

\* A reconnect secret belongs to one node for good: Reconnect, which looks the row
\* up by secret alone, never finds that of another node.
THEOREM SecretsIdentifyNodes == Spec => []SecretIdentifiesNode
<1>1. Init => SecretsAreApart
  BY DEF Init, SecretsAreApart, SecretIdentifiesNode, Credentials!SecretIdentifiesNode
<1>2. IInv /\ SecretsAreApart /\ [Next]_vars => SecretsAreApart'
  BY CredentialsStep, SecretsApartStep DEF IInv
<1>3. SecretsAreApart => SecretIdentifiesNode
  BY DEF SecretsAreApart
<1>4. QED
  BY <1>1, <1>2, <1>3, Inductive, PTL DEF Spec

\* A secret replaced by a reconnect is never accepted again, for its own node or any
\* other: what an agent that lost an acknowledgement retries with stays useless.
THEOREM SpentSecretsStaySpent == Spec => Credentials!SpentSecretStaysSpent
<1>1. Init => SecretsAreApart
  BY DEF Init, SecretsAreApart, SecretIdentifiesNode, Credentials!SecretIdentifiesNode
<1>2. IInv /\ SecretsAreApart /\ [Next]_vars
        => SecretsAreApart' /\ [Credentials!SpentStaysSpent]_(Credentials!vars)
  BY CredentialsStep, SecretsApartStep DEF IInv
<1>3. QED
  BY <1>1, <1>2, Inductive, PTL DEF Spec, Credentials!SpentSecretStaysSpent

\* No step takes the entry of a handler away while it is in its receive loop.
LEMMA EntryKeptStep ==
  ASSUME TypeOK, HandlersKnowNodes, StreamIsServed, [Next]_vars
  PROVE  EntryKept
<1> USE DEF TypeOK, HandlersKnowNodes, EntryKept, StreamIsServed, Registered
<1>1. ASSUME NEW c \in Conn, RefuseStream(c) PROVE EntryKept
  BY <1>1 DEF RefuseStream, Goto
<1>2. ASSUME NEW c \in Conn, Register(c) PROVE EntryKept
  <2>1. CASE Reject(c)
    BY <1>2, <2>1 DEF Register, Reject
  <2>2. CASE ~Reject(c)
    BY <1>2, <2>2 DEF Register, NewSecret, StatusAtHandshake
  <2> QED
    BY <2>1, <2>2
<1>3. ASSUME NEW c \in Conn, LookupSecret(c) PROVE EntryKept
  <2>1. ASSUME NEW n \in RowsWithSecret(presented[c]),
               nodeOf' = [nodeOf EXCEPT ![c] = n], pc' = [pc EXCEPT ![c] = "save"],
               UNCHANGED <<rows, open>>
        PROVE  EntryKept
    BY <1>3, <2>1 DEF LookupSecret, RowsWithSecret
  <2>2. CASE Reject(c)
    BY <1>3, <2>2 DEF LookupSecret, Reject
  <2> QED
    BY <1>3, <2>1, <2>2 DEF LookupSecret
<1>4. ASSUME NEW c \in Conn, SaveRow(c) PROVE EntryKept
  <2>1. CASE Reject(c)
    BY <1>4, <2>1 DEF SaveRow, Reject
  <2>2. CASE ~Reject(c)
    BY <1>4, <2>2 DEF SaveRow, NewSecret, StatusAtHandshake
  <2> QED
    BY <2>1, <2>2
<1>5. ASSUME NEW c \in Conn, SendAck(c) PROVE EntryKept
  BY <1>5 DEF SendAck, Goto
<1>6. ASSUME NEW c \in Conn, InstallStream(c) PROVE EntryKept
  BY <1>6 DEF InstallStream, Goto
<1>7. ASSUME NEW c \in Conn, ReceiveHeartbeat(c) PROVE EntryKept
  BY <1>7 DEF ReceiveHeartbeat, MarkOnline
<1>8. ASSUME NEW c \in Conn, ReceiveReport(c) PROVE EntryKept
  BY <1>8 DEF ReceiveReport, MarkOnline, Goto
<1>9. ASSUME NEW c \in Conn, UpdateSnapshot(c) PROVE EntryKept
  BY <1>9 DEF UpdateSnapshot, Goto
<1>10. ASSUME NEW c \in Conn, Unregister(c) PROVE EntryKept
  BY <1>10 DEF Unregister, RemoveOwnEntry, Goto
<1>11. ASSUME NEW c \in Conn, MarkOffline(c) PROVE EntryKept
  BY <1>11 DEF MarkOffline, OfflineRow, Goto
<1>12. ASSUME NEW c \in Conn, ForgetSnapshot(c) PROVE EntryKept
  BY <1>12 DEF ForgetSnapshot, WithoutSnapshot, Goto
<1>13. ASSUME NEW c \in Conn, Break(c) PROVE EntryKept
  BY <1>13 DEF Break
<1>14. ASSUME NEW c \in Conn, NEW s \in Secret \cup {NoConn}, ReceiveHandshake(c, s) PROVE EntryKept
  BY <1>14 DEF ReceiveHandshake, Goto
<1>15. ASSUME NEW n \in Node, FindStream(n) PROVE EntryKept
  BY <1>15 DEF FindStream
<1>16. ASSUME NEW n \in Node, SendDisconnect(n) PROVE EntryKept
  BY <1>16 DEF SendDisconnect
<1>17. ASSUME NEW n \in Node, DeleteSnapshot(n) PROVE EntryKept
  BY <1>17 DEF DeleteSnapshot, WithoutSnapshot
<1>18. ASSUME NEW n \in Node, DeleteRow(n) PROVE EntryKept
  BY <1>18 DEF DeleteRow
<1>19. CASE Restart
  BY <1>19 DEF Restart, AllOffline, StoppedAt
<1>20. CASE UNCHANGED vars
  BY <1>20 DEF vars
<1> QED
  BY <1>1, <1>2, <1>3, <1>4, <1>5, <1>6, <1>7, <1>8, <1>9, <1>10, <1>11, <1>12, <1>13, <1>14, <1>15, <1>16, <1>17, <1>18, <1>19, <1>20
    DEF Next, Handshaking, Answering, Receiving, Leaving, Deleting

\* A handler that leaves takes its own entry and never that of its successor, so a
\* connected node stays reachable when the handler of its old stream ends late.
THEOREM EntriesAreKept == Spec => EntryKeptWhileServing
<1>1. IInv /\ StreamIsServed /\ [Next]_vars => [EntryKept]_vars
  BY EntryKeptStep DEF IInv
<1>2. QED
  BY <1>1, Inductive, StreamsAreServed, PTL DEF Spec, EntryKeptWhileServing

\* No step brings a deleted row back unless a Reconnect had read it before.
LEMMA DeletedStaysStep ==
  ASSUME TypeOK, HandlersKnowNodes, NodesHaveRows, [Next]_vars
  PROVE  DeletedStays
<1> USE DEF TypeOK, HandlersKnowNodes, DeletedStays, NodesHaveRows, NoSavePending
<1>1. ASSUME NEW c \in Conn, RefuseStream(c) PROVE DeletedStays
  BY <1>1 DEF RefuseStream, Goto
<1>2. ASSUME NEW c \in Conn, Register(c) PROVE DeletedStays
  <2>1. CASE Reject(c)
    BY <1>2, <2>1 DEF Register, Reject
  <2>2. CASE ~Reject(c)
    BY <1>2, <2>2 DEF Register, NewSecret, StatusAtHandshake
  <2> QED
    BY <2>1, <2>2
<1>3. ASSUME NEW c \in Conn, LookupSecret(c) PROVE DeletedStays
  <2>1. ASSUME NEW n \in RowsWithSecret(presented[c]),
               nodeOf' = [nodeOf EXCEPT ![c] = n], pc' = [pc EXCEPT ![c] = "save"],
               UNCHANGED <<rows, open>>
        PROVE  DeletedStays
    BY <1>3, <2>1 DEF LookupSecret, RowsWithSecret
  <2>2. CASE Reject(c)
    BY <1>3, <2>2 DEF LookupSecret, Reject
  <2> QED
    BY <1>3, <2>1, <2>2 DEF LookupSecret
<1>4. ASSUME NEW c \in Conn, SaveRow(c) PROVE DeletedStays
  <2>1. CASE Reject(c)
    BY <1>4, <2>1 DEF SaveRow, Reject
  <2>2. CASE ~Reject(c)
    BY <1>4, <2>2 DEF SaveRow, NewSecret, StatusAtHandshake
  <2> QED
    BY <2>1, <2>2
<1>5. ASSUME NEW c \in Conn, SendAck(c) PROVE DeletedStays
  BY <1>5 DEF SendAck, Goto
<1>6. ASSUME NEW c \in Conn, InstallStream(c) PROVE DeletedStays
  BY <1>6 DEF InstallStream, Goto
<1>7. ASSUME NEW c \in Conn, ReceiveHeartbeat(c) PROVE DeletedStays
  BY <1>7 DEF ReceiveHeartbeat, MarkOnline
<1>8. ASSUME NEW c \in Conn, ReceiveReport(c) PROVE DeletedStays
  BY <1>8 DEF ReceiveReport, MarkOnline, Goto
<1>9. ASSUME NEW c \in Conn, UpdateSnapshot(c) PROVE DeletedStays
  BY <1>9 DEF UpdateSnapshot, Goto
<1>10. ASSUME NEW c \in Conn, Unregister(c) PROVE DeletedStays
  BY <1>10 DEF Unregister, RemoveOwnEntry, Goto
<1>11. ASSUME NEW c \in Conn, MarkOffline(c) PROVE DeletedStays
  BY <1>11 DEF MarkOffline, OfflineRow, Goto
<1>12. ASSUME NEW c \in Conn, ForgetSnapshot(c) PROVE DeletedStays
  BY <1>12 DEF ForgetSnapshot, WithoutSnapshot, Goto
<1>13. ASSUME NEW c \in Conn, Break(c) PROVE DeletedStays
  BY <1>13 DEF Break
<1>14. ASSUME NEW c \in Conn, NEW s \in Secret \cup {NoConn}, ReceiveHandshake(c, s) PROVE DeletedStays
  BY <1>14 DEF ReceiveHandshake, Goto
<1>15. ASSUME NEW n \in Node, FindStream(n) PROVE DeletedStays
  BY <1>15 DEF FindStream
<1>16. ASSUME NEW n \in Node, SendDisconnect(n) PROVE DeletedStays
  BY <1>16 DEF SendDisconnect
<1>17. ASSUME NEW n \in Node, DeleteSnapshot(n) PROVE DeletedStays
  BY <1>17 DEF DeleteSnapshot, WithoutSnapshot
<1>18. ASSUME NEW n \in Node, DeleteRow(n) PROVE DeletedStays
  BY <1>18 DEF DeleteRow
<1>19. CASE Restart
  BY <1>19 DEF Restart, AllOffline, StoppedAt
<1>20. CASE UNCHANGED vars
  BY <1>20 DEF vars
<1> QED
  BY <1>1, <1>2, <1>3, <1>4, <1>5, <1>6, <1>7, <1>8, <1>9, <1>10, <1>11, <1>12, <1>13, <1>14, <1>15, <1>16, <1>17, <1>18, <1>19, <1>20
    DEF Next, Handshaking, Answering, Receiving, Leaving, Deleting

\* A deletion is final as soon as no Reconnect is between reading and saving the row.
THEOREM DeletionsSettle == Spec => DeletionSettles
<1>1. IInv /\ StreamIsServed /\ [Next]_vars => [DeletedStays]_vars
  BY DeletedStaysStep DEF IInv
<1>2. QED
  BY <1>1, Inductive, StreamsAreServed, PTL DEF Spec, DeletionSettles

=============================================================================
