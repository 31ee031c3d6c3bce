-------------------------- MODULE NodeControlProofs --------------------------
(***************************************************************************)
(* Proofs about agent and panel together, for any number of connections,   *)
(* deleted nodes, broken streams, lingering handlers and restarts of       *)
(* either side, and whether or not the panel's writes fail.                *)
(*                                                                         *)
(* First, the panel's part of every step is one of NodeRegistry or a       *)
(* stutter: what NodeRegistryProofs proves of the register holds here, the *)
(* types included, and the rest builds on it.  Second, when no transport   *)
(* breaks and no process dies in a handshake, the secret in the agent's    *)
(* memory, and without any fault the one in its file, is held by a row,    *)
(* and the agent never becomes two nodes.  Third, whatever faults there    *)
(* are, an agent separated from its row stays so.                          *)
(***************************************************************************)
EXTENDS NodeControl, TLAPS

\* The proofs about the panel's part.
Proved == INSTANCE NodeRegistryProofs

USE ConnAssumption, DoomedAssumption, DbMayFailAssumption
    DEF panel, agent, Panel!Node, Panel!Secret, Panel!rows, Panel!handler, Panel!deletion

-----------------------------------------------------------------------------
(***************************************************************************)
(* The composition implements the register.                                *)
(***************************************************************************)

\* The module of the proofs has definitions of its own, which are the same.
LEMMA SameInit == Panel!Init => Proved!Init
  BY DEF Panel!Init, Proved!Init, Proved!Node

\* The same types, now and after the step.
LEMMA SameTypes == (Panel!TypeOK <=> Proved!TypeOK) /\ (Panel!TypeOK <=> Proved!TypeOK)'
  BY DEF Panel!TypeOK, Proved!TypeOK, Proved!Node, Proved!Secret, Panel!Running, Proved!Running,
     Panel!Ended, Proved!Ended

\* The same steps.
LEMMA SameStep == [Panel!Next]_(Panel!vars) <=> [Proved!Next]_(Proved!vars)
  BY DEF Panel!Next, Proved!Next, Panel!vars, Proved!vars, Panel!Handshaking,
     Proved!Handshaking, Panel!Answering, Proved!Answering, Panel!Receiving,
     Proved!Receiving, Panel!Leaving, Proved!Leaving, Panel!Deleting,
     Proved!Deleting, Panel!RefuseStream, Proved!RefuseStream,
     Panel!ReceiveHandshake, Proved!ReceiveHandshake, Panel!Register,
     Proved!Register, Panel!LookupSecret, Proved!LookupSecret, Panel!SaveRow,
     Proved!SaveRow, Panel!SendAck, Proved!SendAck, Panel!InstallStream,
     Proved!InstallStream, Panel!ReceiveHeartbeat, Proved!ReceiveHeartbeat,
     Panel!ReceiveReport, Proved!ReceiveReport, Panel!UpdateSnapshot,
     Proved!UpdateSnapshot, Panel!Unregister, Proved!Unregister, Panel!MarkOffline,
     Proved!MarkOffline, Panel!ForgetSnapshot, Proved!ForgetSnapshot,
     Panel!FindStream, Proved!FindStream, Panel!SendDisconnect,
     Proved!SendDisconnect, Panel!DeleteSnapshot, Proved!DeleteSnapshot,
     Panel!DeleteRow, Proved!DeleteRow, Panel!Break, Proved!Break, Panel!Restart,
     Proved!Restart, Panel!Goto, Proved!Goto, Panel!Reject, Proved!Reject,
     Panel!NewSecret, Proved!NewSecret, Panel!StatusAtHandshake,
     Proved!StatusAtHandshake, Panel!RowsWithSecret, Proved!RowsWithSecret,
     Panel!MarkOnline, Proved!MarkOnline, Panel!RemoveOwnEntry,
     Proved!RemoveOwnEntry, Panel!OfflineRow, Proved!OfflineRow,
     Panel!WithoutSnapshot, Proved!WithoutSnapshot, Panel!StoppedAt,
     Proved!StoppedAt, Panel!AllOffline, Proved!AllOffline, Panel!AckedSecrets,
     Proved!AckedSecrets, Panel!Running, Proved!Running, Panel!Ended, Proved!Ended,
     Proved!Node, Proved!Secret, Proved!rows, Proved!handler, Proved!deletion

\* A step of both is a step of the register or leaves the register alone.
LEMMA PanelPart == Panel!TypeOK /\ [Next]_vars => [Panel!Next]_(Panel!vars)
<1> SUFFICES ASSUME Panel!TypeOK, [Next]_vars PROVE [Panel!Next]_(Panel!vars)
  OBVIOUS
<1> USE DEF Panel!vars
<1>1. CASE UNCHANGED panel
  BY <1>1
<1>2. ASSUME NEW c \in Conn, AgentConnects(c) PROVE Panel!Next
  <2>1. Agent!SecretToPresent \in Conn \cup {NoConn}
    BY <1>2 DEF AgentConnects, Panel!ReceiveHandshake, Panel!AckedSecrets
  <2> QED
    BY <1>2, <2>1 DEF AgentConnects, Panel!Next, Panel!Handshaking
<1>3. CASE DisconnectArrives \/ AgentStops
  <2>1. UNCHANGED panel \/ Panel!Break(link)
    BY <1>3 DEF DisconnectArrives, AgentStops
  <2>2. CASE Panel!Break(link)
    BY <2>2 DEF Panel!TypeOK, Panel!Break, Panel!Next
  <2> QED
    BY <1>1, <2>1, <2>2
<1>4. CASE PanelRestarts
  BY <1>4 DEF PanelRestarts, Panel!Next
<1>5. ASSUME NEW c \in Conn, PanelHandles(c) \/ Heartbeat(c) \/ LinkBreaks(c) PROVE Panel!Next
  BY <1>5 DEF PanelHandles, Heartbeat, LinkBreaks, Panel!Next, Panel!Receiving
<1>6. ASSUME NEW n \in Conn, PanelDeletes(n) PROVE Panel!Next
  BY <1>6 DEF PanelDeletes, Panel!Next
<1>7. CASE AgentStarts \/ AckArrives \/ AgentPersists \/ AgentSeesEnd
  BY <1>1, <1>7 DEF AgentStarts, AckArrives, AgentPersists, AgentSeesEnd
<1> QED
  BY <1>1, <1>2, <1>3, <1>4, <1>5, <1>6, <1>7 DEF Next, AgentActs, vars

\* What the panel sends keeps the agent's types.
LEMMA AgentTypes == TypeOK /\ [Next]_vars => Agent!TypeOK'
<1> SUFFICES ASSUME TypeOK, [Next]_vars PROVE Agent!TypeOK'
  OBVIOUS
<1> USE DEF TypeOK, Agent!TypeOK, Agent!Places
<1>1. ASSUME NEW c \in Conn, AgentConnects(c) PROVE Agent!TypeOK'
  BY <1>1 DEF AgentConnects, Agent!Connect
<1>2. CASE AgentStarts
  BY <1>2 DEF AgentStarts, Agent!Start, Agent!ConfiguredSecret
<1>3. CASE AckArrives
  BY <1>3 DEF AckArrives, Agent!ReceiveAck, Panel!NewSecret, Panel!TypeOK
<1>4. CASE AgentPersists
  BY <1>4 DEF AgentPersists, Agent!OpenFile, Agent!WriteFile
<1>5. CASE AgentSeesEnd \/ DisconnectArrives \/ AgentStops
  BY <1>5 DEF AgentSeesEnd, DisconnectArrives, AgentStops, Agent!Disconnected, Agent!Stop
<1>6. CASE UNCHANGED agent
  BY <1>6
<1> QED
  BY <1>1, <1>2, <1>3, <1>4, <1>5, <1>6 DEF Next, AgentActs, PanelRestarts, PanelHandles, Heartbeat,
     LinkBreaks, PanelDeletes, vars

\* The register and the agent are well typed together.
THEOREM TypeCorrect == Spec => []TypeOK
<1>1. Init => TypeOK
  <2>1. Init => Panel!TypeOK
    BY DEF Init, Panel!Init, Panel!TypeOK, Panel!Running, Panel!Ended
  <2>2. Init => Agent!TypeOK
    BY DEF Init, Agent!Init, Agent!TypeOK, Agent!Places
  <2> QED
    BY <2>1, <2>2 DEF TypeOK
<1>2. TypeOK /\ [Next]_vars => TypeOK'
  <2> SUFFICES ASSUME TypeOK, [Next]_vars PROVE TypeOK'
    OBVIOUS
  <2> USE DEF TypeOK
  <2>1. Proved!TypeOK /\ [Proved!Next]_(Proved!vars)
    BY PanelPart, SameStep, SameTypes
  <2>2. Proved!TypeOK'
    BY <2>1, ConnAssumption, DoomedAssumption, DbMayFailAssumption, Proved!TypeOKStep
  <2> QED
    BY <2>2, SameTypes, AgentTypes
<1> QED
  BY <1>1, <1>2, PTL DEF Spec

\* Whatever agent and network do, the panel's part of every behaviour is one of NodeRegistry.
THEOREM RegisterImplemented == Spec => Panel!Spec
<1>1. Init => Panel!Init
  BY DEF Init
<1>2. TypeOK /\ [Next]_vars => [Panel!Next]_(Panel!vars)
  BY PanelPart DEF TypeOK
<1> QED
  BY <1>1, <1>2, TypeCorrect, PTL DEF Spec, Panel!Spec

\* So what is proved of the register holds beside the agent.
LEMMA RegisterProved == Spec => Proved!Spec
<1>1. Init => Proved!Init
  BY SameInit DEF Init
<1>2. TypeOK /\ [Next]_vars => [Proved!Next]_(Proved!vars)
  BY PanelPart, SameStep DEF TypeOK
<1> QED
  BY <1>1, <1>2, TypeCorrect, PTL DEF Spec, Proved!Spec

\* The safety properties of the register, of the streams map, the snapshots, the status
\* column and the secrets.
RegisterPromises ==
    Panel!StreamIsServed /\ Panel!SnapshotIsServed /\ Panel!OnlineIsAccounted /\ Panel!SecretIdentifiesNode

\* With an agent that reconnects, restarts and loses streams as its code does, the
\* register keeps all of them.
THEOREM PromisesKept == Spec => []RegisterPromises
<1>1. Proved!Spec => [](Proved!IInv /\ Proved!StreamIsServed /\ Proved!SnapshotIsServed
                        /\ Proved!OnlineIsAccounted /\ Proved!SecretIdentifiesNode)
  BY Proved!Inductive, Proved!StreamsAreServed, Proved!SnapshotsAreServed, Proved!OnlineIsAccountedFor,
     Proved!SecretsIdentifyNodes, PTL
<1>2. Proved!StreamIsServed /\ Proved!SnapshotIsServed /\ Proved!OnlineIsAccounted
      /\ Proved!SecretIdentifiesNode => RegisterPromises
  BY DEF RegisterPromises, Panel!StreamIsServed, Proved!StreamIsServed, Panel!SnapshotIsServed,
     Proved!SnapshotIsServed, Panel!OnlineIsAccounted, Proved!OnlineIsAccounted,
     Panel!SecretIdentifiesNode, Proved!SecretIdentifiesNode, Panel!Credentials!SecretIdentifiesNode,
     Proved!Credentials!SecretIdentifiesNode, Panel!Registered, Proved!Registered, Proved!Node
<1> QED
  BY <1>1, <1>2, RegisterProved, PTL

\* And what it promises of its steps: secrets are issued, rotated and revoked as
\* NodeCredentials says, deletions are final, and an entry of the streams map goes only
\* with its own handler.
THEOREM StepPromisesKept ==
    Spec => Panel!CredentialsSpec /\ Panel!DeletionSettles /\ Panel!EntryKeptWhileServing
<1>1. Proved!Credentials!Init => Panel!Credentials!Init
  BY DEF Proved!Credentials!Init, Panel!Credentials!Init, Proved!Node
<1>2. [Proved!Credentials!Next]_(Proved!Credentials!vars) => [Panel!Credentials!Next]_(Panel!Credentials!vars)
  BY DEF Proved!Credentials!Next, Panel!Credentials!Next, Proved!Credentials!vars,
         Panel!Credentials!vars, Proved!Credentials!Enroll, Panel!Credentials!Enroll,
         Proved!Credentials!Rotate, Panel!Credentials!Rotate, Proved!Credentials!Reinstate,
         Panel!Credentials!Reinstate, Proved!Credentials!Issue, Panel!Credentials!Issue,
         Proved!Credentials!Revoke, Panel!Credentials!Revoke, Proved!Node, Proved!Secret
<1>3. [Proved!DeletedStays]_(Proved!vars) => [Panel!DeletedStays]_(Panel!vars)
  BY DEF Proved!DeletedStays, Panel!DeletedStays, Proved!NoSavePending, Panel!NoSavePending,
         Proved!vars, Panel!vars, Proved!rows, Proved!handler, Proved!deletion, Proved!Node
<1>4. [Proved!EntryKept]_(Proved!vars) => [Panel!EntryKept]_(Panel!vars)
  BY DEF Proved!EntryKept, Panel!EntryKept, Proved!Registered, Panel!Registered,
         Proved!vars, Panel!vars, Proved!rows, Proved!handler, Proved!deletion, Proved!Node
<1> QED
  BY <1>1, <1>2, <1>3, <1>4, RegisterProved, Proved!CredentialsImplemented,
     Proved!DeletionsSettle, Proved!EntriesAreKept, PTL
     DEF Proved!CredentialsSpec, Panel!CredentialsSpec, Proved!Credentials!Spec,
         Panel!Credentials!Spec, Proved!DeletionSettles, Panel!DeletionSettles,
         Proved!EntryKeptWhileServing, Panel!EntryKeptWhileServing

-----------------------------------------------------------------------------
(***************************************************************************)
(* Handshakes that are not cut off.  Rows gain and lose secrets in         *)
(* Register and SaveRow only, and only the handler of the agent's own      *)
(* stream can be there, while the agent waits in its handshake             *)
(* (OnlyLinkShakes): everybody else's handler is past its handshake.       *)
(***************************************************************************)

Shaking == {"register", "lookup", "save", "ack"}
PastSave == {"ack", "install", "serving", "report"}
PanelPlaces == {"idle", "register", "lookup", "save", "ack", "install", "serving", "report",
                "offline", "forget", "forgetOnly", "closed", "noack", "failed"}

USE DEF Shaking, PastSave, PanelPlaces, Panel!Running, Panel!Ended, Agent!Places

OnlyLinkShakes == \A c \in Conn : pc[c] \in Shaking => at = "handshake" /\ c = link

\* A row holds secret x.
Held(x) == x = NoConn \/ \E n \in Conn : secret[n] = x

\* The handler of a handshake under way: its transport is up until it has answered,
\* it registers only an agent without a secret, and the row has its secret before it
\* answers.
HandshakeFits ==
    at = "handshake" =>
        /\ link \in Conn
        /\ pc[link] \in Shaking \cup PastSave \cup {"closed"}
        /\ pc[link] # "closed" => link \in open
        /\ pc[link] = "register" => Agent!SecretToPresent = NoConn
        /\ pc[link] \in PastSave => Held(link)

SecretsHaveRows == \A n \in Conn : secret[n] # NoConn => record[n] # "absent"

Shape == Orderly /\ OnlyLinkShakes /\ HandshakeFits /\ SecretsHaveRows

\* What the proof needs to know of the types and of the register.
Known ==
    /\ record \in [Conn -> {"absent", "live", "deleted"}]
    /\ secret \in [Conn -> Conn \cup {NoConn}]
    /\ pc \in [Conn -> PanelPlaces]
    /\ nodeOf \in [Conn -> Conn \cup {NoConn}]
    /\ delPc \in [Conn -> {"none", "send", "snapshot", "row"}]
    /\ at \in Agent!Places
    /\ {link, mem, cfg, file, env} \subseteq Conn \cup {NoConn}
    /\ faults \subseteq Agent!AllFaults
    /\ \A c \in Conn : pc[c] = "save" => nodeOf[c] \in Conn
    /\ \A c \in Conn : nodeOf[c] # NoConn => record[nodeOf[c]] # "absent"
    /\ \A n \in Conn : delPc[n] # "none" => record[n] # "absent"

\* A handshake that has written its secret has replaced the one the agent has.
Rotated == at = "handshake" /\ pc[link] \in PastSave
HeldSoFar(x) == Rotated \/ Held(x)

\* The agent's handler registers a row.
Registers(c) == c = link /\ at = "handshake" /\ pc[c] = "register" /\ pc'[c] = "ack"

\* What a step of the panel keeps.
ShapeKept ==
    /\ Shape'
    /\ Rotated => Rotated'
    /\ \A x \in Conn \cup {NoConn} : HeldSoFar(x) => HeldSoFar(x)'
    /\ \A n \in Conn : record[n] = "absent" => record'[n] = "absent" \/ Registers(n)

\* The panel's steps that touch no secret and move no handler into a handshake.
LEMMA SecretsUntouched ==
  ASSUME Known, Known', Shape, UNCHANGED <<agent, secret>>,
         \A n \in Conn : record'[n] = "absent" <=> record[n] = "absent",
         \A c \in Conn : pc'[c] \in Shaking => pc[c] \in Shaking,
         at = "handshake" =>
             /\ pc'[link] \in Shaking \cup PastSave \cup {"closed"}
             /\ pc'[link] # "closed" => link \in open'
             /\ pc'[link] = "register" => pc[link] = "register"
             /\ pc'[link] \in PastSave <=> pc[link] \in PastSave
  PROVE  ShapeKept
<1>1. Shape'
  BY DEF Shape, Orderly, OnlyLinkShakes, HandshakeFits, SecretsHaveRows, Held, Agent!SecretToPresent
<1> QED
  BY <1>1 DEF ShapeKept, HeldSoFar, Held, Rotated

\* The two steps that write a secret, by the handler of the agent's handshake.
LEMMA SecretWritten ==
  ASSUME Known, Known', Shape, UNCHANGED agent,
         NEW c \in Conn, NEW n \in Conn, pc[c] \in {"register", "save"},
         secret' = [secret EXCEPT ![n] = c], record' = [record EXCEPT ![n] = "live"],
         pc' = [pc EXCEPT ![c] = "ack"], open' = open,
         pc[c] = "register" => n = c,
         pc[c] = "save" => record[n] # "absent"
  PROVE  ShapeKept
<1>1. c = link /\ at = "handshake"
  BY DEF Shape, OnlyLinkShakes
<1>2. Shape'
  BY <1>1 DEF Shape, Orderly, Known, OnlyLinkShakes, HandshakeFits, SecretsHaveRows, Held
<1> QED
  BY <1>1, <1>2 DEF ShapeKept, HeldSoFar, Rotated, Known, Registers

\* Handlers in or past their handshake.
LEMMA AnsweringKeeps ==
  ASSUME Known, Known', Shape, UNCHANGED agent, NEW c \in Conn, Panel!Answering(c)
  PROVE  ShapeKept
<1> USE DEF Known
<1>1. CASE Panel!Reject(c) /\ pc[c] \in {"register", "lookup", "save"}
  BY <1>1, SecretsUntouched DEF Panel!Reject, Shape, OnlyLinkShakes, HandshakeFits
<1>2. CASE Panel!Register(c) /\ ~Panel!Reject(c)
  BY <1>2, SecretWritten DEF Panel!Register, Panel!NewSecret
<1>3. CASE Panel!LookupSecret(c) /\ ~Panel!Reject(c)
  BY <1>3, SecretsUntouched DEF Panel!LookupSecret, Shape, OnlyLinkShakes, HandshakeFits
<1>4. CASE Panel!SaveRow(c) /\ ~Panel!Reject(c)
  BY <1>4, SecretWritten DEF Panel!SaveRow, Panel!NewSecret
<1>5. CASE Panel!SendAck(c) \/ Panel!InstallStream(c)
  BY <1>5, SecretsUntouched DEF Panel!SendAck, Panel!InstallStream, Panel!Goto, Shape, OnlyLinkShakes,
     HandshakeFits
<1> QED
  BY <1>1, <1>2, <1>3, <1>4, <1>5
     DEF Panel!Answering, Panel!Register, Panel!LookupSecret, Panel!SaveRow

\* Handlers that receive messages or clean up.
LEMMA ServingKeeps ==
  ASSUME Known, Known', Shape, UNCHANGED agent, NEW c \in Conn,
         \/ Panel!ReceiveHeartbeat(c) \/ Panel!ReceiveReport(c) \/ Panel!UpdateSnapshot(c)
         \/ Panel!Leaving(c)
  PROVE  ShapeKept
<1> USE DEF Known, Shape, HandshakeFits, Panel!Goto
<1>1. CASE Panel!ReceiveHeartbeat(c)
  BY <1>1, SecretsUntouched DEF Panel!ReceiveHeartbeat
<1>2. CASE Panel!ReceiveReport(c)
  BY <1>2, SecretsUntouched DEF Panel!ReceiveReport
<1>3. CASE Panel!UpdateSnapshot(c)
  BY <1>3, SecretsUntouched DEF Panel!UpdateSnapshot
<1>4. CASE Panel!Leaving(c)
  BY <1>4, SecretsUntouched DEF Panel!Leaving, Panel!Unregister, Panel!MarkOffline, Panel!ForgetSnapshot
<1> QED
  BY <1>1, <1>2, <1>3, <1>4

\* Transports that break, deletions, and restarts of the panel: the first and the last
\* never in a handshake.
LEMMA OthersKeep ==
  ASSUME Known, Known', Shape,
         \/ \E c \in Conn : LinkBreaks(c)
         \/ \E n \in Conn : PanelDeletes(n)
         \/ PanelRestarts
         \/ UNCHANGED vars
  PROVE  ShapeKept
<1> USE DEF Known, Shape, Orderly, HandshakeFits
<1>1. ASSUME NEW c \in Conn, LinkBreaks(c) PROVE ShapeKept
  BY <1>1, SecretsUntouched DEF LinkBreaks, Panel!Break
<1>2. ASSUME NEW n \in Conn, PanelDeletes(n) PROVE ShapeKept
  BY <1>2, SecretsUntouched DEF PanelDeletes, Panel!Deleting, Panel!FindStream, Panel!SendDisconnect,
     Panel!DeleteSnapshot, Panel!DeleteRow
<1>3. CASE PanelRestarts
  <2>1. at # "handshake" /\ UNCHANGED <<agent, secret, record>>
    BY <1>3 DEF PanelRestarts, Panel!Restart
  <2>2. \A c \in Conn : pc'[c] \in Shaking => pc[c] \in Shaking
    BY <1>3 DEF PanelRestarts, Panel!Restart, Panel!StoppedAt
  <2> QED
    BY <2>1, <2>2, SecretsUntouched
<1>4. CASE UNCHANGED vars
  BY <1>4, SecretsUntouched DEF vars
<1> QED
  BY <1>1, <1>2, <1>3, <1>4

\* Every step of the panel but the arrival of a Handshake.
PanelAlone ==
    /\ UNCHANGED agent
    /\ \/ \E c \in Conn : PanelHandles(c) \/ Heartbeat(c) \/ LinkBreaks(c)
       \/ \E n \in Conn : PanelDeletes(n)
       \/ PanelRestarts
       \/ UNCHANGED vars

\* None of them takes a held secret away before the handshake has replaced it.
LEMMA PanelAloneKeeps == Known /\ Known' /\ Shape /\ PanelAlone => ShapeKept
  BY AnsweringKeeps, ServingKeeps, OthersKeep DEF PanelAlone, PanelHandles, Heartbeat

\* Every other step is the agent's, alone or with the end of its stream.
AgentAlone ==
    AgentStarts \/ AckArrives \/ AgentPersists \/ AgentSeesEnd \/ DisconnectArrives \/ AgentStops

\* There is no other step, but the arrival of a Handshake.
LEMMA StepsAreOfOne ==
  [Next]_vars => PanelAlone \/ AgentAlone \/ \E c \in Conn : AgentConnects(c)
  BY DEF Next, AgentActs, PanelAlone, AgentAlone, PanelRestarts, PanelHandles, Heartbeat, LinkBreaks,
     PanelDeletes, vars

\* Which leaves the register's rows and handlers alone.
LEMMA AgentAloneKeepsRows ==
  AgentAlone => /\ UNCHANGED <<record, secret, pc>>
                /\ at' = "handshake" => at = "handshake" /\ UNCHANGED <<link, open>>
  BY DEF AgentAlone, AgentStarts, Agent!Start, AckArrives, Agent!ReceiveAck, AgentPersists, Agent!OpenFile,
     Agent!WriteFile, AgentSeesEnd, Agent!Disconnected, DisconnectArrives, Panel!Break, AgentStops, Agent!Stop

\* The secret in memory is held, unless its row has just got a newer one.
MemoryKept == (at = "down" => mem = NoConn) /\ HeldSoFar(mem)

OrderlyInv == Shape /\ MemoryKept

\* The agent dials, and its Handshake arrives.
LEMMA OrderlyConnect ==
  ASSUME Known, Known', OrderlyInv, NEW c \in Conn, AgentConnects(c)
  PROVE  OrderlyInv'
<1> USE DEF OrderlyInv, AgentConnects, Agent!Connect, Panel!ReceiveHandshake, Panel!Goto, Known
<1>1. OnlyLinkShakes'
  BY DEF Shape, OnlyLinkShakes
<1>2. HandshakeFits'
  BY DEF HandshakeFits, Agent!SecretToPresent
<1>3. Orderly' /\ SecretsHaveRows'
  BY DEF Shape, Orderly, SecretsHaveRows
<1>4. MemoryKept'
  BY DEF MemoryKept, HeldSoFar, Rotated, Held
<1> QED
  BY <1>1, <1>2, <1>3, <1>4 DEF Shape

\* The agent on its own.
LEMMA OrderlyAlone ==
  ASSUME Known, Known', OrderlyInv, AgentAlone
  PROVE  OrderlyInv'
<1> USE AgentAloneKeepsRows DEF OrderlyInv, MemoryKept, HeldSoFar, Held, Rotated, HandshakeFits, Orderly
<1>1. CASE AgentStarts
  BY <1>1 DEF AgentStarts, Agent!Start, Shape, OnlyLinkShakes, SecretsHaveRows
<1>2. CASE AckArrives
  BY <1>2 DEF AckArrives, Agent!ReceiveAck, Panel!NewSecret, Panel!Registered, Shape, OnlyLinkShakes,
     SecretsHaveRows
<1>3. CASE AgentPersists
  BY <1>3 DEF AgentPersists, Agent!OpenFile, Agent!WriteFile, Shape, OnlyLinkShakes, SecretsHaveRows
<1>4. CASE AgentSeesEnd
  BY <1>4 DEF AgentSeesEnd, Agent!Disconnected, Shape, OnlyLinkShakes, SecretsHaveRows
<1>5. CASE DisconnectArrives
  BY <1>5 DEF DisconnectArrives, Agent!Disconnected, Shape, OnlyLinkShakes, SecretsHaveRows
<1>6. CASE AgentStops
  BY <1>6 DEF AgentStops, Agent!Stop, Shape, OnlyLinkShakes, SecretsHaveRows
<1> QED
  BY <1>1, <1>2, <1>3, <1>4, <1>5, <1>6 DEF AgentAlone

\* Every step, with what is known of the register before and after it.
LEMMA OrderlyStep == Known /\ Known' /\ OrderlyInv /\ [Next]_vars => OrderlyInv'
<1> SUFFICES ASSUME Known, Known', OrderlyInv, [Next]_vars PROVE OrderlyInv'
  OBVIOUS
<1>1. CASE PanelAlone
  <2>1. ShapeKept
    BY <1>1, PanelAloneKeeps DEF OrderlyInv
  <2> QED
    BY <1>1, <2>1 DEF PanelAlone, ShapeKept, OrderlyInv, MemoryKept, HeldSoFar, Known
<1> QED
  BY <1>1, StepsAreOfOne, OrderlyConnect, OrderlyAlone

-----------------------------------------------------------------------------
(***************************************************************************)
(* Without any fault in handshakes the file follows the memory, and only   *)
(* an agent that no row knows registers.                                   *)
(***************************************************************************)

\* The file has what the agent would present, and a row holds it.
FileKept ==
    /\ env = NoConn
    /\ at \in {"granted", "truncated", "serving"} => mem # NoConn
    /\ at \in {"dial", "handshake", "serving"} => file = Agent!SecretToPresent
    /\ at \notin {"granted", "truncated"} => HeldSoFar(file)

OneNode == \A m, n \in Conn : record[m] # "absent" /\ record[n] # "absent" => m = n

\* An agent without a secret has no row.
RowlessFits ==
    at \notin {"granted", "truncated"} /\ file = NoConn /\ ~Rotated =>
        \A n \in Conn : record[n] = "absent"

QInv == faults = {} /\ OrderlyInv /\ FileKept /\ OneNode /\ RowlessFits

\* The panel: a row is created only for the agent that has no secret.
LEMMA QuietPanelAlone ==
  ASSUME Known, Known', QInv, PanelAlone
  PROVE  QInv'
<1> USE DEF QInv, PanelAlone
<1>1. ShapeKept
  BY PanelAloneKeeps DEF OrderlyInv
<1>2. OrderlyInv'
  BY <1>1 DEF OrderlyInv, ShapeKept, MemoryKept, HeldSoFar, Known
<1>3. FileKept'
  BY <1>1 DEF FileKept, ShapeKept, HeldSoFar, Known, Agent!SecretToPresent
<1>4. ASSUME NEW c \in Conn, Registers(c) PROVE \A n \in Conn : record[n] = "absent"
  <2>1. Agent!SecretToPresent = NoConn /\ ~Rotated
    BY <1>4 DEF Registers, OrderlyInv, Shape, HandshakeFits, Rotated
  <2> QED
    BY <1>4, <2>1 DEF Registers, FileKept, RowlessFits
<1>5. OneNode'
  BY <1>1, <1>4 DEF OneNode, ShapeKept, Registers
<1>6. RowlessFits'
  BY <1>1 DEF RowlessFits, ShapeKept, Registers, Rotated
<1> QED
  BY <1>2, <1>3, <1>5, <1>6

\* The agent dials with what its file has.
LEMMA QuietConnect ==
  ASSUME Known, Known', QInv, NEW c \in Conn, AgentConnects(c)
  PROVE  QInv'
<1> USE DEF QInv, AgentConnects, Agent!Connect, Panel!ReceiveHandshake, Panel!Goto
<1>1. OrderlyInv'
  BY OrderlyConnect
<1>2. FileKept'
  BY DEF FileKept, HeldSoFar, Rotated, Held, Agent!SecretToPresent
<1>3. OneNode' /\ RowlessFits'
  BY DEF OneNode, RowlessFits, Rotated
<1> QED
  BY <1>1, <1>2, <1>3

\* The agent on its own: a restart finds in the file what memory had.
LEMMA QuietAlone ==
  ASSUME Known, Known', QInv, AgentAlone
  PROVE  QInv'
<1> USE AgentAloneKeepsRows, OrderlyAlone
    DEF QInv, OrderlyInv, MemoryKept, FileKept, OneNode, RowlessFits, HeldSoFar, Held, Rotated, Agent!SecretToPresent
<1>1. CASE AgentStarts
  BY <1>1 DEF AgentStarts, Agent!Start, Agent!ConfiguredSecret
<1>2. CASE AckArrives
  BY <1>2 DEF AckArrives, Agent!ReceiveAck, Panel!NewSecret, Shape, HandshakeFits
<1>3. CASE AgentPersists
  BY <1>3 DEF AgentPersists, Agent!OpenFile, Agent!WriteFile
<1>4. CASE AgentSeesEnd
  BY <1>4 DEF AgentSeesEnd, Agent!Disconnected, Shape, HandshakeFits
<1>5. CASE DisconnectArrives
  BY <1>5 DEF DisconnectArrives, Agent!Disconnected
<1>6. CASE AgentStops
  BY <1>6 DEF AgentStops, Agent!Stop
<1> QED
  BY <1>1, <1>2, <1>3, <1>4, <1>5, <1>6 DEF AgentAlone

-----------------------------------------------------------------------------

\* The register and the types give what the steps need.
LEMMA AlwaysKnown == Spec => []Known
<1>1. Proved!IInv /\ TypeOK => Known
  BY DEF Proved!IInv, Proved!HandlersKnowNodes, Proved!NodesHaveRows, Proved!Node, TypeOK, Panel!TypeOK,
     Agent!TypeOK, Known
<1> QED
  BY <1>1, RegisterProved, Proved!Inductive, TypeCorrect, PTL


\* The faults of a behaviour are chosen once.
LEMMA FaultsStay == [Next]_vars => faults' = faults
  BY DEF Next, vars, AgentActs, AgentStarts, AgentConnects, AckArrives, AgentPersists, AgentSeesEnd,
     DisconnectArrives, AgentStops, PanelRestarts, PanelHandles, Heartbeat, LinkBreaks, PanelDeletes,
     Agent!Start, Agent!Connect, Agent!ReceiveAck, Agent!OpenFile, Agent!WriteFile, Agent!Disconnected,
     Agent!Stop

\* In behaviours without these faults the rest is inductive; in the others nothing is
\* claimed.
THEOREM OrderlyInductive == Spec => [](Orderly => OrderlyInv)
<1>1. Init => (Orderly => OrderlyInv)
  BY DEF Init, Panel!Init, Agent!Init, OrderlyInv, Shape, OnlyLinkShakes, HandshakeFits, SecretsHaveRows,
     MemoryKept, HeldSoFar, Held
<1>2. Known /\ Known' /\ (Orderly => OrderlyInv) /\ [Next]_vars => (Orderly => OrderlyInv)'
  BY OrderlyStep, FaultsStay DEF Orderly
<1> QED
  BY <1>1, <1>2, AlwaysKnown, PTL DEF Spec

\* With no fault in handshakes, QInv holds at every moment, not only of the next dialling.
THEOREM QuietInductive == Spec => [](Quiet => QInv)
<1>1. Init => (Quiet => QInv)
  BY DEF Init, Panel!Init, Agent!Init, Quiet, QInv, OrderlyInv, Shape, Orderly, OnlyLinkShakes,
     HandshakeFits, SecretsHaveRows, MemoryKept, FileKept, OneNode, RowlessFits, HeldSoFar, Held,
     Agent!SecretToPresent
<1>2. Known /\ Known' /\ (Quiet => QInv) /\ [Next]_vars => (Quiet => QInv)'
  BY StepsAreOfOne, QuietPanelAlone, QuietConnect, QuietAlone, FaultsStay DEF Quiet
<1> QED
  BY <1>1, <1>2, AlwaysKnown, PTL DEF Spec

\* When no fault hits a handshake, the secret the agent dials with is held by a row:
\* the panel never rotates it away.
THEOREM SecretIsHeld == Spec => []QuietSecretIsHeld
<1>1. (Quiet => QInv) => QuietSecretIsHeld
  BY DEF QInv, FileKept, HeldSoFar, Held, Rotated, QuietSecretIsHeld, KnownSecretIsHeld
<1> QED
  BY <1>1, QuietInductive, PTL

\* And it never registers a second time, so that one agent is one node of the panel.
THEOREM AgentIsOneNode == Spec => []QuietAgentIsOneNode
<1>1. (Quiet => QInv) => QuietAgentIsOneNode
  BY DEF QInv, OneNode, QuietAgentIsOneNode
<1> QED
  BY <1>1, QuietInductive, PTL

\* Deletions are those of the nodes that may be deleted.
DeletedAreDoomed ==
    \A n \in Conn : delPc[n] # "none" \/ record[n] = "deleted" => n \in Doomed

LEMMA DeletedDoomed == Spec => []DeletedAreDoomed
<1>1. Init => DeletedAreDoomed
  BY DEF Init, Panel!Init, DeletedAreDoomed
<1>2. Known /\ DeletedAreDoomed /\ [Panel!Next]_(Panel!vars) => DeletedAreDoomed'
  <2> SUFFICES ASSUME Known, DeletedAreDoomed, [Panel!Next]_(Panel!vars) PROVE DeletedAreDoomed'
    OBVIOUS
  <2> USE DEF Known, DeletedAreDoomed, Panel!Goto
  <2>1. ASSUME NEW c \in Conn, Panel!Handshaking(c) PROVE DeletedAreDoomed'
    BY <2>1 DEF Panel!Handshaking, Panel!RefuseStream, Panel!ReceiveHandshake
  <2>2. ASSUME NEW c \in Conn, Panel!Answering(c) PROVE DeletedAreDoomed'
    BY <2>2 DEF Panel!Answering, Panel!Register, Panel!LookupSecret, Panel!SaveRow, Panel!SendAck,
       Panel!InstallStream, Panel!Reject
  <2>3. ASSUME NEW c \in Conn, Panel!Receiving(c) \/ Panel!Leaving(c) \/ Panel!Break(c)
        PROVE  DeletedAreDoomed'
    BY <2>3 DEF Panel!Receiving, Panel!Leaving, Panel!ReceiveHeartbeat, Panel!ReceiveReport,
       Panel!UpdateSnapshot, Panel!Unregister, Panel!MarkOffline, Panel!ForgetSnapshot, Panel!Break
  <2>4. ASSUME NEW n \in Conn, Panel!Deleting(n) PROVE DeletedAreDoomed'
    BY <2>4 DEF Panel!Deleting, Panel!FindStream, Panel!SendDisconnect, Panel!DeleteSnapshot, Panel!DeleteRow
  <2>5. CASE Panel!Restart \/ UNCHANGED Panel!vars
    BY <2>5 DEF Panel!Restart, Panel!vars
  <2> QED
    BY <2>1, <2>2, <2>3, <2>4, <2>5 DEF Panel!Next
<1>3. TypeOK /\ [Next]_vars => [Panel!Next]_(Panel!vars)
  BY PanelPart DEF TypeOK
<1> QED
  BY <1>1, <1>2, <1>3, TypeCorrect, AlwaysKnown, PTL DEF Spec

\* Only the deletion of its own row keeps such an agent out.
THEOREM LockOutIsDeliberate == Spec => []QuietLockOutIsDeliberate
<1>1. Known /\ DeletedAreDoomed /\ (Quiet => QInv) => QuietLockOutIsDeliberate
  <2> SUFFICES ASSUME Known, DeletedAreDoomed, QInv, LockedOut
               PROVE  \E n \in Doomed : record[n] = "deleted" /\ secret[n] = Agent!SecretToPresent
    BY DEF QuietLockOutIsDeliberate
  <2>1. file = Agent!SecretToPresent /\ Held(file) /\ file # NoConn
    BY DEF LockedOut, QInv, FileKept, HeldSoFar, Rotated
  <2>2. PICK n \in Conn : secret[n] = file
    BY <2>1 DEF Held
  <2>3. record[n] = "deleted"
    BY <2>1, <2>2 DEF LockedOut, Panel!RowsWithSecret, Known, QInv, OrderlyInv, Shape, SecretsHaveRows
  <2> QED
    BY <2>1, <2>2, <2>3 DEF DeletedAreDoomed
<1> QED
  BY <1>1, QuietInductive, AlwaysKnown, DeletedDoomed, PTL

\* What disk and configuration spoil does not reach the agent's memory.
THEOREM MemoryIsHeld == Spec => []OrderlyMemoryIsHeld
<1>1. (Orderly => OrderlyInv) => OrderlyMemoryIsHeld
  BY DEF OrderlyInv, MemoryKept, HeldSoFar, Held, Rotated, OrderlyMemoryIsHeld
<1> QED
  BY <1>1, OrderlyInductive, PTL

-----------------------------------------------------------------------------
(***************************************************************************)
(* Lock-outs, whatever faults there are.  A row gets a secret only from    *)
(* the handler that draws it, before that handler's ack; whatever the      *)
(* agent has is from an ack that was sent.  A secret that no row holds any *)
(* more therefore comes back to none.                                      *)
(***************************************************************************)

\* What this proof needs to know of the types of the panel's variables.
PanelTypes ==
    /\ record \in [Conn -> {"absent", "live", "deleted"}]
    /\ secret \in [Conn -> Conn \cup {NoConn}]
    /\ pc \in [Conn -> PanelPlaces]

\* The agent's secrets are from acks that were sent.
SecretsAreAcked ==
    /\ mem \in Panel!AckedSecrets \cup {NoConn} /\ cfg \in Panel!AckedSecrets \cup {NoConn}
    /\ file \in Panel!AckedSecrets \cup {NoConn} /\ env \in Panel!AckedSecrets \cup {NoConn}

\* The handler the agent waits for has what the agent would present.
HandshakeIsCurrent ==
    at = "handshake" =>
        link \in Conn /\ pc[link] # "idle" /\ presented[link] = Agent!SecretToPresent

AInv == PanelTypes /\ presented \in [Conn -> Conn \cup {NoConn}] /\ SecretsAreAcked /\ HandshakeIsCurrent

\* A step of the panel on its own: any but the arrival of a Handshake.
PanelActs ==
    \/ \E c \in Conn : \/ Panel!Answering(c) \/ Panel!ReceiveHeartbeat(c) \/ Panel!ReceiveReport(c)
                       \/ Panel!UpdateSnapshot(c) \/ Panel!Leaving(c) \/ Panel!Break(c)
    \/ \E n \in Conn : Panel!Deleting(n)
    \/ Panel!Break(link) \/ Panel!Restart
    \/ UNCHANGED panel

\* What such a step keeps: acks stay sent, handlers begun stay begun, a secret that was
\* acked and is held by no live row stays so, and a handler that was given such a
\* secret is rejected.
PanelKeeps ==
    /\ PanelTypes' /\ presented' = presented
    /\ Panel!AckedSecrets \subseteq Panel!AckedSecrets'
    /\ \A c \in Conn : pc[c] # "idle" => pc'[c] # "idle"
    /\ \A x \in Panel!AckedSecrets : Panel!RowsWithSecret(x) = {} => Panel!RowsWithSecret(x)' = {}
    /\ \A c \in Conn : pc[c] \in {"lookup", "closed"} /\ Panel!RowsWithSecret(presented[c]) = {}
                           => pc'[c] \in {"lookup", "closed"}

\* Steps that move a handler and touch neither secrets nor revive rows.
LEMMA HandlerMoves ==
  ASSUME AInv, PanelTypes', presented' = presented, secret' = secret,
         \A n \in Conn : record'[n] = "live" => record[n] = "live",
         \A c \in Conn : /\ pc[c] # "idle" => pc'[c] # "idle"
                         /\ c \in Panel!AckedSecrets => c \in Panel!AckedSecrets'
                         /\ pc[c] = "lookup" /\ Panel!RowsWithSecret(presented[c]) = {}
                                => pc'[c] \in {"lookup", "closed"}
                         /\ pc[c] = "closed" => pc'[c] = "closed"
  PROVE  PanelKeeps
<1>1. Panel!AckedSecrets \subseteq Panel!AckedSecrets'
  BY DEF Panel!AckedSecrets
<1>2. \A x \in Conn : Panel!RowsWithSecret(x)' \subseteq Panel!RowsWithSecret(x)
  BY DEF Panel!RowsWithSecret
<1>3. \A x \in Panel!AckedSecrets : Panel!RowsWithSecret(x) = {} => Panel!RowsWithSecret(x)' = {}
  BY <1>2 DEF Panel!AckedSecrets
<1> QED
  BY <1>1, <1>3 DEF PanelKeeps

\* Handlers that give a row their secret: one that is not acked yet.
LEMMA SecretIsFresh ==
  ASSUME AInv, NEW c \in Conn, NEW n \in Conn \cup {NoConn}, pc[c] \in {"register", "save"},
         record' = [record EXCEPT ![n] = "live"], secret' = [secret EXCEPT ![n] = c],
         pc' = [pc EXCEPT ![c] = "ack"], presented' = presented
  PROVE  PanelKeeps
<1> USE DEF AInv, PanelTypes
<1>1. PanelTypes'
  OBVIOUS
<1>2. c \notin Panel!AckedSecrets /\ Panel!AckedSecrets \subseteq Panel!AckedSecrets'
  BY DEF Panel!AckedSecrets
<1>3. ASSUME NEW x \in Panel!AckedSecrets, Panel!RowsWithSecret(x) = {}
      PROVE  Panel!RowsWithSecret(x)' = {}
  BY <1>2, <1>3 DEF Panel!RowsWithSecret
<1> QED
  BY <1>1, <1>2, <1>3 DEF PanelKeeps

\* Every step of the panel keeps all that.
LEMMA PanelStep == AInv /\ PanelActs => PanelKeeps
<1> SUFFICES ASSUME AInv, PanelActs PROVE PanelKeeps
  OBVIOUS
<1> USE DEF AInv, PanelTypes, Panel!Goto, Panel!AckedSecrets
<1>1. ASSUME NEW c \in Conn, Panel!Reject(c), pc[c] \in {"register", "lookup", "save"},
             UNCHANGED presented
      PROVE  PanelKeeps
  BY <1>1, HandlerMoves DEF Panel!Reject
<1>2. ASSUME NEW c \in Conn, Panel!Register(c) PROVE PanelKeeps
  BY <1>1, <1>2, SecretIsFresh DEF Panel!Register, Panel!NewSecret
<1>3. ASSUME NEW c \in Conn, Panel!LookupSecret(c) PROVE PanelKeeps
  <2>1. CASE Panel!Reject(c)
    BY <1>1, <1>3, <2>1 DEF Panel!LookupSecret
  <2>2. CASE ~Panel!Reject(c)
    BY <1>3, <2>2, HandlerMoves DEF Panel!LookupSecret
  <2> QED
    BY <2>1, <2>2
<1>4. ASSUME NEW c \in Conn, Panel!SaveRow(c) PROVE PanelKeeps
  <2>1. CASE Panel!Reject(c)
    BY <1>1, <1>4, <2>1 DEF Panel!SaveRow
  <2>2. CASE ~Panel!Reject(c) /\ nodeOf[c] \in Conn
    BY <1>4, <2>2, SecretIsFresh DEF Panel!SaveRow, Panel!NewSecret
  <2>3. CASE ~Panel!Reject(c) /\ nodeOf[c] \notin Conn
    BY <1>4, <2>3, HandlerMoves DEF Panel!SaveRow, Panel!NewSecret
  <2> QED
    BY <2>1, <2>2, <2>3
<1>5. ASSUME NEW c \in Conn, Panel!SendAck(c) \/ Panel!InstallStream(c) PROVE PanelKeeps
  BY <1>5, HandlerMoves DEF Panel!SendAck, Panel!InstallStream
<1>6. ASSUME NEW c \in Conn, Panel!ReceiveHeartbeat(c) \/ Panel!ReceiveReport(c) \/ Panel!UpdateSnapshot(c)
      PROVE  PanelKeeps
  BY <1>6, HandlerMoves DEF Panel!ReceiveHeartbeat, Panel!ReceiveReport, Panel!UpdateSnapshot
<1>7. ASSUME NEW c \in Conn, Panel!Leaving(c) PROVE PanelKeeps
  BY <1>7, HandlerMoves DEF Panel!Leaving, Panel!Unregister, Panel!MarkOffline, Panel!ForgetSnapshot
<1>8. ASSUME NEW c, Panel!Break(c) PROVE PanelKeeps
  BY <1>8, HandlerMoves DEF Panel!Break
<1>9. ASSUME NEW n \in Conn, Panel!Deleting(n) PROVE PanelKeeps
  BY <1>9, HandlerMoves DEF Panel!Deleting, Panel!FindStream, Panel!SendDisconnect, Panel!DeleteSnapshot,
     Panel!DeleteRow
<1>10. CASE Panel!Restart
  BY <1>10, HandlerMoves DEF Panel!Restart, Panel!StoppedAt
<1>11. CASE UNCHANGED panel
  BY <1>11, HandlerMoves
<1> QED
  BY <1>2, <1>3, <1>4, <1>5, <1>6, <1>7, <1>8, <1>9, <1>10, <1>11 DEF PanelActs, Panel!Answering

\* The agent's part of a step, unless it opens a stream.
AgentActsAlone ==
    \/ Agent!Start \/ AckArrives \/ Agent!OpenFile \/ Agent!WriteFile \/ Agent!Disconnected \/ Agent!Stop
    \/ UNCHANGED agent

\* Every step opens a stream, or has a part of the panel and a part of the agent.
LEMMA StepsHaveParts ==
  [Next]_vars => (\E c \in Conn : AgentConnects(c)) \/ (PanelActs /\ AgentActsAlone)
<1> SUFFICES ASSUME [Next]_vars, ~\E c \in Conn : AgentConnects(c) PROVE PanelActs /\ AgentActsAlone
  OBVIOUS
<1> USE DEF PanelActs, AgentActsAlone
<1>1. CASE AgentActs
  BY <1>1 DEF AgentActs, AgentStarts, AckArrives, AgentPersists, AgentSeesEnd, DisconnectArrives
<1>2. CASE AgentStops \/ PanelRestarts
  BY <1>2 DEF AgentStops, PanelRestarts
<1>3. ASSUME NEW c \in Conn, PanelHandles(c) \/ Heartbeat(c) \/ LinkBreaks(c)
      PROVE  PanelActs /\ AgentActsAlone
  BY <1>3 DEF PanelHandles, Heartbeat, LinkBreaks
<1>4. ASSUME NEW n \in Conn, PanelDeletes(n) PROVE PanelActs /\ AgentActsAlone
  BY <1>4 DEF PanelDeletes
<1>5. CASE UNCHANGED vars
  BY <1>5 DEF vars
<1> QED
  BY <1>1, <1>2, <1>3, <1>4, <1>5 DEF Next

\* The agent dials with a secret that was acked, and the handler looks that one up.
LEMMA Redial ==
  ASSUME AInv, NEW c \in Conn, AgentConnects(c)
  PROVE  AInv' /\ (LockedOut => LockedOut')
<1> USE DEF AInv, PanelTypes, AgentConnects, Agent!Connect, Panel!ReceiveHandshake, Panel!Goto,
            Agent!SecretToPresent
<1>1. Panel!AckedSecrets \subseteq Panel!AckedSecrets'
  BY DEF Panel!AckedSecrets
<1>2. presented' \in [Conn -> Conn \cup {NoConn}] /\ PanelTypes'
  BY DEF Panel!AckedSecrets
<1>3. SecretsAreAcked'
  BY <1>1 DEF SecretsAreAcked
<1>4. HandshakeIsCurrent'
  BY DEF HandshakeIsCurrent
<1>5. LockedOut => LockedOut'
  BY DEF LockedOut, Panel!RowsWithSecret
<1> QED
  BY <1>2, <1>3, <1>4, <1>5

\* In every other step the agent keeps its secrets, gets that of the handler that has
\* sent it an ack, or starts again with those it was left.
LEMMA Meanwhile ==
  ASSUME AInv, PanelKeeps, AgentActsAlone
  PROVE  AInv' /\ (LockedOut => LockedOut' \/ at' = "down")
<1> USE DEF AInv, PanelKeeps, Agent!SecretToPresent
<1>1. CASE Agent!Start
  BY <1>1 DEF Agent!Start, Agent!ConfiguredSecret, SecretsAreAcked, HandshakeIsCurrent, LockedOut
<1>2. CASE AckArrives
  <2>1. at = "handshake" /\ link \in Panel!AckedSecrets /\ pc[link] \notin {"lookup", "closed"}
    BY <1>2 DEF AckArrives, Agent!ReceiveAck, Panel!Registered, Panel!AckedSecrets, HandshakeIsCurrent
  <2> QED
    BY <1>2, <2>1 DEF AckArrives, Agent!ReceiveAck, Panel!NewSecret, SecretsAreAcked, HandshakeIsCurrent,
       LockedOut
<1>3. CASE Agent!OpenFile \/ Agent!WriteFile
  BY <1>3 DEF Agent!OpenFile, Agent!WriteFile, SecretsAreAcked, HandshakeIsCurrent, LockedOut
<1>4. CASE Agent!Stop
  BY <1>4 DEF Agent!Stop, SecretsAreAcked, HandshakeIsCurrent
<1>5. CASE Agent!Disconnected
  BY <1>5 DEF Agent!Disconnected, SecretsAreAcked, HandshakeIsCurrent, LockedOut
<1>6. CASE UNCHANGED agent
  BY <1>6 DEF SecretsAreAcked, HandshakeIsCurrent, LockedOut
<1> QED
  BY <1>1, <1>2, <1>3, <1>4, <1>5, <1>6 DEF AgentActsAlone

\* Whatever goes wrong, every secret the agent has is from an ack that was sent.
THEOREM AckedInductive == Spec => []AInv
<1>1. Init => AInv
  BY DEF Init, Panel!Init, Agent!Init, AInv, PanelTypes, SecretsAreAcked, HandshakeIsCurrent
<1>2. AInv /\ [Next]_vars => AInv'
  BY StepsHaveParts, PanelStep, Redial, Meanwhile
<1> QED
  BY <1>1, <1>2, PTL DEF Spec

\* An agent whose secret the panel has lost is never let in again before its process
\* ends, whatever interleaves and whatever faults there are.
THEOREM LockedOutStaysOut == Spec => LockOutIsForGood
<1>1. AInv /\ [Next]_vars => [LockedOut => LockedOut' \/ at' = "down"]_vars
  BY StepsHaveParts, PanelStep, Redial, Meanwhile
<1> QED
  BY <1>1, AckedInductive, PTL DEF Spec, LockOutIsForGood

=============================================================================
