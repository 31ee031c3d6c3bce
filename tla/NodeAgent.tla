------------------------------ MODULE NodeAgent ------------------------------
(***************************************************************************)
(* The node agent's connection loop and the three places its reconnect     *)
(* secret lives in: memory (Agent.reconnectSecret), the secret file, and   *)
(* the environment variable RECONNECT_SECRET.  The panel's answers are     *)
(* parameters of the actions; NodeControl supplies them.                   *)
(***************************************************************************)

CONSTANTS
    Conn,       \* the Connect calls that may ever be made, and the secrets
    NoConn      \* no connection, empty secret, empty or missing file

\* What may go wrong.
AllFaults == {"link",   \* the transport breaks during a handshake
              "crash",  \* the process dies during a handshake
              "disk",   \* the secret file cannot be written
              "pin"}    \* an operator sets RECONNECT_SECRET at a restart

VARIABLES
    at,         \* where the agent is
    link,       \* the connection in use
    mem,        \* Agent.reconnectSecret
    cfg,        \* Agent.cfg.ReconnectSecret
    file,       \* the contents of SECRET_FILE
    env,        \* the value of RECONNECT_SECRET
    faults      \* which of AllFaults this behaviour may meet, chosen once

vars == <<at, link, mem, cfg, file, env, faults>>

\* "down": no process; "dial": before a Connect call or in the backoff after one;
\* "handshake": the Handshake is sent; "granted": the ack is stored in memory;
\* "truncated": the secret file is opened for writing; "serving": the three loops.
Places == {"down", "dial", "handshake", "granted", "truncated", "serving"}

TypeOK ==
    /\ at \in Places
    /\ link \in Conn \cup {NoConn}
    /\ {mem, cfg, file, env} \subseteq Conn \cup {NoConn}
    /\ faults \subseteq AllFaults

Init ==
    /\ at = "down"
    /\ link = NoConn
    /\ mem = NoConn /\ cfg = NoConn /\ file = NoConn /\ env = NoConn
    /\ faults \subseteq AllFaults

\* Fault model of the next definition: the file is not read.
SecretOfEnvironment == env'

\* New: the file is read only when the environment gives no secret.
ConfiguredSecret == IF env' = NoConn THEN file ELSE env'

\* The process starts; an operator may have copied the file to the environment.
Start ==
    /\ at = "down"
    /\ env' \in {env} \cup {x \in {file} : "pin" \in faults}
    /\ cfg' = ConfiguredSecret
    /\ at' = "dial"
    /\ UNCHANGED <<link, mem, file, faults>>

\* Fault model of the next definition: the configured secret comes first.
ConfiguredFirst == IF cfg = NoConn THEN mem ELSE cfg

\* The secret of the Handshake: what the panel last gave, else what was configured.
SecretToPresent == IF mem = NoConn THEN cfg ELSE mem

Connect(c) ==
    /\ at = "dial"
    /\ at' = "handshake"
    /\ link' = c
    /\ UNCHANGED <<mem, cfg, file, env, faults>>

\* Fault model of the next definition: only the first secret is kept.
KeepFirstSecret(s) ==
    /\ at = "handshake"
    /\ at' = "granted"
    /\ mem' = IF mem = NoConn THEN s ELSE mem
    /\ UNCHANGED <<link, cfg, file, env, faults>>

\* A HandshakeAck that is ok, with a new secret.
ReceiveAck(s) ==
    /\ at = "handshake"
    /\ at' = "granted"
    /\ mem' = s
    /\ UNCHANGED <<link, cfg, file, env, faults>>

\* persistSecret opens the file, which empties it; an error is only logged.
OpenFile ==
    /\ at = "granted"
    /\ \/ at' = "truncated" /\ file' = NoConn
       \/ "disk" \in faults /\ at' = "serving" /\ UNCHANGED file
    /\ UNCHANGED <<link, mem, cfg, env, faults>>

\* persistSecret writes the file; the loops start.
WriteFile ==
    /\ at = "truncated"
    /\ at' = "serving"
    /\ \/ file' = mem
       \/ "disk" \in faults /\ UNCHANGED file
    /\ UNCHANGED <<link, mem, cfg, env, faults>>

\* connectAndServe returns: a rejection, a failed Send or Recv, or a Disconnect.
Disconnected ==
    /\ at \in {"handshake", "serving"}
    /\ at' = "dial"
    /\ link' = NoConn
    /\ UNCHANGED <<mem, cfg, file, env, faults>>

\* The process ends; only the file and the environment survive it.
Stop ==
    /\ at \in {"dial", "serving"} \cup
              (IF "crash" \in faults THEN {"handshake", "granted", "truncated"} ELSE {})
    /\ at' = "down"
    /\ link' = NoConn
    /\ mem' = NoConn /\ cfg' = NoConn
    /\ UNCHANGED <<file, env, faults>>

=============================================================================
