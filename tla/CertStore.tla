------------------------------ MODULE CertStore ------------------------------
(***************************************************************************)
(* The panel's certificates: four PEM files that the first start writes    *)
(* one after the other and every start loads (certs.NewManager), and the   *)
(* agents that trust the panel by the fingerprint of its CA.               *)
(*                                                                         *)
(* A key pair is drawn once and names every file made from it: the         *)
(* certificate, whose DER the fingerprint is the hash of, and the private  *)
(* key.  A panel whose start fails exits and is started again              *)
(* (docker-compose.yml).                                                   *)
(***************************************************************************)

EXTENDS Naturals, Sequences

CONSTANTS
    Key,            \* the key pairs that may ever be drawn
    NoKey,          \* no key pair; the empty CA_FINGERPRINT
    Agent,          \* the node agents
    Repairs,        \* the sets of files an operator may remove at once
    MaxInterrupts   \* bound on the number of starts that are interrupted

ASSUME NoKeyAssumption == NoKey \notin Key

File == {"ca.pem", "ca-key.pem", "server.pem", "server-key.pem"}
NoFile == "none"

\* Removing the CA means removing the certificate it signed: with the new CA the panel
\* would go on serving the certificate that the old one signed.
ASSUME RepairsAssumption ==
    /\ Repairs \subseteq SUBSET File
    /\ \A S \in Repairs : "ca.pem" \in S => "server.pem" \in S
ASSUME MaxInterruptsAssumption == MaxInterrupts \in Nat

VARIABLES
    on,         \* file -> "absent", "partial" (created, not written) or "whole"
    key,        \* file -> the key pair it is about, if whole
    signer,     \* the CA key pair that signed server.pem, if whole
    at,         \* where NewManager is, "ready" once it has returned, or "down"
    target,     \* the file it is writing
    drawn,      \* the key pair it has drawn
    caCert, caKey,      \* Manager.caCert, Manager.caKey
    serverCert,         \* Manager.serverCert.Certificate: the chain it serves
    pin,        \* agent -> its CA_FINGERPRINT
    stale,      \* history: the agents whose pin is of a CA that was removed
    settled,    \* history: the panel has been ready since files were last removed
    interrupts  \* how many starts have been interrupted

files == <<on, key, signer>>
manager == <<at, target, drawn, caCert, caKey, serverCert>>
agents == <<pin, stale>>
vars == <<files, manager, agents, settled, interrupts>>

\* A certificate of the chain, as the agent sees it.
Cert == [key: Key, signer: Key, isCA: BOOLEAN]
CACert(k) == [key |-> k, signer |-> k, isCA |-> TRUE]

LeafCert(k, ca) == [key |-> k, signer |-> ca, isCA |-> FALSE]

Places == {"down", "ca", "open", "fill", "loadCA", "server", "loadServer", "ready"}

TypeOK ==
    /\ on \in [File -> {"absent", "partial", "whole"}]
    /\ key \in [File -> Key \cup {NoKey}]
    /\ signer \in Key \cup {NoKey}
    /\ at \in Places
    /\ target \in File \cup {NoFile}
    /\ drawn \in Key \cup {NoKey}
    /\ caCert \in Key \cup {NoKey}
    /\ caKey \in Key \cup {NoKey}
    /\ serverCert \in Seq(Cert)
    /\ pin \in [Agent -> Key \cup {NoKey}]
    /\ stale \subseteq Agent
    /\ settled \in BOOLEAN
    /\ interrupts \in 0..MaxInterrupts

Init ==
    /\ on = [f \in File |-> "absent"]
    /\ key = [f \in File |-> NoKey]
    /\ signer = NoKey
    /\ at = "down" /\ target = NoFile /\ drawn = NoKey
    /\ caCert = NoKey /\ caKey = NoKey /\ serverCert = <<>>
    /\ pin = [a \in Agent |-> NoKey]
    /\ stale = {}
    /\ settled = FALSE
    /\ interrupts = 0

-----------------------------------------------------------------------------
(***************************************************************************)
(* NewManager.                                                             *)
(***************************************************************************)

\* A start begins: the directory is there after MkdirAll.
Begin ==
    /\ at = "down"
    /\ at' = "ca"
    /\ UNCHANGED <<files, target, drawn, caCert, caKey, serverCert, agents, settled, interrupts>>

\* The key pairs that nobody holds any trace of.
Fresh == Key \ ({key[f] : f \in File} \cup {pin[a] : a \in Agent} \cup {signer, caCert, caKey})

\* GenerateKey, and the first of the two files to write.
Draw(f) ==
    /\ drawn' \in Fresh
    /\ at' = "open"
    /\ target' = f

\* Fault models of the next definition: the CA is made anew unless both files exist,
\* or all is made anew at every start.
EitherMissing(f) == on[f] = "absent" \/ (f = "ca.pem" /\ on["ca-key.pem"] = "absent")

AtEveryStart(f) == TRUE

\* Not fileExists(f): the name alone counts, whatever the file contains.
Missing(f) == on[f] = "absent"

LookForCA ==
    /\ at = "ca"
    /\ \/ Missing("ca.pem") /\ Draw("ca.pem")
       \/ /\ ~Missing("ca.pem")
          /\ at' = "loadCA"
          /\ UNCHANGED <<drawn, target>>
    /\ UNCHANGED <<files, caCert, caKey, serverCert, agents, settled, interrupts>>

\* writePEM opens with O_CREATE and O_TRUNC.
OpenFile ==
    /\ at = "open"
    /\ at' = "fill"
    /\ on' = [on EXCEPT ![target] = "partial"]
    /\ key' = [key EXCEPT ![target] = NoKey]
    /\ signer' = IF target = "server.pem" THEN NoKey ELSE signer
    /\ UNCHANGED <<target, drawn, caCert, caKey, serverCert, agents, settled, interrupts>>

\* What is written after file f, and what is done after a key.
KeyFileOf(f) == IF f = "ca.pem" THEN "ca-key.pem" ELSE "server-key.pem"
LoadOf(f) == IF f = "ca-key.pem" THEN "loadCA" ELSE "loadServer"

\* writePEM encodes the block.
FillFile ==
    /\ at = "fill"
    /\ on' = [on EXCEPT ![target] = "whole"]
    /\ key' = [key EXCEPT ![target] = drawn]
    /\ signer' = IF target = "server.pem" THEN caKey ELSE signer
    /\ IF target \in {"ca.pem", "server.pem"}
       THEN at' = "open" /\ target' = KeyFileOf(target) /\ UNCHANGED drawn
       ELSE at' = LoadOf(target) /\ target' = NoFile /\ drawn' = NoKey
    /\ UNCHANGED <<caCert, caKey, serverCert, agents, settled, interrupts>>

\* NewManager returns an error or the process ends: its memory is gone.
Exit ==
    /\ at' = "down" /\ target' = NoFile /\ drawn' = NoKey
    /\ caCert' = NoKey /\ caKey' = NoKey /\ serverCert' = <<>>

\* loadCA: both files must parse; that they fit each other is not looked at.
LoadCA ==
    /\ at = "loadCA"
    /\ \/ /\ on["ca.pem"] = "whole" /\ on["ca-key.pem"] = "whole"
          /\ caCert' = key["ca.pem"] /\ caKey' = key["ca-key.pem"]
          /\ at' = "server"
          /\ UNCHANGED <<target, drawn, serverCert>>
       \/ /\ on["ca.pem"] # "whole" \/ on["ca-key.pem"] # "whole"
          /\ Exit
    /\ UNCHANGED <<files, agents, settled, interrupts>>

\* x509.CreateCertificate refuses a signing key that is not the one of the parent.
CanSign == caKey = caCert

LookForServer ==
    /\ at = "server"
    /\ \/ /\ Missing("server.pem") /\ CanSign
          /\ Draw("server.pem")
          /\ UNCHANGED <<caCert, caKey, serverCert>>
       \/ Missing("server.pem") /\ ~CanSign /\ Exit
       \/ /\ ~Missing("server.pem")
          /\ at' = "loadServer"
          /\ UNCHANGED <<drawn, target, caCert, caKey, serverCert>>
    /\ UNCHANGED <<files, agents, settled, interrupts>>

\* The certificate of the server with the CA appended, so that agents see both.
Chain(ca) == <<LeafCert(key["server.pem"], signer), CACert(ca)>>

\* tls.LoadX509KeyPair: both files must parse and fit each other.
PairFits ==
    /\ on["server.pem"] = "whole" /\ on["server-key.pem"] = "whole"
    /\ key["server.pem"] = key["server-key.pem"]

LoadServer ==
    /\ at = "loadServer"
    /\ \/ /\ PairFits
          /\ serverCert' = Chain(caCert)
          /\ at' = "ready"
          /\ settled' = TRUE
          /\ UNCHANGED <<target, drawn, caCert, caKey>>
       \/ ~PairFits /\ Exit /\ UNCHANGED settled
    /\ UNCHANGED <<files, agents, interrupts>>

\* The process ends during a start, or a call on the directory or a file fails: what
\* has been written stays.
Interrupt ==
    /\ at \notin {"down", "ready"}
    /\ interrupts < MaxInterrupts
    /\ interrupts' = interrupts + 1
    /\ Exit
    /\ UNCHANGED <<files, agents, settled>>

\* The panel ends after it was ready.
Stop ==
    /\ at = "ready"
    /\ Exit
    /\ UNCHANGED <<files, agents, settled, interrupts>>

-----------------------------------------------------------------------------
(***************************************************************************)
(* Operators and agents.                                                   *)
(***************************************************************************)

\* An operator removes files of a panel that is down.
Remove(S) ==
    /\ at = "down"
    /\ S \in Repairs
    /\ on' = [f \in File |-> IF f \in S THEN "absent" ELSE on[f]]
    /\ key' = [f \in File |-> IF f \in S THEN NoKey ELSE key[f]]
    /\ signer' = IF "server.pem" \in S THEN NoKey ELSE signer
    /\ stale' = IF "ca.pem" \in S THEN {a \in Agent : pin[a] # NoKey} ELSE stale
    /\ settled' = FALSE
    /\ UNCHANGED <<manager, pin, interrupts>>

\* An operator starts the agent with the fingerprint that the panel shows.
Pin(a) ==
    /\ at = "ready"
    /\ pin' = [pin EXCEPT ![a] = caCert]
    /\ stale' = stale \ {a}
    /\ UNCHANGED <<files, manager, settled, interrupts>>

\* Fault model of the next definition: the first certificate is hashed.
FirstOf(chain) == chain[1]

\* VerifyConnection of the agent: the first CA of the chain, or else its last
\* certificate, is the one whose hash is compared.
CAOf(chain) ==
    IF \E i \in DOMAIN chain : chain[i].isCA
    THEN chain[CHOOSE i \in DOMAIN chain :
                   chain[i].isCA /\ \A j \in DOMAIN chain : j < i => ~chain[j].isCA]
    ELSE chain[Len(chain)]

Accepts(a) == serverCert # <<>> /\ CAOf(serverCert).key = pin[a]

-----------------------------------------------------------------------------

Starting == Begin \/ LookForCA \/ OpenFile \/ FillFile \/ LoadCA \/ LookForServer \/ LoadServer

Next == \/ Starting \/ Interrupt \/ Stop
        \/ \E S \in Repairs : Remove(S)
        \/ \E a \in Agent : Pin(a)

Spec == Init /\ [][Next]_vars

-----------------------------------------------------------------------------

\* The panel keeps its identity: an agent pinned to the fingerprint it showed once
\* accepts the chain it serves now, whatever starts were interrupted in between and
\* whatever files were removed, unless the CA itself was.
PinnedAgentsAreAccepted ==
    \A a \in Agent :
        at = "ready" /\ pin[a] # NoKey /\ a \notin stale => Accepts(a)

\* What is served fits together, though no line of the code compares it: the CA key
\* is the one of the CA certificate, and that CA signed the certificate of the server.
ServedChainFits ==
    at = "ready" =>
        /\ caKey = caCert
        /\ serverCert[1].signer = serverCert[2].key

\* The files as PanelIdentity sees them: the panel is known by the CA certificate that
\* is written completely, from the moment it is, whatever else is still missing.
Identity == INSTANCE PanelIdentity WITH
    identity <- IF on["ca.pem"] = "whole" THEN key["ca.pem"] ELSE NoKey,
    serving <- at = "ready",
    trust <- pin,
    lapsed <- stale

\* However starts are interrupted and repeated, the panel never changes its identity
\* by itself, never serves without one, and a new one is known to nobody before.
IdentitySpec == Identity!Spec

StartGoesOn ==
    (at \in {"loadCA", "server", "loadServer"} /\ at' = "down") => interrupts' > interrupts

\* Once the panel has been ready it only loads its files: a later start never writes
\* one, and never fails unless it is interrupted itself.
SettledStartsSucceed ==
    [][settled => at' \notin {"open", "fill"} /\ StartGoesOn]_vars

-----------------------------------------------------------------------------
\* What a comment of the code says and the code does not do.

\* "On first start the panel generates ... On subsequent starts it loads existing
\* certs": a start that is not interrupted itself ends with certificates.
StartsGenerateOrLoad == [][StartGoesOn]_vars

=============================================================================
