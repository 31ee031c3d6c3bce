--------------------------- MODULE CertStoreProofs ---------------------------
(***************************************************************************)
(* Proofs about CertStore, for any number of key pairs, agents and         *)
(* interrupted starts, and for every choice of removals the module allows. *)
(*                                                                         *)
(* What no line of the code compares follows from the order in which the   *)
(* files are written: FilesFit says what the files on disk have in common  *)
(* at every moment, PlaceFits what the start has in memory at each place,  *)
(* PinsFit that a pin is that of the CA on disk, SettledFits that nothing  *)
(* is missing once the panel has been ready.                               *)
(***************************************************************************)
EXTENDS CertStore, TLAPS

USE NoKeyAssumption, RepairsAssumption, MaxInterruptsAssumption DEF File, NoFile

-----------------------------------------------------------------------------
\* The inductive invariant.

\* The CA on disk is in memory.
Loaded ==
    /\ on["ca.pem"] = "whole" /\ on["ca-key.pem"] = "whole"
    /\ caCert = key["ca.pem"] /\ caKey = key["ca-key.pem"]

\* A server certificate is that of the CA beside it, and so is the CA's key.
FilesFit ==
    /\ \A f \in File : on[f] = "whole" => key[f] \in Key
    /\ on["server.pem"] # "absent" => on["ca.pem"] = "whole"
    /\ on["server.pem"] = "whole" => signer = key["ca.pem"]
    /\ on["server.pem"] # "absent" /\ on["ca-key.pem"] = "whole"
           => key["ca-key.pem"] = key["ca.pem"]

WritingFits ==
    at \in {"open", "fill"} =>
        /\ target \in File /\ drawn \in Key
        /\ target \in {"ca.pem", "ca-key.pem"} => on["server.pem"] = "absent"
        /\ target = "ca.pem" => on["ca.pem"] # "whole"
        /\ target \in {"server.pem", "server-key.pem"} => Loaded /\ caKey = caCert
        /\ target = "server-key.pem" => on["server.pem"] = "whole"

PlaceFits ==
    /\ WritingFits
    /\ at \in {"server", "loadServer", "ready"} => Loaded
    /\ at \in {"loadServer", "ready"} => on["server.pem"] # "absent"
    /\ at = "ready" => PairFits /\ serverCert = Chain(caCert)

PinsFit ==
    \A a \in Agent : pin[a] # NoKey /\ a \notin stale
        => on["ca.pem"] = "whole" /\ pin[a] = key["ca.pem"]

SettledFits ==
    settled => /\ \A f \in File : on[f] = "whole"
               /\ PairFits
               /\ at \notin {"open", "fill"}

IInv == TypeOK /\ FilesFit /\ PlaceFits /\ PinsFit /\ SettledFits

USE DEF FilesFit, PlaceFits, WritingFits, PinsFit, SettledFits, Loaded, PairFits, files, agents, manager

-----------------------------------------------------------------------------
\* One lemma per step that touches files or memory.

\* The chain of a server certificate is well typed if both its keys are.
LEMMA ChainTyped ==
  ASSUME FilesFit, PairFits
  PROVE  Chain(key["ca.pem"]) \in Seq(Cert)
<1>1. LeafCert(key["server.pem"], signer) \in Cert
  BY DEF LeafCert, Cert
<1>2. CACert(key["ca.pem"]) \in Cert
  BY DEF CACert, Cert
<1> QED
  BY <1>1, <1>2 DEF Chain

LEMMA BeginStep == IInv /\ Begin => IInv'
  BY DEF IInv, TypeOK, Begin, Places, Chain

LEMMA LookForCAStep == IInv /\ LookForCA => IInv'
<1> SUFFICES ASSUME IInv, LookForCA PROVE IInv'
  OBVIOUS
<1> USE DEF IInv, TypeOK, LookForCA, Missing, Places
<1>1. CASE Missing("ca.pem") /\ Draw("ca.pem")
  BY <1>1 DEF Draw, Fresh
<1>2. CASE ~Missing("ca.pem")
  BY <1>2 DEF Draw
<1> QED
  BY <1>1, <1>2

LEMMA OpenFileStep == IInv /\ OpenFile => IInv'
<1> SUFFICES ASSUME IInv, OpenFile PROVE IInv'
  OBVIOUS
<1> USE DEF IInv, TypeOK, OpenFile, Places
<1>1. TypeOK'
  OBVIOUS
<1>2. FilesFit'
  OBVIOUS
<1>3. PlaceFits'
  OBVIOUS
<1>4. PinsFit' /\ SettledFits'
  OBVIOUS
<1> QED
  BY <1>1, <1>2, <1>3, <1>4

LEMMA FillFileStep == IInv /\ FillFile => IInv'
<1> SUFFICES ASSUME IInv, FillFile PROVE IInv'
  OBVIOUS
<1> USE DEF IInv, TypeOK, FillFile, Places, KeyFileOf, LoadOf
<1>1. TypeOK'
  OBVIOUS
<1>2. FilesFit'
  OBVIOUS
<1>3. PlaceFits'
  OBVIOUS
<1>4. PinsFit' /\ SettledFits'
  OBVIOUS
<1> QED
  BY <1>1, <1>2, <1>3, <1>4

\* The end of the process, with the files as they are.
LEMMA ExitStep ==
  ASSUME IInv, Exit, UNCHANGED <<files, agents>>, settled' = settled,
         interrupts' \in 0..MaxInterrupts
  PROVE  IInv'
  BY DEF IInv, TypeOK, Exit, Places

LEMMA LoadCAStep == IInv /\ LoadCA => IInv'
<1> SUFFICES ASSUME IInv, LoadCA PROVE IInv'
  OBVIOUS
<1>1. CASE on["ca.pem"] = "whole" /\ on["ca-key.pem"] = "whole"
  BY <1>1 DEF IInv, TypeOK, LoadCA, Places
<1>2. CASE Exit
  BY <1>2, ExitStep DEF LoadCA, IInv, TypeOK
<1> QED
  BY <1>1, <1>2 DEF LoadCA

LEMMA LookForServerStep == IInv /\ LookForServer => IInv'
<1> SUFFICES ASSUME IInv, LookForServer PROVE IInv'
  OBVIOUS
<1>1. CASE Missing("server.pem") /\ CanSign /\ Draw("server.pem") /\ UNCHANGED <<caCert, caKey, serverCert>>
  BY <1>1 DEF IInv, TypeOK, LookForServer, Places, Draw, Fresh, CanSign, Missing
<1>2. CASE Exit
  BY <1>2, ExitStep DEF LookForServer, IInv, TypeOK
<1>3. CASE ~Missing("server.pem") /\ at' = "loadServer" /\ UNCHANGED <<drawn, target, caCert, caKey, serverCert>>
  BY <1>3 DEF IInv, TypeOK, LookForServer, Places, Missing
<1> QED
  BY <1>1, <1>2, <1>3 DEF LookForServer

LEMMA LoadServerStep == IInv /\ LoadServer => IInv'
<1> SUFFICES ASSUME IInv, LoadServer PROVE IInv'
  OBVIOUS
<1>1. CASE PairFits /\ at' = "ready" /\ serverCert' = Chain(caCert)
  <2>1. Chain(caCert) \in Seq(Cert)
    BY <1>1, ChainTyped DEF IInv, LoadServer
  <2>2. Chain(caCert)' = Chain(caCert)
    BY <1>1 DEF LoadServer, Exit, Chain, LeafCert, CACert
  <2> QED
    BY <1>1, <2>1, <2>2 DEF IInv, TypeOK, LoadServer, Places, Exit
<1>2. CASE ~PairFits /\ Exit /\ UNCHANGED settled
  BY <1>2, ExitStep DEF LoadServer, IInv, TypeOK
<1> QED
  BY <1>1, <1>2 DEF LoadServer

LEMMA RemoveStep == ASSUME NEW S \in Repairs PROVE IInv /\ Remove(S) => IInv'
<1> SUFFICES ASSUME IInv, Remove(S) PROVE IInv'
  OBVIOUS
<1> USE DEF IInv, TypeOK, Remove, Places
<1>1. TypeOK'
  OBVIOUS
<1>2. FilesFit'
  OBVIOUS
<1>3. PlaceFits' /\ SettledFits'
  OBVIOUS
<1>4. PinsFit'
  OBVIOUS
<1> QED
  BY <1>1, <1>2, <1>3, <1>4

LEMMA PinStep == ASSUME NEW a \in Agent PROVE IInv /\ Pin(a) => IInv'
<1> SUFFICES ASSUME IInv, Pin(a) PROVE IInv'
  OBVIOUS
<1>1. Chain(caCert)' = Chain(caCert)
  BY DEF Pin, Chain, LeafCert, CACert
<1> QED
  BY <1>1 DEF IInv, TypeOK, Pin, Places

\* Nothing but the files and the memory of the current start matters.
THEOREM Inductive == Spec => []IInv
<1>1. Init => IInv
  <2> SUFFICES ASSUME Init PROVE IInv
    OBVIOUS
  <2>1. TypeOK
    <3>1. on \in [File -> {"absent", "partial", "whole"}] /\ key \in [File -> Key \cup {NoKey}]
      BY DEF Init
    <3>2. serverCert \in Seq(Cert)
      BY DEF Init
    <3>3. at \in Places /\ settled \in BOOLEAN
      BY DEF Init, Places
    <3> QED
      BY <3>1, <3>2, <3>3 DEF Init, TypeOK
  <2>2. FilesFit /\ PlaceFits /\ PinsFit /\ SettledFits
    BY DEF Init
  <2> QED
    BY <2>1, <2>2 DEF IInv
<1>2. IInv /\ [Next]_vars => IInv'
  <2> SUFFICES ASSUME IInv, [Next]_vars PROVE IInv'
    OBVIOUS
  <2>1. CASE Interrupt
    BY <2>1, ExitStep DEF Interrupt, IInv, TypeOK
  <2>2. CASE Stop
    BY <2>2, ExitStep DEF Stop, IInv, TypeOK
  <2>3. CASE UNCHANGED vars
    <3>1. Chain(caCert)' = Chain(caCert)
      BY <2>3 DEF vars, Chain, LeafCert, CACert
    <3> QED
      BY <2>3, <3>1 DEF IInv, TypeOK, vars, agents
  <2> QED
    BY <2>1, <2>2, <2>3, BeginStep, LookForCAStep, OpenFileStep, FillFileStep, LoadCAStep,
       LookForServerStep, LoadServerStep, RemoveStep, PinStep DEF Next, Starting
<1> QED
  BY <1>1, <1>2, PTL DEF Spec

-----------------------------------------------------------------------------

\* Every reachable state of the files, the start and the agents is well typed: in
\* particular every certificate served has a key and a signer.
THEOREM TypeCorrect == Spec => []TypeOK
  BY Inductive, PTL DEF IInv

\* The CA key in use is that of the CA certificate, and this CA signed what is served:
\* certs.NewManager compares neither.
THEOREM ChainsFit == Spec => []ServedChainFits
<1>1. IInv => ServedChainFits
  BY DEF IInv, ServedChainFits, Chain, LeafCert, CACert
<1> QED
  BY <1>1, Inductive, PTL

\* In a chain of a certificate and its CA, VerifyConnection picks the CA.
LEMMA CAOfChain ==
  ASSUME NEW k, NEW s, NEW c
  PROVE  CAOf(<<LeafCert(k, s), CACert(c)>>).key = c
<1> DEFINE chain == <<LeafCert(k, s), CACert(c)>>
<1>1. DOMAIN chain = {1, 2}
  OBVIOUS
<1>2. ~chain[1].isCA /\ chain[2].isCA /\ chain[2].key = c
  BY DEF LeafCert, CACert
<1>3. \A i \in DOMAIN chain :
        (chain[i].isCA /\ \A j \in DOMAIN chain : j < i => ~chain[j].isCA) <=> i = 2
  BY <1>1, <1>2
<1>4. (CHOOSE i \in DOMAIN chain :
         chain[i].isCA /\ \A j \in DOMAIN chain : j < i => ~chain[j].isCA) = 2
  BY <1>1, <1>3
<1> QED
  BY <1>1, <1>2, <1>4 DEF CAOf

\* An agent pinned to the fingerprint of the CA accepts the panel for as long as the
\* CA is not removed, through every restart, interruption and removal.
THEOREM PinnedAreAccepted == Spec => []PinnedAgentsAreAccepted
<1>1. IInv => PinnedAgentsAreAccepted
  <2> SUFFICES ASSUME IInv, NEW a \in Agent, at = "ready", pin[a] # NoKey, a \notin stale
               PROVE  Accepts(a)
    BY DEF PinnedAgentsAreAccepted
  <2>1. serverCert = <<LeafCert(key["server.pem"], signer), CACert(caCert)>>
    BY DEF IInv, Chain
  <2>2. CAOf(serverCert).key = caCert
    BY <2>1, CAOfChain
  <2>3. serverCert # <<>>
    BY <2>1
  <2> QED
    BY <2>2, <2>3 DEF Accepts, IInv
<1> QED
  BY <1>1, Inductive, PTL

\* After the panel has been ready once, its starts write nothing and fail only if they
\* are interrupted.
THEOREM SettledSucceed == Spec => SettledStartsSucceed
<1>1. IInv /\ IInv' /\ [Next]_vars => [settled => at' \notin {"open", "fill"} /\ StartGoesOn]_vars
  <2> SUFFICES ASSUME IInv, IInv', Next, settled PROVE at' \notin {"open", "fill"} /\ StartGoesOn
    BY DEF IInv
  <2>1. CASE Starting
    BY <2>1 DEF IInv, TypeOK, StartGoesOn, Starting, Begin, LookForCA, Missing, LoadCA,
                LookForServer, LoadServer, OpenFile, FillFile
  <2>2. CASE Interrupt
    BY <2>2 DEF StartGoesOn, Interrupt, Exit, IInv, TypeOK
  <2>3. CASE Stop
    BY <2>3 DEF StartGoesOn, Stop, Exit
  <2>4. ASSUME NEW S \in Repairs, Remove(S) PROVE at' \notin {"open", "fill"} /\ StartGoesOn
    BY <2>4 DEF StartGoesOn, Remove
  <2>5. ASSUME NEW a \in Agent, Pin(a) PROVE at' \notin {"open", "fill"} /\ StartGoesOn
    BY <2>5 DEF StartGoesOn, Pin
  <2> QED
    BY <2>1, <2>2, <2>3, <2>4, <2>5 DEF Next
<1> QED
  BY <1>1, Inductive, PTL DEF Spec, SettledStartsSucceed

-----------------------------------------------------------------------------
(***************************************************************************)
(* CertStore implements PanelIdentity.                                     *)
(***************************************************************************)

\* Two facts more: what is being written is new to every agent, and trust that has
\* lapsed was given once.
NewsFits ==
    /\ at \in {"open", "fill"} => \A a \in Agent : pin[a] # drawn
    /\ \A a \in stale : pin[a] # NoKey

\* Every step keeps both.
LEMMA NewsStep == IInv /\ NewsFits /\ [Next]_vars => NewsFits'
<1> SUFFICES ASSUME IInv, NewsFits, [Next]_vars PROVE NewsFits'
  OBVIOUS
<1> USE DEF IInv, TypeOK, NewsFits
<1>1. CASE Begin \/ OpenFile \/ FillFile
  BY <1>1 DEF Begin, OpenFile, FillFile, KeyFileOf, LoadOf
<1>2. CASE LookForCA \/ LookForServer
  BY <1>2 DEF LookForCA, LookForServer, Draw, Fresh, Exit
<1>3. CASE LoadCA \/ LoadServer \/ Interrupt \/ Stop
  BY <1>3 DEF LoadCA, LoadServer, Interrupt, Stop, Exit
<1>4. ASSUME NEW S \in Repairs, Remove(S) PROVE NewsFits'
  BY <1>4 DEF Remove
<1>5. ASSUME NEW a \in Agent, Pin(a) PROVE NewsFits'
  BY <1>5 DEF Pin
<1>6. CASE UNCHANGED vars
  BY <1>6 DEF vars
<1> QED
  BY <1>1, <1>2, <1>3, <1>4, <1>5, <1>6 DEF Next, Starting

\* The abstract state of a step that leaves the CA's certificate alone.
CASame == on'["ca.pem"] = on["ca.pem"] /\ key'["ca.pem"] = key["ca.pem"]

\* Each step is one of PanelIdentity or a stutter.
LEMMA IdentityStep == IInv /\ NewsFits /\ [Next]_vars => [Identity!Next]_(Identity!vars)
<1> SUFFICES ASSUME IInv, NewsFits, [Next]_vars PROVE [Identity!Next]_(Identity!vars)
  OBVIOUS
<1> USE DEF Identity!vars
<1>1. ASSUME CASame, UNCHANGED agents, (at = "ready") = (at' = "ready")
      PROVE  UNCHANGED Identity!vars
  BY <1>1 DEF CASame
<1>2. CASE Begin \/ LookForCA \/ LoadCA \/ LookForServer \/ Interrupt
  BY <1>1, <1>2 DEF CASame, Begin, LookForCA, LoadCA, LookForServer, Interrupt, Draw, Exit
<1>3. CASE OpenFile
  BY <1>3 DEF OpenFile, IInv, TypeOK
<1>4. CASE FillFile
  <2>1. CASE target = "ca.pem"
    <3>1. Identity!Draw(drawn) /\ drawn \in Key
      BY <1>4, <2>1 DEF FillFile, IInv, TypeOK, NewsFits, Identity!Draw
    <3> QED
      BY <3>1 DEF Identity!Next
  <2>2. CASE target # "ca.pem"
    BY <1>1, <1>4, <2>2 DEF CASame, FillFile, LoadOf, IInv, TypeOK
  <2> QED
    BY <2>1, <2>2
<1>5. CASE LoadServer
  <2>1. CASE PairFits
    <3>1. Identity!Serve
      BY <1>5, <2>1 DEF LoadServer, IInv, Identity!Serve
    <3> QED
      BY <3>1 DEF Identity!Next
  <2>2. CASE ~PairFits
    BY <1>1, <1>5, <2>2 DEF CASame, LoadServer, Exit
  <2> QED
    BY <2>1, <2>2
<1>6. CASE Stop
  <2>1. Identity!Stop
    BY <1>6 DEF Stop, Exit, Identity!Stop
  <2> QED
    BY <2>1 DEF Identity!Next
<1>7. ASSUME NEW S \in Repairs, Remove(S) PROVE [Identity!Next]_(Identity!vars)
  <2>1. CASE "ca.pem" \notin S
    BY <1>1, <1>7, <2>1 DEF CASame, Remove, IInv, TypeOK
  <2>2. CASE "ca.pem" \in S /\ on["ca.pem"] = "whole"
    <3>1. Identity!TakeAway
      BY <1>7, <2>2 DEF Remove, IInv, TypeOK, Identity!TakeAway
    <3> QED
      BY <3>1 DEF Identity!Next
  <2>3. CASE "ca.pem" \in S /\ on["ca.pem"] # "whole"
    <3>1. stale' = stale
      BY <1>7, <2>3 DEF Remove, IInv, TypeOK, NewsFits
    <3> QED
      BY <1>7, <2>3, <3>1 DEF Remove, IInv, TypeOK
  <2> QED
    BY <2>1, <2>2, <2>3
<1>8. ASSUME NEW a \in Agent, Pin(a) PROVE Identity!Next
  <2>1. Identity!Trust(a)
    BY <1>8 DEF Pin, IInv, Identity!Trust
  <2> QED
    BY <2>1 DEF Identity!Next
<1>9. CASE UNCHANGED vars
  BY <1>1, <1>9 DEF CASame, vars
<1> QED
  BY <1>2, <1>3, <1>4, <1>5, <1>6, <1>7, <1>8, <1>9 DEF Next, Starting

\* The four files, written one after the other by starts that may end anywhere, are
\* one identity.
THEOREM IdentityImplemented == Spec => IdentitySpec
<1>1. Init => NewsFits /\ Identity!Init
  BY DEF Init, NewsFits, Identity!Init
<1>2. Spec => []NewsFits
  BY <1>1, NewsStep, Inductive, PTL DEF Spec
<1> QED
  BY <1>1, <1>2, IdentityStep, Inductive, PTL DEF Spec, IdentitySpec, Identity!Spec

=============================================================================
