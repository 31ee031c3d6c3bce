----------------------------- MODULE MCCertStore -----------------------------
\* Small instances of CertStore.
EXTENDS CertStore, TLC

\* Nothing tells key pairs or agents apart.
CertSymmetry == Permutations(Key) \cup Permutations(Agent)

\* Every removal the module allows.
AnyRepair == {S \in SUBSET File : "ca.pem" \in S => "server.pem" \in S}

=============================================================================
