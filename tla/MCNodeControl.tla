---------------------------- MODULE MCNodeControl ----------------------------
\* Small instances of NodeControl.
EXTENDS NodeControl

CONSTANTS c1, c2, c3

\* Behaviours without a fault, and behaviours that may meet every one.
QuietOrFaulty == {{}, Agent!AllFaults}

\* The transport may break during a handshake.
LinkFault == {{"link"}}

\* Bound: behaviours with faults use two connections, those without use three.
SpareIsForQuiet == Quiet \/ pc[c3] = "idle"

\* Bound: connections are used in order.  They differ only in that the node of c1 may
\* be deleted: it is then the first that registers.
InOrder == /\ pc[c2] # "idle" => pc[c1] # "idle"
           /\ pc[c3] # "idle" => pc[c2] # "idle"

=============================================================================
