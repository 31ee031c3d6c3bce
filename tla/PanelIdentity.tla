---------------------------- MODULE PanelIdentity ----------------------------
(***************************************************************************)
(* What the certificates promise the agents: the panel has one identity,   *)
(* drawn when it has none and lost only when an operator takes it away     *)
(* from a panel that is down; a panel serves only with an identity, and    *)
(* trust is given only to the one it serves with.                          *)
(***************************************************************************)

CONSTANTS Key, NoKey, Agent

VARIABLES
    identity,   \* the key pair the panel is known by, or NoKey
    serving,    \* whether the panel serves
    trust,      \* agent -> the identity it trusts, or NoKey
    lapsed      \* the agents whose trust is in an identity that was taken away

vars == <<identity, serving, trust, lapsed>>

Init ==
    /\ identity = NoKey
    /\ serving = FALSE
    /\ trust = [a \in Agent |-> NoKey]
    /\ lapsed = {}

\* An identity nobody has been told of before.
Draw(k) ==
    /\ ~serving /\ identity = NoKey
    /\ \A a \in Agent : trust[a] # k
    /\ identity' = k
    /\ UNCHANGED <<serving, trust, lapsed>>

Serve ==
    /\ ~serving /\ identity # NoKey
    /\ serving' = TRUE
    /\ UNCHANGED <<identity, trust, lapsed>>

Stop ==
    /\ serving
    /\ serving' = FALSE
    /\ UNCHANGED <<identity, trust, lapsed>>

\* An agent is set up with the identity the panel serves with.
Trust(a) ==
    /\ serving
    /\ trust' = [trust EXCEPT ![a] = identity]
    /\ lapsed' = lapsed \ {a}
    /\ UNCHANGED <<identity, serving>>

\* The operator takes the identity away, and the trust of every agent lapses.
TakeAway ==
    /\ ~serving /\ identity # NoKey
    /\ identity' = NoKey
    /\ lapsed' = {a \in Agent : trust[a] # NoKey}
    /\ UNCHANGED <<serving, trust>>

Next == \/ Serve \/ Stop \/ TakeAway
        \/ \E k \in Key : Draw(k)
        \/ \E a \in Agent : Trust(a)

Spec == Init /\ [][Next]_vars

=============================================================================
