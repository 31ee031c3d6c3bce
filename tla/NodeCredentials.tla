--------------------------- MODULE NodeCredentials ---------------------------
(***************************************************************************)
(* What the panel promises about reconnect secrets, whatever its handlers  *)
(* interleave: every successful handshake gives a node a secret that was   *)
(* never given before, and a secret once replaced stays useless.           *)
(***************************************************************************)

CONSTANTS
    Node,       \* the nodes that may ever be registered
    Secret,     \* the secrets that may ever be generated
    NoSecret    \* the secret of a node that was never registered

VARIABLES
    standing,   \* node -> "absent", "live" or "deleted"
    holds,      \* node -> the secret it must present next
    issued      \* the secrets given so far

vars == <<standing, holds, issued>>

Init ==
    /\ standing = [n \in Node |-> "absent"]
    /\ holds = [n \in Node |-> NoSecret]
    /\ issued = {}

\* A handshake of node n, from one of the given standings, succeeds with s.
Issue(n, s, from) ==
    /\ standing[n] \in from
    /\ s \notin issued
    /\ standing' = [standing EXCEPT ![n] = "live"]
    /\ holds' = [holds EXCEPT ![n] = s]
    /\ issued' = issued \cup {s}

Enroll(n, s) == Issue(n, s, {"absent"})
Rotate(n, s) == Issue(n, s, {"live"})
\* A reconnect that read the row before it was deleted brings it back.
Reinstate(n, s) == Issue(n, s, {"deleted"})

Revoke(n) ==
    /\ standing[n] = "live"
    /\ standing' = [standing EXCEPT ![n] = "deleted"]
    /\ UNCHANGED <<holds, issued>>

Next == \E n \in Node :
            \/ \E s \in Secret : Enroll(n, s) \/ Rotate(n, s) \/ Reinstate(n, s)
            \/ Revoke(n)

Spec == Init /\ [][Next]_vars

\* No two registered nodes hold the same secret.
SecretIdentifiesNode ==
    \A m, n \in Node :
        standing[m] # "absent" /\ standing[n] # "absent" /\ holds[m] = holds[n] => m = n

SpentStaysSpent == \A n \in Node, s \in issued : holds[n] # s => holds'[n] # s

\* A secret that a node does not hold any more is never accepted again.
SpentSecretStaysSpent == [][SpentStaysSpent]_vars

=============================================================================
