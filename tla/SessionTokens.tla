---------------------------- MODULE SessionTokens ----------------------------
(***************************************************************************)
(* What the panel promises about session tokens: each is issued once, and  *)
(* one that no longer opens the panel never does again.                    *)
(***************************************************************************)
CONSTANT Token

VARIABLES
    good,       \* the tokens that open the panel
    used        \* the tokens that have been issued

vars == <<good, used>>

Init == good = {} /\ used = {}

\* A token is issued; its time may be over before anybody has it.
Issue(t) ==
    /\ t \notin used
    /\ used' = used \cup {t}
    /\ good' \in {good, good \cup {t}}

\* Tokens are spent: by logout, by time, by a change of the password.
Spend ==
    /\ good' \subseteq good
    /\ UNCHANGED used

Next == Spend \/ \E t \in Token : Issue(t)

Spec == Init /\ [][Next]_vars

===============================================================================
