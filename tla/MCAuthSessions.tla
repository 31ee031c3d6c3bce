---------------------------- MODULE MCAuthSessions ----------------------------
\* Small instances of AuthSessions.
EXTENDS AuthSessions, FiniteSets, TLC

\* Behaviours without a fault, and behaviours that may meet every one.
NoneOrAll == {{}, AllFaults}

\* Symmetry of logins and of requests.
ActorSymmetry == Permutations(Token) \cup Permutations(Request)

AtWork == {r \in Request : pc[r] # "idle"}
LoggingIn == {t \in Token : login[t] \in {"verified", "drawn"}}

\* Lengths of sessions are not as short as can be, or are being changed.
LengthsVary ==
    \/ \E d \in Durations : d < setting \/ d < duration
    \/ \E r \in Request : want[r].duration # Keep

\* The account is not as it was seeded, or is being changed.
AccountVaries ==
    \/ user # Admin
    \/ \E r \in Request : want[r].name # Keep \/ want[r].password # Keep

\* Bound: logins and requests in progress are two at most, and lengths and account
\* do not vary at the same time.
FewAtOnce ==
    /\ Cardinality(AtWork) + Cardinality(LoggingIn) <= 2
    /\ ~(LengthsVary /\ AccountVaries)

===============================================================================
