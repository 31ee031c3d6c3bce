---------------------------- MODULE MCMetricsStore ----------------------------
\* Small instances of MetricsStore.
EXTENDS MetricsStore

CONSTANT ShortRetention     \* one of the retention times

\* Behaviours without a fault, and behaviours that may meet every one.
NoneOrAll == {{}, AllFaults}

AtWork == {f \in Feed : pc[f] # "pick" \/ todo[f] # {}}

\* Bound: the retention time is another than the short one, or being changed, only
\* while no feed and no deletion is at work; a clean-up runs beside one feed at most;
\* at most one sample is left that the throttle has forgotten.
FewAtOnce ==
    /\ \/ applying = {} /\ {setting, retention} = {ShortRetention}
       \/ AtWork = {} /\ \A n \in Node : del[n] = "none"
    /\ sweep # Never => Cardinality(AtWork) <= 1
    /\ Cardinality({s \in samples : ~s.fresh}) <= 1

===============================================================================
