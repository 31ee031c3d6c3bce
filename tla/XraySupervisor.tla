---------------------------- MODULE XraySupervisor ----------------------------
(***************************************************************************)
(* What the Xray manager promises the agent: one Xray at a time, each with *)
(* the config last written when it starts, and none kept running with an   *)
(* older one once the pushes that are under way have replaced it.          *)
(***************************************************************************)
EXTENDS Naturals

CONSTANTS Proc, Stream

VARIABLES
    written,    \* the number of configs written; the last one is what is to run
    serving,    \* the process that runs, with its config: none or one
    replacing   \* the streams that have written a config and not yet replaced what runs

vars == <<written, serving, replacing>>

Init == written = 0 /\ serving = {} /\ replacing = {}

\* A stream writes a new config.
Write(s) ==
    /\ s \notin replacing
    /\ written' = written + 1
    /\ replacing' = replacing \cup {s}
    /\ UNCHANGED serving

\* It ends whatever runs.
Replace(s) ==
    /\ s \in replacing
    /\ replacing' = replacing \ {s}
    /\ serving' = {}
    /\ UNCHANGED written

\* The process ends, by itself or with the stream or the agent it was started for.
End ==
    /\ serving # {}
    /\ serving' = {}
    /\ UNCHANGED <<written, replacing>>

\* A process is started when none runs.
Run(p) ==
    /\ serving = {}
    /\ serving' = {[proc |-> p, config |-> written]}
    /\ UNCHANGED <<written, replacing>>

Next == \/ End
        \/ \E s \in Stream : Write(s) \/ Replace(s)
        \/ \E p \in Proc : Run(p)

Spec == Init /\ [][Next]_vars

\* What runs is up to date unless somebody is about to replace it.
UpToDate == replacing = {} => \A r \in serving : r.config = written

=============================================================================
