---------------------------- MODULE NodeBroadcast ----------------------------
(***************************************************************************)
(* How a change of a node reaches an open dashboard: the OnChange callback *)
(* of the register, which lists the nodes and broadcasts the list          *)
(* (web/app.go), the hub with a read loop for every client and a goroutine *)
(* for every write (ws/hub.go), and the dashboard, which fetches the list  *)
(* when its WebSocket opens and polls it while it has none (dashboard.js). *)
(*                                                                         *)
(* There is one node and one dashboard: nodes travel in one list, and      *)
(* dashboards share nothing.  A list is the status it shows for the node.  *)
(* OnChange calls, writes and answers have no names of their own: a bag    *)
(* says how many there are with each list.                                 *)
(***************************************************************************)

EXTENDS Naturals, FiniteSets

CONSTANTS
    MaxLinks,   \* bound on the WebSockets the panel knows at a time
    MaxCalls,   \* bound on the OnChange calls at a time
    MaxWrites,  \* bound on the writes at a time to one client
    MaxFetches, \* bound on the fetches of the dashboard at a time
    MaxFaults   \* bound on the faults of a behaviour

ASSUME BoundsAssumption ==
    /\ MaxLinks \in Nat \ {0} /\ MaxCalls \in Nat \ {0} /\ MaxWrites \in Nat \ {0}
    /\ MaxFetches \in Nat \ {0} /\ MaxFaults \in Nat

Link == 1..MaxLinks
NoLink == 0
Status == {"online", "offline", "absent"}

VARIABLES
    row,        \* the status in the node's row, or "absent": no live row
    notified,   \* the number of OnChange calls that have not listed yet
    listed,     \* list -> the OnChange calls that have it and have still to broadcast it
    handler,    \* WebSocket -> where Hub.Accept is with it
    health,     \* WebSocket -> what its two ends know of it
    writes,     \* client -> list -> the goroutines that write it
    ws,         \* the dashboard's ws
    opened,     \* whether its onopen has run
    polling,    \* whether its fallbackTimer runs
    asked,      \* the number of its fetches the panel has not answered
    answers,    \* list -> the answers on their way to it
    shown,      \* the list it shows
    faults      \* how many faults there have been

hub == <<handler, health, writes>>
calls == <<notified, listed>>
dashboard == <<ws, opened, polling, asked, answers, shown>>
vars == <<row, calls, hub, dashboard, faults>>

\* Bags of lists.
Empty == [x \in Status |-> 0]
With(bag, x) == [bag EXCEPT ![x] = @ + 1]
Without(bag, x) == [bag EXCEPT ![x] = @ - 1]
Size(bag) == bag["online"] + bag["offline"] + bag["absent"]

\* A WebSocket is "up"; "dead" when what is written to it is no longer taken, which
\* neither end has been told; "cancelled" when the panel alone knows that it is over;
\* "closed" when both ends may know.
Health == {"up", "dead", "cancelled", "closed"}

TypeOK ==
    /\ row \in Status
    /\ notified \in 0..MaxCalls
    /\ listed \in [Status -> 0..MaxCalls]
    /\ handler \in [Link -> {"none", "upgraded", "registered"}]
    /\ health \in [Link -> Health]
    /\ writes \in [Link -> [Status -> 0..MaxWrites]]
    /\ ws \in Link \cup {NoLink}
    /\ opened \in BOOLEAN
    /\ polling \in BOOLEAN
    /\ asked \in 0..MaxFetches
    /\ answers \in [Status -> 0..MaxFetches]
    /\ shown \in Status
    /\ faults \in 0..MaxFaults

\* The panel runs and the page has just been loaded: it has begun the first fetch.
Init ==
    /\ row \in Status
    /\ notified = 0 /\ listed = Empty
    /\ handler = [l \in Link |-> "none"] /\ health = [l \in Link |-> "closed"]
    /\ writes = [l \in Link |-> Empty]
    /\ ws = NoLink /\ opened = FALSE /\ polling = FALSE
    /\ asked = 1 /\ answers = Empty
    /\ shown = "absent"
    /\ faults = 0

Fault == faults < MaxFaults /\ faults' = faults + 1

-----------------------------------------------------------------------------
(***************************************************************************)
(* The register: what changes the row, and OnChange.                       *)
(***************************************************************************)

\* The number of OnChange calls at work.
Calls == notified + Size(listed)

\* A handler or a request writes the row, if there is a live one, and calls OnChange.
ChangeTo(status) ==
    /\ Calls < MaxCalls
    /\ row' = status
    /\ notified' = notified + 1
    /\ UNCHANGED <<listed, hub, dashboard, faults>>

LiveRow(status) == IF row = "absent" THEN "absent" ELSE status

Report == ChangeTo(LiveRow("online"))       \* MarkOnline, then UpdateSnapshot
MarkOffline == ChangeTo(LiveRow("offline"))
Delete == ChangeTo("absent")

\* Register, Reconnect and the MarkOnline of a heartbeat do not call OnChange.
ChangeQuietly ==
    /\ row # "online"
    /\ row' = "online"
    /\ UNCHANGED <<calls, hub, dashboard, faults>>

\* OnChange lists the nodes.
ListNodes ==
    /\ notified > 0
    /\ notified' = notified - 1
    /\ listed' = With(listed, row)
    /\ UNCHANGED <<row, hub, dashboard, faults>>

\* The statement fails: OnChange logs it and returns.
ListFails ==
    /\ Fault
    /\ notified > 0
    /\ notified' = notified - 1
    /\ UNCHANGED <<row, listed, hub, dashboard>>

-----------------------------------------------------------------------------
(***************************************************************************)
(* The hub.                                                                *)
(***************************************************************************)

Clients == {l \in Link : handler[l] = "registered"}

\* A write to a client whose context is done, or that is closed, fails at once.
Writable == {l \in Link : health[l] \in {"up", "dead"}}

\* Fault model of the next definition: nothing is sent to a single client.
RecipientsOfMany == IF Cardinality(Clients) <= 1 THEN {} ELSE Clients \cap Writable

Recipients == Clients \cap Writable

\* Broadcast starts a goroutine for each client.  A client registered between the
\* count and the loop makes no difference: either it is in the loop or it is not.
Broadcast(x) ==
    /\ listed[x] > 0
    /\ \A l \in Recipients : Size(writes[l]) < MaxWrites
    /\ listed' = Without(listed, x)
    /\ writes' = [l \in Link |-> IF l \in Recipients THEN With(writes[l], x) ELSE writes[l]]
    /\ UNCHANGED <<row, notified, handler, health, dashboard, faults>>

\* One of the goroutines gets its message through, in whatever order.
Write(l, x) ==
    /\ writes[l][x] > 0
    /\ health[l] = "up"
    /\ writes' = [writes EXCEPT ![l] = Without(@, x)]
    /\ shown' = IF ws = l THEN x ELSE shown
    /\ UNCHANGED <<row, calls, handler, health, ws, opened, polling, asked, answers, faults>>

\* The panel learns that l is over, and all writes to it fail.
Over(l, how) ==
    /\ health' = [health EXCEPT ![l] = how]
    /\ writes' = [writes EXCEPT ![l] = Empty]

\* Fault model of the next definition: a failed write does not cancel its client.
FailAlone(l) == writes' = [writes EXCEPT ![l] = Empty] /\ UNCHANGED health

\* The first write to fail cancels the client, for the read loop to clean up.
FailAndCancel(l) == Over(l, "cancelled")

WriteTimesOut(l) ==
    /\ health[l] = "dead"
    /\ writes[l] # Empty
    /\ FailAndCancel(l)
    /\ UNCHANGED <<row, calls, handler, dashboard, faults>>

\* Accept enters the client into the map.
RegisterClient(l) ==
    /\ handler[l] = "upgraded"
    /\ handler' = [handler EXCEPT ![l] = "registered"]
    /\ UNCHANGED <<row, calls, health, writes, dashboard, faults>>

\* Read fails and the deferred function removes the client.
RemoveClient(l) ==
    /\ handler[l] = "registered"
    /\ health[l] \in {"cancelled", "closed"}
    /\ handler' = [handler EXCEPT ![l] = "none"]
    /\ health' = [health EXCEPT ![l] = IF ws = l THEN @ ELSE "closed"]
    /\ UNCHANGED <<row, calls, writes, dashboard, faults>>

\* The connection breaks, or a write to a slow client is given up.
Break(l) ==
    /\ Fault
    /\ handler[l] # "none" /\ health[l] = "up"
    /\ \/ Over(l, "closed")
       \/ health' = [health EXCEPT ![l] = "dead"] /\ UNCHANGED writes
    /\ UNCHANGED <<row, calls, handler, dashboard>>

\* The panel ends and starts again: NewApp marks every node offline.
Restart ==
    /\ Fault
    /\ row' = LiveRow("offline")
    /\ notified' = 0 /\ listed' = Empty
    /\ handler' = [l \in Link |-> "none"]
    /\ health' = [l \in Link |-> IF l = ws /\ health[l] # "up" THEN health[l] ELSE "closed"]
    /\ writes' = [l \in Link |-> Empty]
    /\ asked' = 0
    /\ UNCHANGED <<ws, opened, polling, answers, shown>>

-----------------------------------------------------------------------------
(***************************************************************************)
(* The dashboard.                                                          *)
(***************************************************************************)

Fetches == asked + Size(answers)

\* connectWS: a new WebSocket, which websocket.Accept has upgraded.
Connect ==
    /\ ws = NoLink
    /\ \E l \in Link :
        /\ handler[l] = "none" /\ \A k \in Link : handler[k] = "none" => l <= k
        /\ ws' = l
        /\ handler' = [handler EXCEPT ![l] = "upgraded"]
        /\ health' = [health EXCEPT ![l] = "up"]
    /\ opened' = FALSE
    /\ UNCHANGED <<row, calls, writes, polling, asked, answers, shown, faults>>

\* ws.onopen stops the polling and fetches the list.
OnOpen ==
    /\ ws # NoLink /\ ~opened /\ health[ws] = "up"
    /\ Fetches < MaxFetches
    /\ opened' = TRUE
    /\ polling' = FALSE
    /\ asked' = asked + 1
    /\ UNCHANGED <<row, calls, hub, ws, answers, shown, faults>>

\* ws.onclose.  Of a dead WebSocket the browser may find out or not.
OnClose ==
    /\ ws # NoLink /\ health[ws] # "up"
    /\ ws' = NoLink
    /\ opened' = FALSE
    /\ polling' = TRUE
    /\ health' = [health EXCEPT ![ws] = IF @ = "dead" THEN @ ELSE "closed"]
    /\ UNCHANGED <<row, calls, handler, writes, asked, answers, shown, faults>>

\* fallbackTimer fires.
Poll ==
    /\ polling
    /\ Fetches < MaxFetches
    /\ asked' = asked + 1
    /\ UNCHANGED <<row, calls, hub, ws, opened, polling, answers, shown, faults>>

\* Fault model of the next definition: the answer is what the page already shows.
AnswerFromCache ==
    /\ asked > 0
    /\ asked' = asked - 1
    /\ answers' = With(answers, shown)
    /\ UNCHANGED <<row, calls, hub, ws, opened, polling, shown, faults>>

\* apiListNodes answers.
AnswerFetch ==
    /\ asked > 0
    /\ asked' = asked - 1
    /\ answers' = With(answers, row)
    /\ UNCHANGED <<row, calls, hub, ws, opened, polling, shown, faults>>

\* A fetch fails: fetchNodes returns null, and what is shown stays.
FetchFails ==
    /\ Fault
    /\ asked > 0
    /\ asked' = asked - 1
    /\ UNCHANGED <<row, calls, hub, ws, opened, polling, answers, shown>>

\* updateNodeUI with the answer, which messages may have overtaken.
ShowAnswer(x) ==
    /\ answers[x] > 0
    /\ answers' = Without(answers, x)
    /\ shown' = x
    /\ UNCHANGED <<row, calls, hub, ws, opened, polling, asked, faults>>

-----------------------------------------------------------------------------

RegisterActs == Report \/ MarkOffline \/ Delete \/ ChangeQuietly \/ ListNodes \/ ListFails

HubActs == \/ \E x \in Status : Broadcast(x)
           \/ \E l \in Link : \/ WriteTimesOut(l) \/ RegisterClient(l) \/ RemoveClient(l) \/ Break(l)
                              \/ \E x \in Status : Write(l, x)

DashboardActs == \/ Connect \/ OnOpen \/ OnClose \/ Poll \/ AnswerFetch \/ FetchFails
                 \/ \E x \in Status : ShowAnswer(x)

Next == RegisterActs \/ HubActs \/ Restart \/ DashboardActs

Spec == Init /\ [][Next]_vars

\* A closed WebSocket is noticed by the browser.
NoticeClosed == OnClose /\ health[ws] = "closed"

\* Goroutines run, timers of the page fire, requests are answered.  Nothing makes nodes
\* report, connections break, or a browser find out that a WebSocket is dead.
Fairness ==
    /\ WF_vars(ListNodes) /\ WF_vars(AnswerFetch)
    /\ \A x \in Status : WF_vars(Broadcast(x)) /\ WF_vars(ShowAnswer(x))
    /\ \A l \in Link :
        /\ WF_vars(WriteTimesOut(l)) /\ WF_vars(RegisterClient(l)) /\ WF_vars(RemoveClient(l))
        /\ \A x \in Status : WF_vars(Write(l, x))
    /\ WF_vars(Connect) /\ WF_vars(OnOpen) /\ WF_vars(NoticeClosed) /\ WF_vars(Poll)

FairSpec == Spec /\ Fairness

-----------------------------------------------------------------------------

\* While the row stays as it is, lists that say something else are only used up: none
\* is read, none multiplies but from the one an OnChange call gives up, and the page
\* turns to one only by taking it off its way.
StaleIsUsedUp ==
    row' = row =>
        \A x \in Status \ {row} :
            /\ listed'[x] <= listed[x] /\ answers'[x] <= answers[x]
            /\ \A l \in Link : writes'[l][x] > writes[l][x] => listed'[x] < listed[x]
            /\ shown' = x /\ shown # x =>
                   \/ answers'[x] < answers[x]
                   \/ \E l \in Link : writes'[l][x] < writes[l][x]

StaleListsRunOut == [][StaleIsUsedUp]_vars

\* OnChange is called again and again, as it is while some node reports.
NodesReport == []<><<ListNodes>>_vars

RowIsStable == <>[][FALSE]_row

\* The dashboard takes a WebSocket to be open that is over.
Deaf == ws # NoLink /\ health[ws] \in {"dead", "cancelled"}

\* Lists, writes and answers overtake one another, yet once the nodes do not change any
\* more the dashboard ends with what they are, as long as some node reports.
StableStatusIsShown ==
    RowIsStable /\ NodesReport => <>[](Deaf \/ shown = row)

\* A client that is gone without a word leaves the hub, as long as there is something
\* to broadcast: the write that times out is what finds it.
GoneClientsLeave ==
    NodesReport => \A l \in Link : []<>~(handler[l] # "none" /\ health[l] # "up")

=============================================================================
