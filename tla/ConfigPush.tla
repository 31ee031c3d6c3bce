------------------------------ MODULE ConfigPush ------------------------------
(***************************************************************************)
(* The inbounds of the panel and the push of Xray configs to the nodes.    *)
(* HTTP requests change rows of table `inbounds', each statement on its    *)
(* own; the callback OnChange then builds the config of every online node  *)
(* and sends it, still inside the request.  Requests interleave.           *)
(*                                                                         *)
(* A config is known by the inbounds it deploys.  The nodes' status rows   *)
(* and streams change as NodeRegistry lets them.                           *)
(***************************************************************************)

CONSTANTS
    Node,           \* the registered nodes
    Inbound,        \* the ids of inbound rows
    Tag,            \* tags of inbounds
    Target,         \* the values of node_ids in use: sets of nodes
    Request,        \* the HTTP requests in progress at one time
    None,           \* no inbound, no columns, no node
    DbMayFail       \* whether an access to the database may return an error

Columns == [enable : BOOLEAN, tag : Tag, on : Target]
Config == SUBSET [id : Inbound, tag : Tag]

ASSUME NoneAssumption == None \notin Inbound /\ None \notin Columns /\ None \notin Node
ASSUME TargetAssumption == Target \subseteq SUBSET Node
ASSUME DbMayFailAssumption == DbMayFail \in BOOLEAN

VARIABLES
    state,      \* inbound -> "absent", "live" or "deleted" (deleted_at set)
    row,        \* inbound -> its columns
    pc,         \* request -> where it is
    target,     \* request -> the id it is about to write
    held,       \* request -> the columns it is about to write
    todo,       \* request -> the nodes its push loop has still to visit
    dest,       \* request -> the node it has built a config for
    built,      \* request -> that config
    online,     \* the nodes whose row says "online"
    stream,     \* node -> the transport of its entry in GRPCServer.streams
    got,        \* node -> the config of the last ConfigPush that reached it
    reach,      \* history: node -> how the last change of the table reached it
    patient     \* whether operators wait for an answer before the next request

table == <<state, row>>
work == <<pc, target, held, todo, dest, built>>
nodes == <<online, stream, got>>
vars == <<table, work, nodes, reach, patient>>

TypeOK ==
    /\ state \in [Inbound -> {"absent", "live", "deleted"}]
    /\ row \in [Inbound -> Columns \cup {None}]
    /\ pc \in [Request -> {"idle", "check", "write", "list", "push", "send"}]
    /\ target \in [Request -> Inbound \cup {None}]
    /\ held \in [Request -> Columns \cup {None}]
    /\ todo \in [Request -> SUBSET Node]
    /\ dest \in [Request -> Node \cup {None}]
    /\ built \in [Request -> Config]
    /\ online \subseteq Node
    /\ stream \in [Node -> {"none", "up", "broken"}]
    /\ got \in [Node -> Config]
    /\ reach \in [Node -> {"none", "owed", "sent"}]
    /\ patient \in BOOLEAN

\* Fault model of the next definition: the column has no unique index.
NoIndex(tag, i) == FALSE

\* The unique index on the column tag: soft-deleted rows are in it too.
TagTaken(tag, i) == \E j \in Inbound \ {i} : row[j] # None /\ row[j].tag = tag

\* No two inbounds, live or deleted, have the same tag, though Create and Update
\* check the tag in one statement and write it in another.
TagsDistinct ==
    \A i, j \in Inbound :
        i # j /\ row[i] # None /\ row[j] # None => row[i].tag # row[j].tag

\* The panel starts with any table it can have left, and no node connected.
Init ==
    /\ state \in [Inbound -> {"absent", "live", "deleted"}]
    /\ row \in [Inbound -> Columns \cup {None}]
    /\ \A i \in Inbound : row[i] = None <=> state[i] = "absent"
    /\ TagsDistinct
    /\ pc = [r \in Request |-> "idle"]
    /\ target = [r \in Request |-> None]
    /\ held = [r \in Request |-> None]
    /\ todo = [r \in Request |-> {}]
    /\ dest = [r \in Request |-> None]
    /\ built = [r \in Request |-> {}]
    /\ online = {} /\ stream = [n \in Node |-> "none"]
    /\ got = [n \in Node |-> {}]
    /\ reach = [n \in Node |-> "none"]
    /\ patient \in BOOLEAN

Goto(r, from, to) == pc[r] = from /\ pc' = [pc EXCEPT ![r] = to]

\* Whether the next change must reach node n, given what else goes well.
Steady(n) == n \in online /\ stream[n] = "up"

(***************************************************************************)
(* Requests that change the table.                                         *)
(***************************************************************************)

\* Operators who wait for answers have one request in progress.
MayBegin(r) == pc[r] = "idle" /\ (patient => \A q \in Request : pc[q] = "idle")

Begin(r, to, i, c) ==
    /\ MayBegin(r)
    /\ pc' = [pc EXCEPT ![r] = to]
    /\ target' = [target EXCEPT ![r] = i]
    /\ held' = [held EXCEPT ![r] = c]
    /\ UNCHANGED <<table, todo, dest, built, nodes, reach, patient>>

\* POST /api/inbounds with a body that passes Validate.
BeginCreate(r) == \E c \in Columns : Begin(r, "check", None, c)

\* Fault model of the next definition: soft-deleted rows are found too.
FoundEvenDeleted(i) == state[i] # "absent"

\* GetByID does not see soft-deleted rows.
Found(i) == state[i] = "live"

\* PUT /api/inbounds/{id}: the row exists, the columns come from the body.
BeginUpdate(r) == \E i \in Inbound, c \in Columns : Found(i) /\ Begin(r, "check", i, c)

\* POST /api/inbounds/{id}/toggle: the columns come from the row.
BeginToggle(r) ==
    \E i \in Inbound :
        Found(i) /\ Begin(r, "write", i, [row[i] EXCEPT !.enable = ~@])

\* POST /api/inbounds/push: no change, straight to the push.
BeginPush(r) == Begin(r, "list", None, None)

\* The request ends without a change: an error is returned, nothing is pushed.
GiveUp(r) ==
    /\ pc' = [pc EXCEPT ![r] = "idle"]
    /\ target' = [target EXCEPT ![r] = None]
    /\ held' = [held EXCEPT ![r] = None]
    /\ UNCHANGED <<table, todo, dest, built, nodes, reach, patient>>

\* TagExists: rows that are not deleted, but for the one to be updated.
TagExists(tag, i) == \E j \in Inbound \ {i} : state[j] = "live" /\ row[j].tag = tag

CheckTag(r) ==
    /\ pc[r] = "check"
    /\ \/ /\ ~TagExists(held[r].tag, target[r])
          /\ Goto(r, "check", "write")
          /\ UNCHANGED <<table, target, held, todo, dest, built, nodes, reach, patient>>
       \/ (TagExists(held[r].tag, target[r]) \/ DbMayFail) /\ GiveUp(r)

\* Fault model of the next definition: the callback is not set.
NoNotify(r) == pc' = [pc EXCEPT ![r] = "idle"]

\* Service.notify: OnChange is called.
Notify(r) == pc' = [pc EXCEPT ![r] = "list"]

\* Row i is written as c and OnChange is called: every node that is online and
\* connected is owed the change.
Write(r, i, c) ==
    /\ state' = [state EXCEPT ![i] = "live"]
    /\ row' = [row EXCEPT ![i] = c]
    /\ Notify(r)
    /\ target' = [target EXCEPT ![r] = None]
    /\ held' = [held EXCEPT ![r] = None]
    /\ reach' = [n \in Node |-> IF Steady(n) THEN "owed" ELSE "none"]
    /\ UNCHANGED <<todo, dest, built, nodes, patient>>

\* An INSERT replaces a zero value by the default of its column: enable is true.
Inserted(c) == [c EXCEPT !.enable = TRUE]

\* The INSERT of Create, under a new id.  Bound: as many ids as Inbound has.
InsertRow(r) ==
    /\ pc[r] = "write" /\ target[r] = None
    /\ \/ /\ ~TagTaken(held[r].tag, None)
          /\ \E i \in Inbound : state[i] = "absent" /\ Write(r, i, Inserted(held[r]))
       \/ (TagTaken(held[r].tag, None) \/ DbMayFail) /\ GiveUp(r)

\* The Save of Update and Toggle: an UPDATE of the live row, or else an INSERT,
\* which brings a row back that was deleted in between.
SaveRow(r) ==
    /\ pc[r] = "write" /\ target[r] # None
    /\ \/ /\ ~TagTaken(held[r].tag, target[r])
          /\ Write(r, target[r], IF state[target[r]] = "live" THEN held[r]
                                                              ELSE Inserted(held[r]))
       \/ (TagTaken(held[r].tag, target[r]) \/ DbMayFail) /\ GiveUp(r)

\* DELETE /api/inbounds/{id}: one statement, and no error when there is no such row.
DeleteRow(r) ==
    /\ MayBegin(r)
    /\ \E i \in Inbound :
          /\ state' = [state EXCEPT ![i] = IF @ = "live" THEN "deleted" ELSE @]
          /\ reach' = IF state[i] = "live"
                        THEN [n \in Node |-> IF Steady(n) THEN "owed" ELSE "none"]
                        ELSE reach
    /\ Notify(r)
    /\ UNCHANGED <<row, target, held, todo, dest, built, nodes, patient>>

(***************************************************************************)
(* OnChange, and apiPushInbounds, whose loop is the same.                  *)
(***************************************************************************)

\* ListForNode: enabled rows that name the node, or no node at all.
ListForNode(n) == {i \in Inbound : /\ state[i] = "live" /\ row[i].enable
                                   /\ row[i].on = {} \/ n \in row[i].on}

\* BuildXrayConfig
ConfigFor(n) == {[id |-> i, tag |-> row[i].tag] : i \in ListForNode(n)}

\* A miss of the nodes in N is logged.
Logged(N) == [n \in Node |-> IF n \in N /\ reach[n] = "owed" THEN "none" ELSE reach[n]]

\* The nodes whose row says "online" are to be visited.
ListNodes(r) ==
    /\ pc[r] = "list"
    /\ \/ /\ Goto(r, "list", "push")
          /\ todo' = [todo EXCEPT ![r] = online]
          /\ UNCHANGED reach
       \/ /\ DbMayFail
          /\ Goto(r, "list", "idle")
          /\ reach' = Logged(Node)
          /\ UNCHANGED todo
    /\ UNCHANGED <<table, target, held, dest, built, nodes, patient>>

BuildConfig(r) ==
    /\ pc[r] = "push"
    /\ \E n \in todo[r] :
          /\ todo' = [todo EXCEPT ![r] = @ \ {n}]
          /\ \/ /\ Goto(r, "push", "send")
                /\ dest' = [dest EXCEPT ![r] = n]
                /\ built' = [built EXCEPT ![r] = ConfigFor(n)]
                /\ UNCHANGED reach
             \/ /\ DbMayFail
                /\ reach' = Logged({n})
                /\ UNCHANGED <<pc, dest, built>>
    /\ UNCHANGED <<table, target, held, nodes, patient>>

\* Fault model of the next definition: the loop ends with the first failure.
NobodyElse(r) == {}

\* A node that cannot be reached does not keep the loop from the others.
StillToVisit(r) == todo[r]

\* SendToNode.  A broken transport may take the message and lose it.
SendConfig(r) ==
    /\ Goto(r, "send", "push")
    /\ dest' = [dest EXCEPT ![r] = None]
    /\ built' = [built EXCEPT ![r] = {}]
    /\ \/ /\ stream[dest[r]] = "up"
          /\ got' = [got EXCEPT ![dest[r]] = built[r]]
          /\ reach' = [reach EXCEPT ![dest[r]] = IF built[r] = ConfigFor(dest[r])
                                                   THEN "sent" ELSE @]
          /\ UNCHANGED todo
       \/ /\ stream[dest[r]] = "broken"
          /\ UNCHANGED <<todo, got, reach>>
       \/ /\ stream[dest[r]] # "up"
          /\ todo' = [todo EXCEPT ![r] = StillToVisit(r)]
          /\ reach' = Logged({dest[r]})
          /\ UNCHANGED got
    /\ UNCHANGED <<table, target, held, online, stream, patient>>

\* The loop is over and the request is answered.
Answer(r) ==
    /\ Goto(r, "push", "idle")
    /\ todo[r] = {}
    /\ UNCHANGED <<table, target, held, todo, dest, built, nodes, reach, patient>>

(***************************************************************************)
(* The environment.                                                        *)
(***************************************************************************)

Missed(n) == reach' = [reach EXCEPT ![n] = "none"]

\* The row says "online" from the handshake on, and again with every heartbeat;
\* it says "offline" once the handler of any stream of the node has ended.
StatusChanges(n) ==
    /\ online' = IF n \in online THEN online \ {n} ELSE online \cup {n}
    /\ Missed(n)
    /\ UNCHANGED <<table, work, stream, got, patient>>

\* A stream of the node is registered, breaks, or is unregistered.
StreamChanges(n) ==
    /\ \E s \in {"none", "up", "broken"} :
          /\ <<stream[n], s>> \in {<<"none", "up">>, <<"broken", "up">>, <<"up", "broken">>,
                                   <<"broken", "none">>}
          /\ stream' = [stream EXCEPT ![n] = s]
    /\ Missed(n)
    /\ UNCHANGED <<table, work, online, got, patient>>

\* The panel's process ends and a new one starts: SetAllOffline, no streams.
Restart ==
    /\ \E r \in Request : pc[r] # "idle"
    /\ pc' = [r \in Request |-> "idle"]
    /\ target' = [r \in Request |-> None] /\ held' = [r \in Request |-> None]
    /\ todo' = [r \in Request |-> {}]
    /\ dest' = [r \in Request |-> None] /\ built' = [r \in Request |-> {}]
    /\ online' = {} /\ stream' = [n \in Node |-> "none"]
    /\ reach' = [n \in Node |-> "none"]
    /\ UNCHANGED <<table, got, patient>>

-----------------------------------------------------------------------------

Changing(r) == \/ BeginCreate(r) \/ BeginUpdate(r) \/ BeginToggle(r)
               \/ CheckTag(r) \/ InsertRow(r) \/ SaveRow(r) \/ DeleteRow(r)
Pushing(r) == BeginPush(r) \/ ListNodes(r) \/ BuildConfig(r) \/ SendConfig(r) \/ Answer(r)

Next == \/ \E r \in Request : Changing(r) \/ Pushing(r)
        \/ \E n \in Node : StatusChanges(n) \/ StreamChanges(n)
        \/ Restart

Spec == Init /\ [][Next]_vars

-----------------------------------------------------------------------------

\* All requests have been answered.
Quiescent == \A r \in Request : pc[r] = "idle"

\* No node is missed in silence: when all requests are answered, every node that was
\* online and connected since the last change was sent a config with it, by whichever
\* request, or a warning about it was logged.
NoSilentMiss == Quiescent => \A n \in Node : reach[n] # "owed"

\* When operators wait for each answer, a node that was online and connected since the
\* last change, and whose miss was not logged, has the config of the table as it is now.
PatientNodesAreCurrent ==
    patient /\ Quiescent => \A n \in Node : reach[n] # "none" => got[n] = ConfigFor(n)

OneTagEach(c) == \A x, y \in c : x.tag = y.tag => x = y

\* Xray refuses a config in which two inbounds have one tag: no config a request builds,
\* and none a node has got, is of that kind, whatever changes the table meanwhile.
ConfigsAreLoadable ==
    /\ \A r \in Request : OneTagEach(built[r])
    /\ \A n \in Node : OneTagEach(got[n])

\* No Update or Toggle of inbound i is between its read and its Save.
NoSavePending(i) == \A r \in Request : target[r] # i

DeletedStays ==
    \A i \in Inbound : state[i] = "deleted" /\ NoSavePending(i)
                           => state'[i] = "deleted" /\ NoSavePending(i)'

\* A deleted inbound is only brought back by an Update or Toggle that read it before.
DeletionSettles == [][DeletedStays]_vars

-----------------------------------------------------------------------------
\* What a comment of the code says and the code does not do.

\* "When inbounds change, push the config to all connected nodes": once all requests
\* are answered the nodes have the config of the table as it is.
NodesAreCurrent ==
    Quiescent => \A n \in Node : reach[n] = "sent" => got[n] = ConfigFor(n)

=============================================================================
