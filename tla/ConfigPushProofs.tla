-------------------------- MODULE ConfigPushProofs --------------------------
(***************************************************************************)
(* Proofs about ConfigPush, for any nodes, inbounds, tags and requests,    *)
(* and with or without a failing database.                                 *)
(***************************************************************************)
EXTENDS ConfigPush, TLAPS

USE NoneAssumption, TargetAssumption DEF table, work, nodes

\* What the locals of a request hold at each place of it, and which rows have columns.
Known ==
    /\ \A i \in Inbound : state[i] = "absent" <=> row[i] = None
    /\ \A r \in Request : pc[r] \in {"check", "write"} => held[r] \in Columns
    /\ \A r \in Request : pc[r] = "send" => dest[r] \in Node

Base == TypeOK /\ Known

\* Enabling or disabling an inbound keeps its tag.
LEMMA ToggledColumns ==
  ASSUME NEW c \in Columns
  PROVE  /\ [c EXCEPT !.enable = ~@] \in Columns
         /\ Inserted(c) \in Columns
         /\ Inserted(c).tag = c.tag
BY DEF Columns, Inserted

\* What is built for a node is a config.
LEMMA ConfigType ==
  ASSUME TypeOK, Known, NEW n
  PROVE  ConfigFor(n) \in Config
<1>1. ASSUME NEW i \in ListForNode(n) PROVE i \in Inbound /\ row[i].tag \in Tag
  BY <1>1 DEF ListForNode, TypeOK, Known, Columns
<1> QED
  BY <1>1 DEF ConfigFor, Config

\* The initial state.
LEMMA BaseInit == Init => Base
<1> SUFFICES ASSUME Init PROVE Base
  OBVIOUS
<1>1. /\ state \in [Inbound -> {"absent", "live", "deleted"}]
      /\ row \in [Inbound -> Columns \cup {None}]
      /\ pc \in [Request -> {"idle", "check", "write", "list", "push", "send"}]
  BY DEF Init
<1>2. /\ target \in [Request -> Inbound \cup {None}]
      /\ held \in [Request -> Columns \cup {None}]
      /\ todo \in [Request -> SUBSET Node]
      /\ dest \in [Request -> Node \cup {None}]
      /\ built \in [Request -> Config]
  BY DEF Init, Config
<1>3. /\ online \subseteq Node
      /\ stream \in [Node -> {"none", "up", "broken"}]
      /\ got \in [Node -> Config]
      /\ reach \in [Node -> {"none", "owed", "sent"}]
      /\ patient \in BOOLEAN
  BY DEF Init, Config
<1>4. Known
  BY DEF Init, Known
<1> QED
  BY <1>1, <1>2, <1>3, <1>4 DEF Base, TypeOK

\* A request begins with columns that are well typed or absent.
LEMMA BeginBase ==
  ASSUME Base, NEW r \in Request, NEW to \in {"check", "write", "list"},
         NEW i \in Inbound \cup {None}, NEW c \in Columns \cup {None},
         to # "list" => c \in Columns, Begin(r, to, i, c)
  PROVE  Base'
BY DEF Begin, Base, TypeOK, Known

\* A request that gives up keeps nothing.
LEMMA GiveUpBase ==
  ASSUME Base, NEW r \in Request, GiveUp(r)
  PROVE  Base'
BY DEF GiveUp, Base, TypeOK, Known

\* A row is written with columns.
LEMMA WriteBase ==
  ASSUME Base, NEW r \in Request, NEW i \in Inbound, NEW c \in Columns, Write(r, i, c)
  PROVE  Base'
BY DEF Write, Notify, Base, TypeOK, Known

\* Types and locals are kept by every step.
LEMMA BaseStep ==
  ASSUME Base, [Next]_vars
  PROVE  Base'
<1>1. ASSUME NEW r \in Request, BeginCreate(r) PROVE Base'
  BY <1>1, BeginBase DEF BeginCreate
<1>2. ASSUME NEW r \in Request, BeginUpdate(r) PROVE Base'
  BY <1>2, BeginBase DEF BeginUpdate
<1>3. ASSUME NEW r \in Request, BeginToggle(r) PROVE Base'
  <2>1. PICK i \in Inbound : Found(i) /\ Begin(r, "write", i, [row[i] EXCEPT !.enable = ~@])
    BY <1>3 DEF BeginToggle
  <2>2. row[i] \in Columns
    BY <2>1 DEF Found, Base, TypeOK, Known
  <2>3. [row[i] EXCEPT !.enable = ~@] \in Columns
    BY <2>2, ToggledColumns
  <2> QED
    BY <2>1, <2>3, BeginBase
<1>4. ASSUME NEW r \in Request, BeginPush(r) PROVE Base'
  BY <1>4, BeginBase DEF BeginPush
<1>5. ASSUME NEW r \in Request, CheckTag(r) PROVE Base'
  <2>1. CASE GiveUp(r)
    BY <2>1, GiveUpBase
  <2>2. CASE Goto(r, "check", "write") /\ UNCHANGED <<table, target, held, todo, dest, built, nodes, reach, patient>>
    BY <2>2 DEF Goto, Base, TypeOK, Known
  <2> QED
    BY <1>5, <2>1, <2>2 DEF CheckTag
<1>6. ASSUME NEW r \in Request, InsertRow(r) PROVE Base'
  <2>1. held[r] \in Columns
    BY <1>6 DEF InsertRow, Base, Known
  <2> QED
    BY <1>6, <2>1, ToggledColumns, WriteBase, GiveUpBase DEF InsertRow
<1>7. ASSUME NEW r \in Request, SaveRow(r) PROVE Base'
  <2>1. held[r] \in Columns /\ target[r] \in Inbound
    BY <1>7 DEF SaveRow, Base, TypeOK, Known
  <2>2. Inserted(held[r]) \in Columns
    BY <2>1, ToggledColumns
  <2>3. CASE GiveUp(r)
    BY <2>3, GiveUpBase
  <2>4. CASE Write(r, target[r], held[r])
    BY <2>1, <2>4, WriteBase
  <2>5. CASE Write(r, target[r], Inserted(held[r]))
    BY <2>1, <2>2, <2>5, WriteBase
  <2> QED
    BY <1>7, <2>3, <2>4, <2>5 DEF SaveRow
<1>8. ASSUME NEW r \in Request, DeleteRow(r) PROVE Base'
  BY <1>8 DEF DeleteRow, Notify, Base, TypeOK, Known
<1>9. ASSUME NEW r \in Request, ListNodes(r) PROVE Base'
  BY <1>9 DEF ListNodes, Goto, Logged, Base, TypeOK, Known
<1>10. ASSUME NEW r \in Request, BuildConfig(r) PROVE Base'
  BY <1>10, ConfigType DEF BuildConfig, Goto, Logged, Base, TypeOK, Known
<1>11. ASSUME NEW r \in Request, SendConfig(r) PROVE Base'
  BY <1>11 DEF SendConfig, StillToVisit, Goto, Logged, Base, TypeOK, Known, Config
<1>12. ASSUME NEW r \in Request, Answer(r) PROVE Base'
  BY <1>12 DEF Answer, Goto, Base, TypeOK, Known
<1>13. ASSUME NEW n \in Node, StatusChanges(n) PROVE Base'
  BY <1>13 DEF StatusChanges, Missed, Base, TypeOK, Known
<1>14. ASSUME NEW n \in Node, StreamChanges(n) PROVE Base'
  BY <1>14 DEF StreamChanges, Missed, Base, TypeOK, Known
<1>15. CASE Restart
  BY <1>15 DEF Restart, Base, TypeOK, Known, Config
<1>16. CASE UNCHANGED vars
  BY <1>16 DEF vars, Base, TypeOK, Known
<1> QED
  BY <1>1, <1>2, <1>3, <1>4, <1>5, <1>6, <1>7, <1>8, <1>9, <1>10, <1>11, <1>12, <1>13,
     <1>14, <1>15, <1>16 DEF Next, Changing, Pushing

LEMMA BaseHolds == Spec => []Base
BY BaseInit, BaseStep, PTL DEF Spec

\* Every reachable state is well typed.
THEOREM TypeCorrect == Spec => []TypeOK
<1>1. Base => TypeOK
  BY DEF Base
<1> QED
  BY <1>1, BaseHolds, PTL

\* Whoever can still bring node n the table as it is.
WillReach(r, n) ==
    \/ pc[r] = "list"
    \/ pc[r] \in {"push", "send"} /\ n \in todo[r]
    \/ pc[r] = "send" /\ dest[r] = n /\ built[r] = ConfigFor(n)

\* A node that is owed the last change is online and connected, and some request will
\* still bring it that change: not always the one that made it.
OwedIsComing ==
    \A n \in Node : reach[n] = "owed" =>
        Steady(n) /\ \E r \in Request : WillReach(r, n)

\* A step that changes neither the table nor what is owed loses no request that will
\* reach a node, but for the one request it moves.
LEMMA OthersReach ==
  ASSUME OwedIsComing, NEW r \in Request, UNCHANGED table,
         \A n \in Node : reach'[n] = "owed" => reach[n] = "owed" /\ Steady(n)',
         \A q \in Request \ {r} : /\ pc'[q] = pc[q] /\ todo'[q] = todo[q]
                                  /\ dest'[q] = dest[q] /\ built'[q] = built[q],
         \A n \in Node : reach'[n] = "owed" /\ WillReach(r, n) => WillReach(r, n)'
  PROVE  OwedIsComing'
<1> SUFFICES ASSUME NEW n \in Node, reach'[n] = "owed"
             PROVE  Steady(n)' /\ \E q \in Request : WillReach(q, n)'
  BY DEF OwedIsComing
<1>1. PICK q \in Request : WillReach(q, n)
  BY DEF OwedIsComing
<1>2. CASE q = r
  BY <1>1, <1>2
<1>3. CASE q # r
  <2>1. ConfigFor(n)' = ConfigFor(n)
    BY DEF ConfigFor, ListForNode
  <2>2. WillReach(q, n)'
    BY <1>1, <1>3, <2>1 DEF WillReach
  <2> QED
    BY <2>2
<1> QED
  BY <1>2, <1>3

\* A request that begins, or gives up, was not going to reach anybody.
LEMMA BeginOwed ==
  ASSUME Base, OwedIsComing, NEW r \in Request, NEW to, NEW i, NEW c, Begin(r, to, i, c)
  PROVE  OwedIsComing'
<1>1. \A n \in Node : ~WillReach(r, n)
  BY DEF Begin, MayBegin, WillReach
<1> QED
  BY <1>1, OthersReach DEF Begin, OwedIsComing, Steady, Base, TypeOK

LEMMA GiveUpOwed ==
  ASSUME Base, OwedIsComing, NEW r \in Request, pc[r] \in {"check", "write"}, GiveUp(r)
  PROVE  OwedIsComing'
<1>1. \A n \in Node : ~WillReach(r, n)
  BY DEF WillReach
<1> QED
  BY <1>1, OthersReach DEF GiveUp, OwedIsComing, Steady, Base, TypeOK

\* A change is owed to nodes that are online and connected, by the request that made it.
LEMMA ChangeOwed ==
  ASSUME Base, NEW r \in Request, Notify(r), UNCHANGED nodes,
         reach' = [n \in Node |-> IF Steady(n) THEN "owed" ELSE "none"]
  PROVE  OwedIsComing'
<1>1. \A n \in Node : WillReach(r, n)'
  BY DEF Notify, WillReach, Base, TypeOK
<1> QED
  BY <1>1 DEF OwedIsComing, Steady

\* The config built last for a node is the one for the table as it is.
LEMMA BuildOwed ==
  ASSUME Base, OwedIsComing, NEW r \in Request, BuildConfig(r)
  PROVE  OwedIsComing'
<1>1. PICK m \in todo[r] :
         /\ todo' = [todo EXCEPT ![r] = @ \ {m}]
         /\ \/ /\ Goto(r, "push", "send")
               /\ dest' = [dest EXCEPT ![r] = m]
               /\ built' = [built EXCEPT ![r] = ConfigFor(m)]
               /\ UNCHANGED reach
            \/ /\ DbMayFail
               /\ reach' = Logged({m})
               /\ UNCHANGED <<pc, dest, built>>
  BY DEF BuildConfig
<1>2. /\ pc[r] = "push" /\ UNCHANGED <<table, nodes>>
      /\ todo'[r] = todo[r] \ {m} /\ m \in Node
  BY <1>1 DEF BuildConfig, Base, TypeOK
<1>3. \A n \in Node : ConfigFor(n)' = ConfigFor(n)
  BY <1>2 DEF ConfigFor, ListForNode
<1>4. \A n \in Node : reach'[n] = "owed" => reach[n] = "owed" /\ Steady(n)'
  BY <1>1, <1>2 DEF OwedIsComing, Steady, Logged, Base, TypeOK
<1>5. ASSUME NEW n \in Node, reach'[n] = "owed", WillReach(r, n) PROVE WillReach(r, n)'
  <2>1. n \in todo[r]
    BY <1>2, <1>5 DEF WillReach
  <2>2. CASE n # m
    <3>1. n \in todo'[r] /\ pc'[r] \in {"push", "send"}
      BY <1>1, <1>2, <2>1, <2>2 DEF Goto, Base, TypeOK
    <3> QED
      BY <3>1 DEF WillReach
  <2>3. CASE n = m
    <3>1. CASE Goto(r, "push", "send") /\ dest' = [dest EXCEPT ![r] = m]
                 /\ built' = [built EXCEPT ![r] = ConfigFor(m)]
      BY <1>3, <2>3, <3>1 DEF WillReach, Goto, Base, TypeOK
    <3>2. CASE reach' = Logged({m})
      BY <1>5, <2>3, <3>2 DEF Logged, Base, TypeOK
    <3> QED
      BY <1>1, <3>1, <3>2
  <2> QED
    BY <2>2, <2>3
<1>6. \A q \in Request \ {r} : /\ pc'[q] = pc[q] /\ todo'[q] = todo[q]
                               /\ dest'[q] = dest[q] /\ built'[q] = built[q]
  BY <1>1 DEF Goto, Base, TypeOK
<1> QED
  BY <1>2, <1>4, <1>5, <1>6, OthersReach

\* A config that is sent settles what its node is owed, or was built before the change.
LEMMA SendOwed ==
  ASSUME Base, OwedIsComing, NEW r \in Request, SendConfig(r)
  PROVE  OwedIsComing'
<1>1. /\ pc[r] = "send" /\ pc'[r] = "push" /\ todo'[r] = todo[r]
      /\ dest[r] \in Node /\ UNCHANGED <<table, online, stream>>
  BY DEF SendConfig, StillToVisit, Goto, Base, TypeOK, Known
<1>2. \A q \in Request \ {r} : /\ pc'[q] = pc[q] /\ todo'[q] = todo[q]
                               /\ dest'[q] = dest[q] /\ built'[q] = built[q]
  BY DEF SendConfig, StillToVisit, Goto, Base, TypeOK
<1>3. \A n \in Node : reach'[n] = "owed" => reach[n] = "owed"
  BY <1>1 DEF SendConfig, Logged, Base, TypeOK
<1>4. \A n \in Node : reach'[n] = "owed" => Steady(n)'
  BY <1>1, <1>3 DEF OwedIsComing, Steady
<1>5. ASSUME NEW n \in Node, reach'[n] = "owed", WillReach(r, n) PROVE n \in todo[r]
  <2>1. CASE dest[r] = n /\ built[r] = ConfigFor(n)
    <3>1. stream[n] = "up"
      BY <1>3, <1>5 DEF OwedIsComing, Steady
    <3>2. reach'[n] = "sent"
      BY <1>1, <2>1, <3>1 DEF SendConfig, Base, TypeOK
    <3> QED
      BY <1>5, <3>2
  <2> QED
    BY <1>1, <1>5, <2>1 DEF WillReach
<1>6. \A n \in Node : reach'[n] = "owed" /\ WillReach(r, n) => WillReach(r, n)'
  BY <1>1, <1>5 DEF WillReach
<1> QED
  BY <1>1, <1>2, <1>3, <1>4, <1>6, OthersReach

\* A node whose row or stream changes is owed nothing.
LEMMA MissedOwed ==
  ASSUME Base, OwedIsComing, NEW n \in Node, Missed(n), UNCHANGED <<table, work>>,
         \A m \in Node \ {n} : Steady(m)' = Steady(m)
  PROVE  OwedIsComing'
<1> SUFFICES ASSUME NEW m \in Node, reach'[m] = "owed"
             PROVE  Steady(m)' /\ \E q \in Request : WillReach(q, m)'
  BY DEF OwedIsComing
<1>1. m # n /\ reach[m] = "owed"
  BY DEF Missed, Base, TypeOK
<1>2. PICK q \in Request : WillReach(q, m)
  BY <1>1 DEF OwedIsComing
<1>3. WillReach(q, m)'
  BY <1>2 DEF WillReach, ConfigFor, ListForNode
<1> QED
  BY <1>1, <1>3 DEF OwedIsComing

\* What is owed stays on its way.
LEMMA OwedStep ==
  ASSUME Base, OwedIsComing, [Next]_vars
  PROVE  OwedIsComing'
<1>1. ASSUME NEW r \in Request, BeginCreate(r) \/ BeginUpdate(r) \/ BeginToggle(r) \/ BeginPush(r)
      PROVE  OwedIsComing'
  BY <1>1, BeginOwed DEF BeginCreate, BeginUpdate, BeginToggle, BeginPush
<1>2. ASSUME NEW r \in Request, CheckTag(r) PROVE OwedIsComing'
  <2>1. CASE GiveUp(r)
    BY <1>2, <2>1, GiveUpOwed DEF CheckTag
  <2>2. CASE Goto(r, "check", "write") /\ UNCHANGED <<table, target, held, todo, dest, built, nodes, reach, patient>>
    <3>1. \A n \in Node : ~WillReach(r, n)
      BY <2>2 DEF WillReach, Goto
    <3> QED
      BY <2>2, <3>1, OthersReach DEF Goto, OwedIsComing, Steady, Base, TypeOK
  <2> QED
    BY <1>2, <2>1, <2>2 DEF CheckTag
<1>3. ASSUME NEW r \in Request, InsertRow(r) PROVE OwedIsComing'
  BY <1>3, GiveUpOwed, ChangeOwed DEF InsertRow, Write
<1>4. ASSUME NEW r \in Request, SaveRow(r) PROVE OwedIsComing'
  BY <1>4, GiveUpOwed, ChangeOwed DEF SaveRow, Write
<1>5. ASSUME NEW r \in Request, DeleteRow(r) PROVE OwedIsComing'
  <2>1. CASE reach' = [n \in Node |-> IF Steady(n) THEN "owed" ELSE "none"]
    BY <1>5, <2>1, ChangeOwed DEF DeleteRow
  <2>2. CASE UNCHANGED <<state, reach>>
    <3>1. \A n \in Node : ~WillReach(r, n)
      BY <1>5 DEF DeleteRow, MayBegin, WillReach
    <3> QED
      BY <1>5, <2>2, <3>1, OthersReach DEF DeleteRow, Notify, OwedIsComing, Steady, Base, TypeOK
  <2>3. ASSUME NEW i \in Inbound, state[i] # "live",
               state' = [state EXCEPT ![i] = IF @ = "live" THEN "deleted" ELSE @]
        PROVE  state' = state
    BY <2>3 DEF Base, TypeOK
  <2> QED
    BY <1>5, <2>1, <2>2, <2>3 DEF DeleteRow
<1>6. ASSUME NEW r \in Request, ListNodes(r) PROVE OwedIsComing'
  <2>1. \A n \in Node : reach'[n] = "owed" => reach[n] = "owed" /\ Steady(n)'
    BY <1>6 DEF ListNodes, Logged, OwedIsComing, Steady, Base, TypeOK
  <2>2. \A n \in Node : reach'[n] = "owed" => WillReach(r, n)'
    BY <1>6, <2>1 DEF ListNodes, Goto, Logged, WillReach, Steady, Base, TypeOK
  <2> QED
    BY <1>6, <2>1, <2>2, OthersReach DEF ListNodes, Goto, Base, TypeOK
<1>7. ASSUME NEW r \in Request, Answer(r) PROVE OwedIsComing'
  <2>1. \A n \in Node : ~WillReach(r, n)
    BY <1>7 DEF Answer, Goto, WillReach
  <2> QED
    BY <1>7, <2>1, OthersReach DEF Answer, Goto, OwedIsComing, Steady, Base, TypeOK
<1>8. ASSUME NEW n \in Node, StatusChanges(n) \/ StreamChanges(n) PROVE OwedIsComing'
  <2>1. \A m \in Node \ {n} : Steady(m)' = Steady(m)
    BY <1>8 DEF StatusChanges, StreamChanges, Steady, Base, TypeOK
  <2> QED
    BY <1>8, <2>1, MissedOwed DEF StatusChanges, StreamChanges
<1>9. CASE Restart
  BY <1>9 DEF Restart, OwedIsComing
<1>10. CASE UNCHANGED vars
  BY <1>10 DEF vars, OwedIsComing, WillReach, Steady, ConfigFor, ListForNode
<1> QED
  BY <1>1, <1>2, <1>3, <1>4, <1>5, <1>6, <1>7, <1>8, <1>9, <1>10, BuildOwed, SendOwed
    DEF Next, Changing, Pushing

LEMMA OwedHolds == Spec => []OwedIsComing
<1>1. Init => OwedIsComing
  BY DEF Init, OwedIsComing
<1>2. Base /\ OwedIsComing /\ [Next]_vars => OwedIsComing'
  BY OwedStep
<1> QED
  BY <1>1, <1>2, BaseHolds, PTL DEF Spec

\* No node that is online and connected is missed in silence by a change of the inbounds.
THEOREM NobodyMissed == Spec => []NoSilentMiss
<1>1. OwedIsComing => NoSilentMiss
  BY DEF OwedIsComing, WillReach, NoSilentMiss, Quiescent
<1> QED
  BY <1>1, OwedHolds, PTL

-----------------------------------------------------------------------------

\* A row is written only with a tag that no other row has.
LEMMA WriteDistinct ==
  ASSUME Base, TagsDistinct, NEW r \in Request, NEW i \in Inbound, NEW c \in Columns,
         ~TagTaken(c.tag, i), Write(r, i, c)
  PROVE  TagsDistinct'
BY DEF Write, TagTaken, TagsDistinct, Base, TypeOK

\* The unique index closes the gap between a tag's check and its use.
LEMMA TagsStep ==
  ASSUME Base, TagsDistinct, [Next]_vars
  PROVE  TagsDistinct'
<1>1. CASE UNCHANGED row
  BY <1>1 DEF TagsDistinct
<1>2. ASSUME NEW r \in Request, InsertRow(r) PROVE TagsDistinct'
  <2>1. CASE GiveUp(r)
    BY <1>1, <2>1 DEF GiveUp
  <2>2. ASSUME NEW i \in Inbound, ~TagTaken(held[r].tag, None), state[i] = "absent",
               Write(r, i, Inserted(held[r]))
        PROVE  TagsDistinct'
    <3>1. held[r] \in Columns
      BY <1>2 DEF InsertRow, Base, Known
    <3>2. Inserted(held[r]) \in Columns /\ Inserted(held[r]).tag = held[r].tag
      BY <3>1, ToggledColumns
    <3>3. ~TagTaken(held[r].tag, i)
      BY <2>2 DEF TagTaken
    <3> QED
      BY <2>2, <3>2, <3>3, WriteDistinct
  <2> QED
    BY <1>2, <2>1, <2>2 DEF InsertRow
<1>3. ASSUME NEW r \in Request, SaveRow(r) PROVE TagsDistinct'
  <2>1. CASE GiveUp(r)
    BY <1>1, <2>1 DEF GiveUp
  <2>2. held[r] \in Columns /\ target[r] \in Inbound
    BY <1>3 DEF SaveRow, Base, TypeOK, Known
  <2>3. Inserted(held[r]) \in Columns /\ Inserted(held[r]).tag = held[r].tag
    BY <2>2, ToggledColumns
  <2>4. CASE ~TagTaken(held[r].tag, target[r]) /\ Write(r, target[r], held[r])
    BY <2>2, <2>4, WriteDistinct
  <2>5. CASE ~TagTaken(held[r].tag, target[r]) /\ Write(r, target[r], Inserted(held[r]))
    BY <2>2, <2>3, <2>5, WriteDistinct
  <2> QED
    BY <1>3, <2>1, <2>4, <2>5 DEF SaveRow
<1>4. ASSUME NEW r \in Request, BeginCreate(r) \/ BeginUpdate(r) \/ BeginToggle(r) \/ BeginPush(r)
      PROVE  UNCHANGED row
  BY <1>4 DEF BeginCreate, BeginUpdate, BeginToggle, BeginPush, Begin
<1>5. ASSUME NEW r \in Request, CheckTag(r) \/ DeleteRow(r) \/ ListNodes(r) \/ BuildConfig(r)
                                 \/ SendConfig(r) \/ Answer(r)
      PROVE  UNCHANGED row
  BY <1>5 DEF CheckTag, GiveUp, DeleteRow, ListNodes, BuildConfig, SendConfig, Answer
<1>6. ASSUME NEW n \in Node, StatusChanges(n) \/ StreamChanges(n) PROVE UNCHANGED row
  BY <1>6 DEF StatusChanges, StreamChanges
<1>7. Restart \/ UNCHANGED vars => UNCHANGED row
  BY DEF Restart, vars
<1> QED
  BY <1>1, <1>2, <1>3, <1>4, <1>5, <1>6, <1>7 DEF Next, Changing, Pushing

\* No two inbounds have the same tag, however Creates, Updates and Toggles interleave.
THEOREM TagsStayDistinct == Spec => []TagsDistinct
<1>1. Init => TagsDistinct
  BY DEF Init
<1>2. Base /\ TagsDistinct /\ [Next]_vars => TagsDistinct'
  BY TagsStep
<1> QED
  BY <1>1, <1>2, BaseHolds, PTL DEF Spec

-----------------------------------------------------------------------------

\* Inbounds of one table have a tag each in the config made from it.
LEMMA ConfigOneTagEach ==
  ASSUME Base, TagsDistinct, NEW n
  PROVE  OneTagEach(ConfigFor(n))
<1>1. ASSUME NEW i \in ListForNode(n) PROVE i \in Inbound /\ row[i] # None
  BY <1>1, NoneAssumption DEF ListForNode, Base, TypeOK, Known
<1> QED
  BY <1>1 DEF ConfigFor, OneTagEach, TagsDistinct

\* Configs are built from the table, kept while other requests change it, and sent as
\* they are.
LEMMA LoadableStep ==
  ASSUME Base, TagsDistinct, ConfigsAreLoadable, [Next]_vars
  PROVE  ConfigsAreLoadable'
<1>1. CASE UNCHANGED <<built, got>>
  BY <1>1 DEF ConfigsAreLoadable
<1>2. ASSUME NEW r \in Request, BuildConfig(r) PROVE ConfigsAreLoadable'
  <2>1. got' = got
    BY <1>2 DEF BuildConfig
  <2>2. PICK n \in todo[r] : built' = built \/ built' = [built EXCEPT ![r] = ConfigFor(n)]
    BY <1>2 DEF BuildConfig
  <2>3. OneTagEach(ConfigFor(n))
    BY ConfigOneTagEach
  <2>4. ASSUME NEW q \in Request PROVE OneTagEach(built'[q])
    BY <2>2, <2>3 DEF ConfigsAreLoadable, Base, TypeOK
  <2> QED
    BY <2>1, <2>4 DEF ConfigsAreLoadable
<1>3. ASSUME NEW r \in Request, SendConfig(r) PROVE ConfigsAreLoadable'
  <2>1. /\ built' = [built EXCEPT ![r] = {}]
        /\ got' = got \/ got' = [got EXCEPT ![dest[r]] = built[r]]
    BY <1>3 DEF SendConfig
  <2>2. OneTagEach({})
    BY DEF OneTagEach
  <2>3. ASSUME NEW q \in Request PROVE OneTagEach(built'[q])
    BY <2>1, <2>2 DEF ConfigsAreLoadable, Base, TypeOK
  <2>4. ASSUME NEW n \in Node PROVE OneTagEach(got'[n])
    BY <2>1 DEF ConfigsAreLoadable, Base, TypeOK
  <2> QED
    BY <2>3, <2>4 DEF ConfigsAreLoadable
<1>4. CASE Restart
  BY <1>4 DEF Restart, ConfigsAreLoadable, OneTagEach
<1>5. ASSUME NEW r \in Request,
             BeginCreate(r) \/ BeginUpdate(r) \/ BeginToggle(r) \/ BeginPush(r) \/ CheckTag(r)
      PROVE  UNCHANGED <<built, got>>
  BY <1>5 DEF BeginCreate, BeginUpdate, BeginToggle, BeginPush, Begin, CheckTag, GiveUp
<1>6. ASSUME NEW r \in Request, InsertRow(r) \/ SaveRow(r) \/ DeleteRow(r) \/ ListNodes(r) \/ Answer(r)
      PROVE  UNCHANGED <<built, got>>
  BY <1>6 DEF InsertRow, SaveRow, DeleteRow, Write, GiveUp, ListNodes, Answer
<1>7. ASSUME NEW n \in Node, StatusChanges(n) \/ StreamChanges(n) PROVE UNCHANGED <<built, got>>
  BY <1>7 DEF StatusChanges, StreamChanges
<1>8. UNCHANGED vars => UNCHANGED <<built, got>>
  BY DEF vars
<1> QED
  BY <1>1, <1>2, <1>3, <1>4, <1>5, <1>6, <1>7, <1>8 DEF Next, Changing, Pushing

\* No node is ever sent a config that Xray refuses for its tags, though a config may be
\* sent long after the table it was built from has changed.
THEOREM ConfigsStayLoadable == Spec => []ConfigsAreLoadable
<1>1. Init => ConfigsAreLoadable
  BY DEF Init, ConfigsAreLoadable, OneTagEach
<1>2. Base /\ TagsDistinct /\ ConfigsAreLoadable /\ [Next]_vars => ConfigsAreLoadable'
  BY LoadableStep
<1> QED
  BY <1>1, <1>2, BaseHolds, TagsStayDistinct, PTL DEF Spec

-----------------------------------------------------------------------------

\* A deleted inbound that no request is about to save stays deleted.
LEMMA DeletedStep ==
  ASSUME Base, [Next]_vars
  PROVE  DeletedStays
<1> SUFFICES ASSUME NEW i \in Inbound, state[i] = "deleted", NoSavePending(i)
             PROVE  state'[i] = "deleted" /\ NoSavePending(i)'
  BY DEF DeletedStays
<1>1. ASSUME NEW r \in Request, NEW to, NEW j \in Inbound \cup {None}, NEW c,
             Begin(r, to, j, c), j # i
      PROVE  state'[i] = "deleted" /\ NoSavePending(i)'
  BY <1>1 DEF Begin, NoSavePending, Base, TypeOK
<1>2. ASSUME NEW r \in Request, BeginCreate(r) \/ BeginUpdate(r) \/ BeginToggle(r) \/ BeginPush(r)
      PROVE  state'[i] = "deleted" /\ NoSavePending(i)'
  BY <1>1, <1>2 DEF BeginCreate, BeginUpdate, BeginToggle, BeginPush, Found
<1>3. ASSUME NEW r \in Request, GiveUp(r) PROVE state'[i] = "deleted" /\ NoSavePending(i)'
  BY <1>3 DEF GiveUp, NoSavePending, Base, TypeOK
<1>4. ASSUME NEW r \in Request, NEW j \in Inbound, NEW c, Write(r, j, c), j # i
      PROVE  state'[i] = "deleted" /\ NoSavePending(i)'
  BY <1>4 DEF Write, NoSavePending, Base, TypeOK
<1>5. ASSUME NEW r \in Request, InsertRow(r) PROVE state'[i] = "deleted" /\ NoSavePending(i)'
  BY <1>3, <1>4, <1>5 DEF InsertRow
<1>6. ASSUME NEW r \in Request, SaveRow(r) PROVE state'[i] = "deleted" /\ NoSavePending(i)'
  <2>1. target[r] \in Inbound /\ target[r] # i
    BY <1>6 DEF SaveRow, NoSavePending, Base, TypeOK
  <2> QED
    BY <1>3, <1>4, <1>6, <2>1 DEF SaveRow
<1>7. ASSUME NEW r \in Request, DeleteRow(r) PROVE state'[i] = "deleted" /\ NoSavePending(i)'
  BY <1>7 DEF DeleteRow, NoSavePending, Base, TypeOK
<1>8. CASE UNCHANGED <<state, target>>
  BY <1>8 DEF NoSavePending
<1>9. ASSUME NEW r \in Request, CheckTag(r) PROVE state'[i] = "deleted" /\ NoSavePending(i)'
  BY <1>3, <1>8, <1>9 DEF CheckTag
<1>10. ASSUME NEW r \in Request, ListNodes(r) \/ BuildConfig(r) \/ SendConfig(r) \/ Answer(r)
       PROVE  UNCHANGED <<state, target>>
  BY <1>10 DEF ListNodes, BuildConfig, SendConfig, Answer
<1>11. ASSUME NEW n \in Node, StatusChanges(n) \/ StreamChanges(n)
       PROVE  UNCHANGED <<state, target>>
  BY <1>11 DEF StatusChanges, StreamChanges
<1>12. CASE Restart
  BY <1>12 DEF Restart, NoSavePending
<1>13. CASE UNCHANGED vars
  BY <1>8, <1>13 DEF vars
<1> QED
  BY <1>2, <1>5, <1>6, <1>7, <1>8, <1>9, <1>10, <1>11, <1>12, <1>13 DEF Next, Changing, Pushing

\* A deleted inbound comes back only through a request that read it before.
THEOREM DeletionsSettle == Spec => DeletionSettles
<1>1. Base /\ [Next]_vars => [DeletedStays]_vars
  BY DeletedStep
<1> QED
  BY <1>1, BaseHolds, PTL DEF Spec, DeletionSettles

-----------------------------------------------------------------------------

\* Requests one at a time: what is built is what the table says, and so is what was sent.
OneAtATime ==
    /\ \A q, r \in Request : pc[q] # "idle" /\ pc[r] # "idle" => q = r
    /\ \A r \in Request : pc[r] = "send" => built[r] = ConfigFor(dest[r])
    /\ \A n \in Node : reach[n] = "sent" => got[n] = ConfigFor(n)

Patience == patient => OneAtATime

\* A step of the only request in progress that leaves the table and the nodes alone.
LEMMA AloneStep ==
  ASSUME OneAtATime, NEW r \in Request,
         \A q \in Request \ {r} : pc[q] = "idle" /\ pc'[q] = "idle",
         UNCHANGED <<table, got>>,
         \A n \in Node : reach'[n] = "sent" => reach[n] = "sent",
         pc'[r] # "send"
  PROVE  OneAtATime'
BY DEF OneAtATime, ConfigFor, ListForNode

\* A change by the only request in progress makes every node owed, or of no concern.
LEMMA AloneChange ==
  ASSUME OneAtATime, NEW r \in Request,
         \A q \in Request \ {r} : pc[q] = "idle" /\ pc'[q] = "idle",
         reach' = [n \in Node |-> IF Steady(n) THEN "owed" ELSE "none"],
         pc'[r] # "send"
  PROVE  OneAtATime'
BY DEF OneAtATime

\* Patience is kept by every step.
LEMMA PatienceStep ==
  ASSUME Base, Patience, [Next]_vars
  PROVE  Patience'
<1>1. patient' = patient
  BY DEF Next, Changing, Pushing, BeginCreate, BeginUpdate, BeginToggle, BeginPush, Begin,
         CheckTag, InsertRow, SaveRow, Write, GiveUp, DeleteRow, ListNodes, BuildConfig,
         SendConfig, Answer, StatusChanges, StreamChanges, Restart, vars
<1> SUFFICES ASSUME patient, OneAtATime PROVE OneAtATime'
  BY <1>1 DEF Patience
<1>2. ASSUME NEW r \in Request, NEW to \in {"check", "write", "list"}, NEW i, NEW c,
             Begin(r, to, i, c)
      PROVE  OneAtATime'
  <2>1. \A q \in Request : pc[q] = "idle"
    BY <1>2 DEF Begin, MayBegin
  <2>2. pc'[r] = to /\ \A q \in Request \ {r} : pc'[q] = "idle"
    BY <1>2, <2>1 DEF Begin, Base, TypeOK
  <2> QED
    BY <1>2, <2>1, <2>2, AloneStep DEF Begin
<1>3. ASSUME NEW r \in Request, BeginCreate(r) \/ BeginUpdate(r) \/ BeginToggle(r) \/ BeginPush(r)
      PROVE  OneAtATime'
  BY <1>2, <1>3 DEF BeginCreate, BeginUpdate, BeginToggle, BeginPush
<1>4. ASSUME NEW r \in Request, pc[r] # "idle", NEW to, pc' = [pc EXCEPT ![r] = to]
      PROVE  /\ pc'[r] = to
             /\ \A q \in Request \ {r} : pc[q] = "idle" /\ pc'[q] = "idle"
  BY <1>4 DEF OneAtATime, Base, TypeOK
<1>5. ASSUME NEW r \in Request, pc[r] # "idle", GiveUp(r) PROVE OneAtATime'
  <2>1. pc'[r] = "idle" /\ \A q \in Request \ {r} : pc[q] = "idle" /\ pc'[q] = "idle"
    BY <1>4, <1>5 DEF GiveUp
  <2> QED
    BY <1>5, <2>1, AloneStep DEF GiveUp
<1>6. ASSUME NEW r \in Request, CheckTag(r) PROVE OneAtATime'
  <2>1. CASE GiveUp(r)
    BY <1>5, <1>6, <2>1 DEF CheckTag
  <2>2. CASE Goto(r, "check", "write") /\ UNCHANGED <<table, target, held, todo, dest, built, nodes, reach, patient>>
    <3>1. pc'[r] = "write" /\ \A q \in Request \ {r} : pc[q] = "idle" /\ pc'[q] = "idle"
      BY <1>4, <2>2 DEF Goto
    <3> QED
      BY <2>2, <3>1, AloneStep
  <2> QED
    BY <1>6, <2>1, <2>2 DEF CheckTag
<1>7. ASSUME NEW r \in Request, pc[r] # "idle", NEW i, NEW c, Write(r, i, c) PROVE OneAtATime'
  <2>1. pc'[r] = "list" /\ \A q \in Request \ {r} : pc[q] = "idle" /\ pc'[q] = "idle"
    BY <1>4, <1>7 DEF Write, Notify
  <2> QED
    BY <1>7, <2>1, AloneChange DEF Write
<1>8. ASSUME NEW r \in Request, InsertRow(r) \/ SaveRow(r) PROVE OneAtATime'
  BY <1>5, <1>7, <1>8 DEF InsertRow, SaveRow
<1>9. ASSUME NEW r \in Request, DeleteRow(r) PROVE OneAtATime'
  <2>1. pc'[r] = "list" /\ \A q \in Request \ {r} : pc[q] = "idle" /\ pc'[q] = "idle"
    BY <1>9 DEF DeleteRow, MayBegin, Notify, Base, TypeOK
  <2>2. PICK i \in Inbound :
           /\ state' = [state EXCEPT ![i] = IF @ = "live" THEN "deleted" ELSE @]
           /\ reach' = IF state[i] = "live"
                         THEN [n \in Node |-> IF Steady(n) THEN "owed" ELSE "none"]
                         ELSE reach
    BY <1>9 DEF DeleteRow
  <2>3. CASE state[i] = "live"
    BY <2>1, <2>2, <2>3, AloneChange
  <2>4. CASE state[i] # "live"
    <3>1. state' = state /\ reach' = reach
      BY <2>2, <2>4 DEF Base, TypeOK
    <3> QED
      BY <1>9, <2>1, <3>1, AloneStep DEF DeleteRow
  <2> QED
    BY <2>3, <2>4
<1>10. ASSUME NEW r \in Request, ListNodes(r) PROVE OneAtATime'
  <2>1. pc[r] = "list" /\ (pc' = [pc EXCEPT ![r] = "push"] \/ pc' = [pc EXCEPT ![r] = "idle"])
    BY <1>10 DEF ListNodes, Goto
  <2>2. pc'[r] # "send" /\ \A q \in Request \ {r} : pc[q] = "idle" /\ pc'[q] = "idle"
    BY <1>4, <2>1
  <2>3. \A n \in Node : reach'[n] = "sent" => reach[n] = "sent"
    BY <1>10 DEF ListNodes, Logged, Base, TypeOK
  <2> QED
    BY <1>10, <2>2, <2>3, AloneStep DEF ListNodes
<1>11. ASSUME NEW r \in Request, BuildConfig(r) PROVE OneAtATime'
  <2>1. pc[r] = "push" /\ UNCHANGED <<table, nodes>>
    BY <1>11 DEF BuildConfig
  <2>2. \A q \in Request \ {r} : pc[q] = "idle" /\ pc'[q] = "idle"
    BY <1>11, <2>1 DEF BuildConfig, Goto, OneAtATime, Base, TypeOK
  <2>3. \A n : ConfigFor(n)' = ConfigFor(n)
    BY <2>1 DEF ConfigFor, ListForNode
  <2>4. \A n \in Node : reach'[n] = "sent" => reach[n] = "sent"
    BY <1>11 DEF BuildConfig, Logged, Base, TypeOK
  <2>5. pc'[r] = "send" => built'[r] = ConfigFor(dest'[r])
    BY <1>11, <2>1 DEF BuildConfig, Goto, Base, TypeOK
  <2> QED
    BY <2>1, <2>2, <2>3, <2>4, <2>5 DEF OneAtATime
<1>12. ASSUME NEW r \in Request, SendConfig(r) PROVE OneAtATime'
  <2>1. /\ pc[r] = "send" /\ pc'[r] = "push"
        /\ \A q \in Request \ {r} : pc[q] = "idle" /\ pc'[q] = "idle"
    BY <1>4, <1>12 DEF SendConfig, Goto
  <2>2. \A n : ConfigFor(n)' = ConfigFor(n)
    BY <1>12 DEF SendConfig, ConfigFor, ListForNode
  <2>3. dest[r] \in Node /\ built[r] = ConfigFor(dest[r])
    BY <2>1 DEF OneAtATime, Base, Known
  <2>4. \A n \in Node : reach'[n] = "sent" => got'[n] = ConfigFor(n)
    BY <1>12, <2>3 DEF SendConfig, Logged, OneAtATime, Base, TypeOK
  <2> QED
    BY <2>1, <2>2, <2>4 DEF OneAtATime
<1>13. ASSUME NEW r \in Request, Answer(r) PROVE OneAtATime'
  <2>1. pc'[r] = "idle" /\ \A q \in Request \ {r} : pc[q] = "idle" /\ pc'[q] = "idle"
    BY <1>4, <1>13 DEF Answer, Goto
  <2> QED
    BY <1>13, <2>1, AloneStep DEF Answer
<1>14. ASSUME NEW n \in Node, StatusChanges(n) \/ StreamChanges(n) PROVE OneAtATime'
  <2>1. UNCHANGED <<table, work, got>> /\ \A m \in Node : reach'[m] = "sent" => reach[m] = "sent"
    BY <1>14 DEF StatusChanges, StreamChanges, Missed, Base, TypeOK
  <2> QED
    BY <2>1 DEF OneAtATime, ConfigFor, ListForNode
<1>15. CASE Restart
  BY <1>15 DEF Restart, OneAtATime
<1>16. CASE UNCHANGED vars
  BY <1>16 DEF vars, OneAtATime, ConfigFor, ListForNode
<1> QED
  BY <1>3, <1>6, <1>8, <1>9, <1>10, <1>11, <1>12, <1>13, <1>14, <1>15, <1>16
    DEF Next, Changing, Pushing

\* Operators who wait for answers find the nodes with the config of the table.
THEOREM PatientIsCurrent == Spec => []PatientNodesAreCurrent
<1>1. Init => Patience
  BY DEF Init, Patience, OneAtATime
<1>2. Base /\ Patience /\ [Next]_vars => Patience'
  BY PatienceStep
<1>3. Base /\ Patience /\ OwedIsComing => PatientNodesAreCurrent
  BY DEF Base, TypeOK, Patience, OneAtATime, OwedIsComing, WillReach, PatientNodesAreCurrent, Quiescent
<1> QED
  BY <1>1, <1>2, <1>3, BaseHolds, OwedHolds, PTL DEF Spec

=============================================================================
