------------------------- MODULE NodeBroadcastProofs -------------------------
(***************************************************************************)
(* Proofs about NodeBroadcast, for all bounds.  What the page ends with is *)
(* a matter of fairness and left to TLC; these are the facts the argument  *)
(* for it rests on: the bags hold what the bounds allow, a write is only   *)
(* under way to a client in the map, and a WebSocket that is up is the one *)
(* the page listens to and the hub knows or is about to know.              *)
(***************************************************************************)
EXTENDS NodeBroadcast, TLAPS

USE BoundsAssumption DEF Link, NoLink, Status, Health, calls, hub, dashboard

-----------------------------------------------------------------------------
\* Bags of lists.

Bag == [Status -> Nat]

\* The empty bag is one.
LEMMA EmptyBag == Empty \in Bag /\ Size(Empty) = 0
  BY DEF Empty, Bag, Size

\* Adding a list adds one to the size, taking one out takes one away, and no
\* list is there more often than all together.
LEMMA BagSizes ==
  ASSUME NEW b \in Bag, NEW x \in Status
  PROVE  /\ Size(b) \in Nat /\ b[x] <= Size(b)
         /\ With(b, x) \in Bag /\ Size(With(b, x)) = Size(b) + 1
         /\ b[x] > 0 => Without(b, x) \in Bag /\ Size(Without(b, x)) = Size(b) - 1
<1>1. b["online"] \in Nat /\ b["offline"] \in Nat /\ b["absent"] \in Nat
  BY DEF Bag
<1>2. Size(b) \in Nat /\ b[x] <= Size(b)
  BY <1>1 DEF Size
<1>3. With(b, x) \in Bag
  BY DEF Bag, With
<1>4. Size(With(b, x)) = Size(b) + 1
  <2>1. \A y \in Status : With(b, x)[y] = IF y = x THEN b[y] + 1 ELSE b[y]
    BY DEF Bag, With
  <2> QED
    BY <1>1, <2>1 DEF Size
<1>5. ASSUME b[x] > 0 PROVE Without(b, x) \in Bag /\ Size(Without(b, x)) = Size(b) - 1
  <2>1. \A y \in Status : Without(b, x)[y] = IF y = x THEN b[y] - 1 ELSE b[y]
    BY DEF Bag, Without
  <2>2. Without(b, x) \in Bag
    <3>1. b[x] - 1 \in Nat
      BY <1>5 DEF Bag
    <3> QED
      BY <3>1 DEF Bag, Without
  <2> QED
    BY <1>1, <2>1, <2>2 DEF Size
<1> QED
  BY <1>2, <1>3, <1>4, <1>5

\* A bag no larger than a bound has no list more often than that.
LEMMA BagBound ==
  ASSUME NEW b \in Bag, NEW N \in Nat, Size(b) <= N
  PROVE  b \in [Status -> 0..N]
<1>1. ASSUME NEW x \in Status PROVE b[x] \in 0..N
  <2>1. Size(b) \in Nat /\ b[x] <= Size(b)
    BY BagSizes
  <2>2. b[x] \in Nat
    BY DEF Bag
  <2> QED
    BY <2>1, <2>2
<1> QED
  BY <1>1 DEF Bag

-----------------------------------------------------------------------------
\* The inductive invariant.

Types ==
    /\ row \in Status /\ shown \in Status
    /\ notified \in Nat /\ asked \in Nat
    /\ listed \in Bag /\ answers \in Bag /\ writes \in [Link -> Bag]
    /\ handler \in [Link -> {"none", "upgraded", "registered"}]
    /\ health \in [Link -> Health]
    /\ ws \in Link \cup {NoLink}
    /\ opened \in BOOLEAN /\ polling \in BOOLEAN
    /\ faults \in 0..MaxFaults

InBounds ==
    /\ Calls <= MaxCalls
    /\ Fetches <= MaxFetches
    /\ \A l \in Link : Size(writes[l]) <= MaxWrites

\* A WebSocket that is up is the page's, and Accept has it: no list is broadcast to
\* anybody else without failing, and none that can be broadcast misses the page.
UpIsServed == \A l \in Link : health[l] = "up" => ws = l /\ handler[l] # "none"

\* What is being written is on its way to a client in the map.
WritesToClients == \A l \in Link : writes[l] # Empty => handler[l] = "registered" /\ l \in Writable

IInv == Types /\ InBounds /\ UpIsServed /\ WritesToClients

\* The types of the specification follow.
LEMMA TypesFollow == Types /\ InBounds => TypeOK
<1> SUFFICES ASSUME Types, InBounds PROVE TypeOK
  OBVIOUS
<1>1. listed \in [Status -> 0..MaxCalls] /\ notified \in 0..MaxCalls
  <2>1. Size(listed) \in Nat
    BY BagSizes DEF Types
  <2>2. Size(listed) <= MaxCalls /\ notified <= MaxCalls
    BY <2>1 DEF Types, InBounds, Calls
  <2> QED
    BY <2>2, BagBound DEF Types
<1>2. answers \in [Status -> 0..MaxFetches] /\ asked \in 0..MaxFetches
  <2>1. Size(answers) \in Nat
    BY BagSizes DEF Types
  <2>2. Size(answers) <= MaxFetches /\ asked <= MaxFetches
    BY <2>1 DEF Types, InBounds, Fetches
  <2> QED
    BY <2>2, BagBound DEF Types
<1>3. writes \in [Link -> [Status -> 0..MaxWrites]]
  <2>1. \A l \in Link : writes[l] \in [Status -> 0..MaxWrites]
    BY BagBound DEF Types, InBounds
  <2> QED
    BY <2>1 DEF Types
<1> QED
  BY <1>1, <1>2, <1>3 DEF Types, TypeOK

-----------------------------------------------------------------------------
\* One lemma per part of the program.

\* The register and its callbacks.
LEMMA RegisterStep == IInv /\ RegisterActs => IInv'
<1> SUFFICES ASSUME IInv, RegisterActs PROVE IInv'
  OBVIOUS
<1> USE DEF IInv, Types
<1>1. UpIsServed' /\ WritesToClients' /\ (\A l \in Link : Size(writes[l]) <= MaxWrites)' /\ (Fetches <= MaxFetches)'
  BY DEF RegisterActs, Report, MarkOffline, Delete, ChangeTo, ChangeQuietly, ListNodes, ListFails,
     UpIsServed, WritesToClients, Writable, InBounds, Fetches, Fault
<1>2. CASE Report \/ MarkOffline \/ Delete
  <2>1. Types'
    BY <1>2 DEF Report, MarkOffline, Delete, ChangeTo, LiveRow
  <2>3. Calls \in Nat
    BY BagSizes DEF Calls
  <2>2. Calls' = Calls + 1 /\ Calls < MaxCalls
    <3>1. listed' = listed /\ notified' = notified + 1 /\ Calls < MaxCalls
      BY <1>2 DEF Report, MarkOffline, Delete, ChangeTo
    <3>2. Size(listed) \in Nat
      BY BagSizes
    <3> QED
      BY <3>1, <3>2 DEF Calls
  <2> QED
    BY <1>1, <2>1, <2>2, <2>3 DEF InBounds
<1>3. CASE ChangeQuietly
  BY <1>1, <1>3 DEF ChangeQuietly, InBounds, Calls
<1>4. CASE ListNodes
  <2>1. With(listed, row) \in Bag /\ Size(With(listed, row)) = Size(listed) + 1 /\ Size(listed) \in Nat
    BY BagSizes
  <2> QED
    BY <1>1, <1>4, <2>1 DEF ListNodes, InBounds, Calls
<1>5. CASE ListFails
  <2>1. Size(listed) \in Nat
    BY BagSizes
  <2> QED
    BY <1>1, <1>5, <2>1 DEF ListFails, InBounds, Calls, Fault
<1> QED
  BY <1>2, <1>3, <1>4, <1>5 DEF RegisterActs

\* The hub.
LEMMA HubStep == IInv /\ HubActs => IInv'
<1> SUFFICES ASSUME IInv, HubActs PROVE IInv'
  OBVIOUS
<1> USE DEF IInv, Types
<1>1. ASSUME NEW x \in Status, Broadcast(x) PROVE IInv'
  <2>1. Without(listed, x) \in Bag /\ Size(listed') = Size(listed) - 1 /\ Size(listed) \in Nat
    BY <1>1, BagSizes DEF Broadcast
  <2>2. ASSUME NEW l \in Link PROVE writes'[l] \in Bag /\ Size(writes'[l]) <= MaxWrites
    <3>1. CASE l \in Recipients
      <4>1. writes'[l] = With(writes[l], x) /\ Size(writes[l]) < MaxWrites
        BY <1>1, <3>1 DEF Broadcast
      <4>2. Size(writes[l]) \in Nat /\ With(writes[l], x) \in Bag
            /\ Size(With(writes[l], x)) = Size(writes[l]) + 1
        BY BagSizes
      <4> QED
        BY <4>1, <4>2
    <3>2. CASE l \notin Recipients
      <4>1. writes'[l] = writes[l]
        BY <1>1, <3>2 DEF Broadcast
      <4> QED
        BY <4>1 DEF InBounds
    <3> QED
      BY <3>1, <3>2
  <2>3. \A l \in Link : writes'[l] # Empty => writes[l] # Empty \/ l \in Recipients
    BY <1>1 DEF Broadcast
  <2>4. Types'
    BY <1>1, <2>1, <2>2 DEF Broadcast
  <2>5. InBounds'
    BY <1>1, <2>1, <2>2 DEF Broadcast, InBounds, Calls, Fetches
  <2>6. UpIsServed' /\ WritesToClients'
    BY <1>1, <2>3 DEF Broadcast, UpIsServed, WritesToClients, Recipients, Clients, Writable
  <2> QED
    BY <2>4, <2>5, <2>6
<1>2. ASSUME NEW l \in Link, NEW x \in Status, Write(l, x) PROVE IInv'
  <2>1. writes[l] # Empty
    BY <1>2 DEF Write, Empty
  <2>2. Without(writes[l], x) \in Bag /\ Size(Without(writes[l], x)) = Size(writes[l]) - 1
        /\ Size(writes[l]) \in Nat
    BY <1>2, BagSizes DEF Write
  <2>3. Types'
    BY <1>2, <2>2 DEF Write
  <2>4. InBounds'
    BY <1>2, <2>2 DEF Write, InBounds, Calls, Fetches
  <2>5. UpIsServed' /\ WritesToClients'
    BY <1>2, <2>1 DEF Write, UpIsServed, WritesToClients, Writable
  <2> QED
    BY <2>3, <2>4, <2>5
<1>3. ASSUME NEW l \in Link, WriteTimesOut(l) \/ Break(l) PROVE IInv'
  <2>1. Types'
    BY <1>3, EmptyBag DEF WriteTimesOut, FailAndCancel, Break, Over, Fault
  <2>2. InBounds'
    BY <1>3, EmptyBag DEF WriteTimesOut, FailAndCancel, Break, Over, InBounds, Calls, Fetches
  <2>3. UpIsServed' /\ WritesToClients'
    BY <1>3 DEF WriteTimesOut, FailAndCancel, Break, Over, UpIsServed, WritesToClients, Writable
  <2> QED
    BY <2>1, <2>2, <2>3
<1>4. ASSUME NEW l \in Link, RegisterClient(l) \/ RemoveClient(l) PROVE IInv'
  <2>1. Types' /\ InBounds'
    BY <1>4 DEF RegisterClient, RemoveClient, InBounds, Calls, Fetches
  <2>2. UpIsServed' /\ WritesToClients'
    BY <1>4 DEF RegisterClient, RemoveClient, UpIsServed, WritesToClients, Writable
  <2> QED
    BY <2>1, <2>2
<1> QED
  BY <1>1, <1>2, <1>3, <1>4 DEF HubActs

\* A restart of the panel leaves nothing of the hub.
LEMMA RestartStep == IInv /\ Restart => IInv'
<1> SUFFICES ASSUME IInv, Restart PROVE IInv'
  OBVIOUS
<1> USE DEF IInv, Types
<1>1. Types'
  BY EmptyBag DEF Restart, LiveRow, Fault
<1>2. InBounds'
  <2>1. Size(answers) \in Nat /\ Size(answers) <= MaxFetches
    BY BagSizes DEF InBounds, Fetches
  <2>2. Calls' = 0 /\ Fetches' = Size(answers)
    BY <2>1, EmptyBag DEF Restart, Calls, Fetches
  <2>3. (\A l \in Link : Size(writes[l]) <= MaxWrites)'
    BY EmptyBag DEF Restart
  <2> QED
    BY <2>1, <2>2, <2>3 DEF InBounds
<1>3. UpIsServed' /\ WritesToClients'
  BY DEF Restart, UpIsServed, WritesToClients
<1> QED
  BY <1>1, <1>2, <1>3

\* The page.
LEMMA DashboardStep == IInv /\ DashboardActs => IInv'
<1> SUFFICES ASSUME IInv, DashboardActs PROVE IInv'
  OBVIOUS
<1> USE DEF IInv, Types
<1>1. CASE Connect
  <2>1. PICK l \in Link : /\ handler[l] = "none" /\ ws' = l
                          /\ handler' = [handler EXCEPT ![l] = "upgraded"]
                          /\ health' = [health EXCEPT ![l] = "up"]
    BY <1>1 DEF Connect
  <2>2. \A k \in Link : health[k] # "up"
    BY <1>1 DEF Connect, UpIsServed
  <2>3. Types'
    BY <1>1, <2>1 DEF Connect
  <2>4. InBounds'
    BY <1>1 DEF Connect, InBounds, Calls, Fetches
  <2>5. UpIsServed'
    BY <2>1, <2>2 DEF UpIsServed
  <2>6. WritesToClients'
    BY <1>1, <2>1 DEF Connect, WritesToClients, Writable
  <2> QED
    BY <2>3, <2>4, <2>5, <2>6
<1>2. CASE OnOpen \/ Poll
  <2>1. Types'
    <3>1. asked' \in Nat
      BY <1>2 DEF OnOpen, Poll
    <3>2. opened' \in BOOLEAN /\ polling' \in BOOLEAN
      BY <1>2, Zenon DEF OnOpen, Poll
    <3>3. UNCHANGED <<row, shown, notified, listed, answers, writes, handler, health, ws, faults>>
      BY <1>2 DEF OnOpen, Poll
    <3> QED
      BY <3>1, <3>2, <3>3
  <2>2. UpIsServed' /\ WritesToClients'
    BY <1>2 DEF OnOpen, Poll, UpIsServed, WritesToClients, Writable
  <2>3. Fetches' <= MaxFetches
    <3>1. asked' = asked + 1 /\ answers' = answers /\ Fetches < MaxFetches
      BY <1>2 DEF OnOpen, Poll
    <3>2. Size(answers) \in Nat
      BY BagSizes
    <3> QED
      BY <3>1, <3>2 DEF Fetches
  <2>4. InBounds'
    BY <1>2, <2>3 DEF OnOpen, Poll, InBounds, Calls
  <2> QED
    BY <2>1, <2>2, <2>4
<1>3. CASE OnClose
  BY <1>3 DEF OnClose, InBounds, Calls, Fetches, UpIsServed, WritesToClients, Writable
<1>4. CASE AnswerFetch
  <2>1. With(answers, row) \in Bag /\ Size(With(answers, row)) = Size(answers) + 1 /\ Size(answers) \in Nat
    BY BagSizes
  <2> QED
    BY <1>4, <2>1 DEF AnswerFetch, InBounds, Calls, Fetches, UpIsServed, WritesToClients, Writable
<1>5. CASE FetchFails
  <2>1. Size(answers) \in Nat
    BY BagSizes
  <2> QED
    BY <1>5, <2>1 DEF FetchFails, InBounds, Calls, Fetches, UpIsServed, WritesToClients, Writable, Fault
<1>6. ASSUME NEW x \in Status, ShowAnswer(x) PROVE IInv'
  <2>1. Without(answers, x) \in Bag /\ Size(Without(answers, x)) = Size(answers) - 1 /\ Size(answers) \in Nat
    BY <1>6, BagSizes DEF ShowAnswer
  <2> QED
    BY <1>6, <2>1 DEF ShowAnswer, InBounds, Calls, Fetches, UpIsServed, WritesToClients, Writable
<1> QED
  BY <1>1, <1>2, <1>3, <1>4, <1>5, <1>6 DEF DashboardActs

\* The bounds, and who serves and is served, hold at every moment.
THEOREM Inductive == Spec => []IInv
<1>1. Init => IInv
  <2> SUFFICES ASSUME Init PROVE IInv
    OBVIOUS
  <2>1. Types
    <3>1. writes \in [Link -> Bag] /\ listed \in Bag /\ answers \in Bag
      BY EmptyBag DEF Init
    <3>2. handler \in [Link -> {"none", "upgraded", "registered"}] /\ health \in [Link -> Health]
      BY DEF Init
    <3>3. opened \in BOOLEAN /\ polling \in BOOLEAN
      BY Zenon DEF Init
    <3>4. /\ row \in Status /\ shown \in Status /\ notified \in Nat /\ asked \in Nat
          /\ ws \in Link \cup {NoLink} /\ faults \in 0..MaxFaults
      BY DEF Init
    <3> QED
      BY <3>1, <3>2, <3>3, <3>4 DEF Types
  <2>2. Calls = 0 /\ Fetches = 1
    BY EmptyBag DEF Init, Calls, Fetches
  <2>3. InBounds
    BY EmptyBag, <2>2 DEF Init, InBounds
  <2> QED
    BY <2>1, <2>3 DEF Init, IInv, UpIsServed, WritesToClients
<1>2. IInv /\ [Next]_vars => IInv'
  <2> SUFFICES ASSUME IInv, [Next]_vars PROVE IInv'
    OBVIOUS
  <2>1. CASE UNCHANGED vars
    BY <2>1 DEF vars, IInv, Types, InBounds, Calls, Fetches, UpIsServed, WritesToClients, Writable
  <2> QED
    BY <2>1, RegisterStep, HubStep, RestartStep, DashboardStep DEF Next
<1> QED
  BY <1>1, <1>2, PTL DEF Spec

-----------------------------------------------------------------------------

\* Every reachable state of calls, hub and page is well typed and within the bounds.
THEOREM TypeCorrect == Spec => []TypeOK
  BY Inductive, TypesFollow, PTL DEF IInv

\* A page whose WebSocket is up is never left out: Accept has its WebSocket, and every
\* broadcast after RegisterClient goes to it.
THEOREM UpPagesAreServed == Spec => []UpIsServed
  BY Inductive, PTL DEF IInv

-----------------------------------------------------------------------------
(***************************************************************************)
(* Lists that say something else than the row, while the row stays.        *)
(***************************************************************************)

\* What adding and taking a list does to the others.
LEMMA BagEntries ==
  ASSUME NEW b \in Bag, NEW x \in Status, NEW y \in Status
  PROVE  /\ b[y] \in Nat
         /\ With(b, x)[y] = IF y = x THEN b[y] + 1 ELSE b[y]
         /\ Without(b, x)[y] = IF y = x THEN b[y] - 1 ELSE b[y]
         /\ Empty[y] = 0
  BY DEF Bag, With, Without, Empty

\* Steps that leave lists, answers and page alone and add to no write.
LEMMA NothingShown ==
  ASSUME IInv, UNCHANGED <<answers, shown>>,
         \A x \in Status \ {row} : listed'[x] <= listed[x],
         \A l \in Link : writes'[l] = writes[l] \/ writes'[l] = Empty
  PROVE  StaleIsUsedUp
<1>1. \A x \in Status : answers[x] \in Nat /\ \A l \in Link : writes[l][x] \in Nat
  BY BagEntries DEF IInv, Types
<1>2. \A x \in Status : answers'[x] <= answers[x]
  BY <1>1
<1>3. ASSUME NEW x \in Status, NEW l \in Link PROVE ~(writes'[l][x] > writes[l][x])
  <2>1. Empty[x] = 0 /\ writes[l][x] \in Nat
    BY BagEntries, EmptyBag DEF IInv, Types
  <2>2. writes'[l][x] = writes[l][x] \/ writes'[l][x] = 0
    BY <2>1
  <2> QED
    BY <2>1, <2>2
<1> QED
  BY <1>2, <1>3 DEF StaleIsUsedUp

\* The register lists the row as it is.
LEMMA RegisterUsesUp == IInv /\ RegisterActs => StaleIsUsedUp
<1> SUFFICES ASSUME IInv, RegisterActs PROVE StaleIsUsedUp
  OBVIOUS
<1>1. \A x \in Status \ {row} : listed'[x] <= listed[x]
  <2> SUFFICES ASSUME NEW x \in Status \ {row} PROVE listed'[x] <= listed[x]
    OBVIOUS
  <2>1. listed[x] \in Nat /\ With(listed, row)[x] = listed[x]
    BY BagEntries DEF IInv, Types
  <2>2. listed' = listed \/ listed' = With(listed, row)
    BY DEF RegisterActs, Report, MarkOffline, Delete, ChangeTo, ChangeQuietly, ListNodes, ListFails
  <2> QED
    BY <2>1, <2>2
<1>2. UNCHANGED <<answers, shown, writes>>
  BY DEF RegisterActs, Report, MarkOffline, Delete, ChangeTo, ChangeQuietly, ListNodes, ListFails
<1> QED
  BY <1>1, <1>2, NothingShown

\* The hub gives one list up for what it starts to write, and a write that gets
\* through is over.
LEMMA HubUsesUp == IInv /\ HubActs => StaleIsUsedUp
<1> SUFFICES ASSUME IInv, HubActs PROVE StaleIsUsedUp
  OBVIOUS
<1>1. \A x \in Status : listed[x] \in Nat /\ answers[x] \in Nat /\ \A l \in Link : writes[l][x] \in Nat
  BY BagEntries DEF IInv, Types
<1>2. ASSUME NEW y \in Status, Broadcast(y) PROVE StaleIsUsedUp
  <2>1. \A x \in Status : listed'[x] = IF x = y THEN listed[x] - 1 ELSE listed[x]
    BY <1>2, BagEntries DEF Broadcast, IInv, Types
  <2>2. ASSUME NEW l \in Link, NEW x \in Status, x # y PROVE writes'[l][x] = writes[l][x]
    <3>1. writes'[l] = With(writes[l], y) \/ writes'[l] = writes[l]
      BY <1>2 DEF Broadcast
    <3>2. With(writes[l], y)[x] = writes[l][x]
      BY <2>2, BagEntries DEF IInv, Types
    <3> QED
      BY <3>1, <3>2
  <2>3. answers' = answers /\ shown' = shown
    BY <1>2 DEF Broadcast
  <2> QED
    BY <1>1, <2>1, <2>2, <2>3 DEF StaleIsUsedUp
<1>3. ASSUME NEW l \in Link, NEW y \in Status, Write(l, y) PROVE StaleIsUsedUp
  <2>1. \A k \in Link, x \in Status :
            writes'[k][x] = IF k = l /\ x = y THEN writes[k][x] - 1 ELSE writes[k][x]
    BY <1>3, BagEntries DEF Write, IInv, Types
  <2>2. listed' = listed /\ answers' = answers /\ (shown' = y \/ shown' = shown)
    BY <1>3 DEF Write
  <2> QED
    BY <1>1, <2>1, <2>2 DEF StaleIsUsedUp
<1>4. ASSUME NEW l \in Link, WriteTimesOut(l) \/ RegisterClient(l) \/ RemoveClient(l) \/ Break(l)
      PROVE  StaleIsUsedUp
  <2>1. \A k \in Link : writes'[k] = writes[k] \/ writes'[k] = Empty
    BY <1>4 DEF WriteTimesOut, FailAndCancel, RegisterClient, RemoveClient, Break, Over, IInv, Types
  <2>2. UNCHANGED <<answers, shown, listed>>
    BY <1>4 DEF WriteTimesOut, FailAndCancel, RegisterClient, RemoveClient, Break
  <2> QED
    BY <1>1, <2>1, <2>2, NothingShown
<1> QED
  BY <1>2, <1>3, <1>4 DEF HubActs

\* The page is answered with the row as it is.
LEMMA DashboardUsesUp == IInv /\ DashboardActs => StaleIsUsedUp
<1> SUFFICES ASSUME IInv, DashboardActs PROVE StaleIsUsedUp
  OBVIOUS
<1>1. \A x \in Status : listed[x] \in Nat /\ answers[x] \in Nat /\ \A l \in Link : writes[l][x] \in Nat
  BY BagEntries DEF IInv, Types
<1>2. listed' = listed /\ writes' = writes
  BY DEF DashboardActs, Connect, OnOpen, OnClose, Poll, AnswerFetch, FetchFails, ShowAnswer
<1>3. CASE Connect \/ OnOpen \/ OnClose \/ Poll \/ FetchFails
  BY <1>1, <1>2, <1>3, NothingShown DEF Connect, OnOpen, OnClose, Poll, FetchFails
<1>4. CASE AnswerFetch
  <2>1. \A x \in Status \ {row} : answers'[x] = answers[x]
    BY <1>4, BagEntries DEF AnswerFetch, IInv, Types
  <2> QED
    BY <1>1, <1>2, <1>4, <2>1 DEF AnswerFetch, StaleIsUsedUp
<1>5. ASSUME NEW y \in Status, ShowAnswer(y) PROVE StaleIsUsedUp
  <2>1. \A x \in Status : answers'[x] = IF x = y THEN answers[x] - 1 ELSE answers[x]
    BY <1>5, BagEntries DEF ShowAnswer, IInv, Types
  <2> QED
    BY <1>1, <1>2, <1>5, <2>1 DEF ShowAnswer, StaleIsUsedUp
<1> QED
  BY <1>3, <1>4, <1>5 DEF DashboardActs

\* A restart loses what the panel had to send.
LEMMA RestartUsesUp == IInv /\ Restart => StaleIsUsedUp
<1> SUFFICES ASSUME IInv, Restart PROVE StaleIsUsedUp
  OBVIOUS
<1>1. \A x \in Status : listed'[x] <= listed[x]
  BY BagEntries, EmptyBag DEF Restart, IInv, Types
<1>2. UNCHANGED <<answers, shown>> /\ \A l \in Link : writes'[l] = Empty
  BY DEF Restart
<1> QED
  BY <1>1, <1>2, NothingShown

\* Between two changes of the node the hub, OnChange and the page only use up what is
\* out of date, whatever breaks: the measure by which StableStatusIsShown holds.
THEOREM StaleRunsOut == Spec => StaleListsRunOut
<1>1. IInv /\ [Next]_vars => [StaleIsUsedUp]_vars
  BY RegisterUsesUp, HubUsesUp, DashboardUsesUp, RestartUsesUp DEF Next
<1> QED
  BY <1>1, Inductive, PTL DEF Spec, StaleListsRunOut

\* Nothing that is out of date is on its way, and the page shows the row.
Fresh ==
    /\ shown = row
    /\ \A x \in Status \ {row} :
           listed[x] = 0 /\ answers[x] = 0 /\ \A l \in Link : writes[l][x] = 0

\* Once that is so, the page shows the row until the row changes: no message in
\* flight, no write and no fetch brings an older list back.
THEOREM FreshStays == Spec => [][Fresh => Fresh' \/ row' # row]_vars
<1>1. IInv /\ IInv' /\ [Next]_vars => [Fresh => Fresh' \/ row' # row]_vars
  <2> SUFFICES ASSUME IInv, IInv', [Next]_vars, Fresh, row' = row PROVE Fresh'
    OBVIOUS
  <2>1. StaleIsUsedUp \/ UNCHANGED vars
    BY RegisterUsesUp, HubUsesUp, DashboardUsesUp, RestartUsesUp DEF Next
  <2>2. \A x \in Status : /\ listed'[x] \in Nat /\ answers'[x] \in Nat
                          /\ \A l \in Link : writes'[l][x] \in Nat
    <3>1. listed' \in Bag /\ answers' \in Bag /\ writes' \in [Link -> Bag]
      BY DEF IInv, Types
    <3> QED
      BY <3>1 DEF Bag
  <2>3. CASE UNCHANGED vars
    BY <2>3 DEF vars, Fresh
  <2>4. CASE StaleIsUsedUp
    <3>1. ASSUME NEW x \in Status \ {row}
          PROVE  listed'[x] = 0 /\ answers'[x] = 0 /\ shown' # x /\ \A l \in Link : writes'[l][x] = 0
      BY <2>2, <2>4, <3>1 DEF Fresh, StaleIsUsedUp
    <3> QED
      BY <3>1 DEF Fresh, IInv, Types
  <2> QED
    BY <2>1, <2>3, <2>4
<1> QED
  BY <1>1, Inductive, PTL DEF Spec

=============================================================================
