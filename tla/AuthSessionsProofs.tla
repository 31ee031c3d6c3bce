-------------------------- MODULE AuthSessionsProofs --------------------------
(***************************************************************************)
(* Proofs about AuthSessions, for any number of logins and requests, any   *)
(* passwords, names and lengths of sessions.                               *)
(***************************************************************************)
EXTENDS AuthSessions, TLAPS

(***************************************************************************)
(* Types.  TypeOK alone is not inductive: what a request saves must be     *)
(* what it was asked for, never Keep or TooShort.                          *)
(***************************************************************************)

\* A request is where its wish has sent it.
WishesFit ==
    \A r \in Request :
        /\ pc[r] \in {"check", "save", "drop"} => want[r].password \in Password
        /\ pc[r] \in {"read", "rename"} => want[r].name \in Name
        /\ pc[r] \in {"duration", "apply"} => want[r].duration \in Durations

Base == TypeOK /\ WishesFit

\* What may be asked for is a wish, and the handler begins where it is fulfilled.
LEMMA AskedIsWish ==
  ASSUME TypeOK, NEW w \in Asked
  PROVE  /\ w \in Wish
         /\ Entry(w) \in {"check", "read", "duration"}
         /\ Entry(w) = "check" => w.password \in Password
         /\ Entry(w) = "read" => w.name \in Name
         /\ Entry(w) = "duration" => w.duration \in Durations
BY AccountAssumption DEF Asked, Wish, Entry, TypeOK, Row

\* What is known stays a set of names and a set of passwords.
LEMMA KnownTyped ==
  ASSUME TypeOK, NEW names, NEW passwords, Known(names, passwords)
  PROVE  known' \in [names : SUBSET Name, passwords : SUBSET Password]
BY DEF TypeOK, Known

LEMMA BaseInit == Init => Base
BY AccountAssumption, SessionAssumption
   DEF Init, Base, TypeOK, WishesFit, Row, Wish, Nothing, Admin

LEMMA BaseNext == Base /\ [Next]_vars => Base'
<1> SUFFICES ASSUME Base, [Next]_vars PROVE Base'
  OBVIOUS
<1> USE AccountAssumption, SessionAssumption
        DEF Base, TypeOK, WishesFit, Row, Wish, Nothing, Admin, account, logins, lengths, requests
<1>1. CASE Tick
  BY <1>1 DEF Tick
<1>2. CASE Restart
  BY <1>2 DEF Restart, InitialDuration
<1>3. ASSUME NEW t \in Token, Verify(t) \/ Draw(t) \/ InsertSession(t) \/ EndSession(t)
      PROVE  Base'
  <2>1. CASE Verify(t)
    BY <2>1 DEF Verify, LoginStep
  <2>2. CASE Draw(t)
    <3>1. now + duration \in Nat
      OBVIOUS
    <3> QED
      BY <2>2, <3>1 DEF Draw, LoginStep
  <2>3. CASE InsertSession(t)
    BY <2>3 DEF InsertSession, LoginStep
  <2>4. CASE EndSession(t)
    BY <2>4 DEF EndSession
  <2> QED
    BY <1>3, <2>1, <2>2, <2>3, <2>4
<1>4. ASSUME NEW r \in Request, RequestStep(r)
      PROVE  Base'
  <2>1. CASE CheckPassword(r)
    BY <2>1 DEF CheckPassword, Goto
  <2>2. CASE RefusePassword(r)
    BY <2>2 DEF RefusePassword, Goto, Forget
  <2>3. CASE SavePassword(r)
    BY <2>3 DEF SavePassword, Goto
  <2>4. CASE DropSessions(r)
    <3>1. known' \in [names : SUBSET Name, passwords : SUBSET Password]
      BY <2>4, KnownTyped DEF DropSessions
    <3>2. CASE want[r].name \in Name /\ Goto(r, "drop", "read") /\ UNCHANGED <<want, held>>
               /\ doomed' = [doomed EXCEPT ![r] = {}]
      BY <2>4, <3>1, <3>2 DEF DropSessions, Dropped, Goto
    <3>3. CASE Goto(r, "drop", "idle") /\ Forget(r)
      BY <2>4, <3>1, <3>3 DEF DropSessions, Dropped, Goto, Forget
    <3> QED
      BY <2>4, <3>2, <3>3 DEF DropSessions
  <2>5. CASE ReadRow(r)
    BY <2>5 DEF ReadRow, RowNow, Goto
  <2>6. CASE SaveName(r)
    BY <2>6, KnownTyped DEF SaveName, Goto, Forget
  <2>7. CASE SaveDuration(r)
    BY <2>7 DEF SaveDuration, Goto
  <2>8. CASE ApplyDuration(r)
    BY <2>8 DEF ApplyDuration, Goto, Forget
  <2>9. CASE \E from \in {"check", "save", "drop", "read", "rename", "duration"} : Fail(r, from)
    BY <2>9 DEF Fail, Goto, Forget
  <2> QED
    BY <1>4, <2>1, <2>2, <2>3, <2>4, <2>5, <2>6, <2>7, <2>8, <2>9 DEF RequestStep
<1>5. ASSUME NEW r \in Request, NEW t \in Token, Begin(r, t)
      PROVE  Base'
  <2> PICK w \in Asked : /\ Goto(r, "idle", Entry(w))
                         /\ want' = [want EXCEPT ![r] = w]
                         /\ Known(known.names \cup {w.name}, known.passwords \cup {w.password})
    BY <1>5 DEF Begin
  <2>1. known' \in [names : SUBSET Name, passwords : SUBSET Password]
    BY KnownTyped
  <2> QED
    BY <1>5, <2>1, AskedIsWish DEF Begin, Goto
<1>6. CASE UNCHANGED vars
  BY <1>6 DEF vars
<1> QED
  BY <1>1, <1>2, <1>3, <1>4, <1>5, <1>6 DEF Next

LEMMA BaseInvariant == Spec => []Base
<1> QED
  BY BaseInit, BaseNext, PTL DEF Spec

\* Whatever requests overlap, the account and the requests hold what their columns
\* and parameters may hold: a handler never saves a name or a password nobody asked for.
THEOREM TypeCorrect == Spec => []TypeOK
<1>1. Base => TypeOK
  BY DEF Base
<1> QED
  BY <1>1, BaseInvariant, PTL

(***************************************************************************)
(* Changes of the password and the sessions.                               *)
(***************************************************************************)

\* A token that is anywhere but in a login has been drawn by one that is done.
TokensAreIssued ==
    /\ \A t \in sessions : login[t] = "done"
    /\ \A t \in ended : login[t] = "done"
    /\ \A r \in Request : \A t \in doomed[r] : login[t] = "done"

SessionInv == Base /\ TokensAreIssued /\ ConfirmedChangeEndsSessions

LEMMA SessionInit == Init => SessionInv
BY BaseInit DEF Init, SessionInv, TokensAreIssued, ConfirmedChangeEndsSessions

LEMMA SessionNext == SessionInv /\ [Next]_vars => SessionInv'
<1> SUFFICES ASSUME SessionInv, [Next]_vars
             PROVE  TokensAreIssued' /\ ConfirmedChangeEndsSessions'
  BY BaseNext DEF SessionInv
<1> USE DEF SessionInv, Base, TypeOK, TokensAreIssued, ConfirmedChangeEndsSessions,
            account, logins, lengths, requests
<1>1. CASE Tick
  BY <1>1 DEF Tick
<1>2. CASE Restart
  BY <1>2 DEF Restart
<1>3. ASSUME NEW t \in Token, Verify(t) \/ Draw(t) \/ InsertSession(t) \/ EndSession(t)
      PROVE  TokensAreIssued' /\ ConfirmedChangeEndsSessions'
  <2>1. CASE Verify(t)
    BY <2>1 DEF Verify, LoginStep
  <2>2. CASE Draw(t)
    BY <2>2 DEF Draw, LoginStep
  <2>3. CASE InsertSession(t)
    <3>1. t \notin ended
      BY <2>3 DEF InsertSession, LoginStep
    <3> QED
      BY <2>3, <3>1 DEF InsertSession, LoginStep
  <2>4. CASE EndSession(t)
    BY <2>4 DEF EndSession
  <2> QED
    BY <1>3, <2>1, <2>2, <2>3, <2>4
<1>4. ASSUME NEW r \in Request, RequestStep(r)
      PROVE  TokensAreIssued' /\ ConfirmedChangeEndsSessions'
  <2>1. CASE CheckPassword(r)
    BY <2>1 DEF CheckPassword
  <2>2. CASE RefusePassword(r)
    BY <2>2 DEF RefusePassword, Forget
  <2>3. CASE SavePassword(r)
    BY <2>3 DEF SavePassword
  <2>4. CASE DropSessions(r)
    <3>1. sessions' = {} /\ ended' = ended \cup doomed[r] /\ login' = login
      BY <2>4 DEF DropSessions, Dropped
    <3>2. doomed' = [doomed EXCEPT ![r] = {}]
      BY <2>4 DEF DropSessions, Forget
    <3> QED
      BY <3>1, <3>2
  <2>5. CASE ReadRow(r)
    BY <2>5 DEF ReadRow
  <2>6. CASE SaveName(r)
    BY <2>6 DEF SaveName, Forget
  <2>7. CASE SaveDuration(r)
    BY <2>7 DEF SaveDuration
  <2>8. CASE ApplyDuration(r)
    BY <2>8 DEF ApplyDuration, Forget
  <2>9. CASE \E from \in {"check", "save", "drop", "read", "rename", "duration"} : Fail(r, from)
    BY <2>9 DEF Fail, Forget
  <2> QED
    BY <1>4, <2>1, <2>2, <2>3, <2>4, <2>5, <2>6, <2>7, <2>8, <2>9 DEF RequestStep
<1>5. ASSUME NEW r \in Request, NEW t \in Token, Begin(r, t)
      PROVE  TokensAreIssued' /\ ConfirmedChangeEndsSessions'
  BY <1>5 DEF Begin
<1>6. CASE UNCHANGED vars
  BY <1>6 DEF vars
<1> QED
  BY <1>1, <1>2, <1>3, <1>4, <1>5, <1>6 DEF Next

LEMMA SessionInvariant == Spec => []SessionInv
BY SessionInit, SessionNext, PTL DEF Spec

\* DeleteSessionsByUser closes every session that was open when the new password was
\* saved, and none of them is ever inserted again, whatever overlaps, fails or restarts.
THEOREM ConfirmedChangesEndSessions == Spec => []ConfirmedChangeEndsSessions
<1>1. SessionInv => ConfirmedChangeEndsSessions
  BY DEF SessionInv
<1> QED
  BY <1>1, SessionInvariant, PTL

(***************************************************************************)
(* Requests that do not overlap.                                           *)
(***************************************************************************)

OneAtATime == \A q, r \in Request : pc[q] # "idle" /\ pc[r] # "idle" => q = r

\* What the only request at work has read is still there, and what it is about to
\* make true is known.
RequestIsInformed ==
    \A r \in Request :
        /\ pc[r] \in {"save", "rename"} => held[r] = user
        /\ pc[r] # "idle" /\ want[r].name \in Name => want[r].name \in known.names
        /\ pc[r] \in {"check", "save", "drop"} => want[r].password \in known.passwords
        /\ pc[r] = "drop" => user.password = want[r].password
        /\ pc[r] = "apply" => want[r].duration = setting

AccountKnown == user.name \in known.names /\ user.password \in known.passwords
LengthKnown == (\A r \in Request : pc[r] # "apply") => duration = setting

SteadyPart == OneAtATime /\ RequestIsInformed /\ AccountKnown /\ LengthKnown
SteadyInv == Base /\ (Steady => SteadyPart)

LEMMA SteadyInit == Init => SteadyInv
BY BaseInit, AccountAssumption
   DEF Init, SteadyInv, SteadyPart, OneAtATime, RequestIsInformed, AccountKnown,
       LengthKnown, Admin

\* A step of the only request at work.
LEMMA SteadyRequestStep ==
  ASSUME Base, Base', Steady, SteadyPart, NEW r \in Request, RequestStep(r)
  PROVE  SteadyPart'
<1> USE DEF Base, TypeOK, WishesFit, OneAtATime, RequestIsInformed, AccountKnown,
            LengthKnown, account, logins, lengths, requests, Goto, Row
<1>1. pc[r] # "idle" /\ \A q \in Request : q # r => pc[q] = "idle"
  BY DEF RequestStep, CheckPassword, RefusePassword, SavePassword, DropSessions, ReadRow,
         SaveName, SaveDuration, ApplyDuration, Fail, SteadyPart
<1>2. CASE CheckPassword(r)
  BY <1>1, <1>2 DEF CheckPassword, SteadyPart
<1>3. CASE RefusePassword(r)
  BY <1>1, <1>3 DEF RefusePassword, Forget, SteadyPart
<1>4. CASE SavePassword(r)
  BY <1>1, <1>4 DEF SavePassword, SteadyPart
<1>5. CASE DropSessions(r)
  <2>1. known' = [names |-> known.names \cap Name, passwords |-> {want[r].password} \cap Password]
    BY <1>5 DEF DropSessions, Known
  <2>2. user' = user /\ duration' = duration /\ setting' = setting
    BY <1>5 DEF DropSessions
  <2>3. pc[r] = "drop" /\ user.password = want[r].password /\ want[r].password \in Password
    BY <1>5 DEF DropSessions, SteadyPart
  <2>4. AccountKnown'
    BY <2>1, <2>2, <2>3 DEF SteadyPart
  <2>5. \/ pc' = [pc EXCEPT ![r] = "read"] /\ want' = want
        \/ pc' = [pc EXCEPT ![r] = "idle"]
    BY <1>5 DEF DropSessions
  <2>6. OneAtATime' /\ LengthKnown'
    BY <1>1, <2>2, <2>3, <2>5 DEF SteadyPart
  <2>7. RequestIsInformed'
    BY <1>1, <2>1, <2>2, <2>3, <2>5 DEF SteadyPart
  <2> QED
    BY <2>4, <2>6, <2>7 DEF SteadyPart
<1>6. CASE ReadRow(r)
  BY <1>1, <1>6 DEF ReadRow, RowNow, SteadyPart
<1>7. CASE SaveName(r)
  <2>1. known' = [names |-> {want[r].name} \cap Name, passwords |-> known.passwords \cap Password]
    BY <1>7 DEF SaveName, Known
  <2>2. pc[r] = "rename" /\ want[r].name \in Name /\ held[r] = user
    BY <1>7 DEF SaveName, SteadyPart
  <2>3. user' = [user EXCEPT !.name = want[r].name]
    BY <1>7, <2>2 DEF SaveName
  <2>4. AccountKnown'
    BY <2>1, <2>2, <2>3 DEF SteadyPart
  <2> QED
    BY <1>1, <1>7, <2>2, <2>4 DEF SaveName, Forget, SteadyPart
<1>8. CASE SaveDuration(r)
  BY <1>1, <1>8 DEF SaveDuration, SteadyPart
<1>9. CASE ApplyDuration(r)
  BY <1>1, <1>9 DEF ApplyDuration, Forget, SteadyPart
<1>10. CASE \E from \in {"check", "save", "drop", "read", "rename", "duration"} : Fail(r, from)
  BY <1>1, <1>10 DEF Fail, Forget, SteadyPart
<1> QED
  BY <1>2, <1>3, <1>4, <1>5, <1>6, <1>7, <1>8, <1>9, <1>10 DEF RequestStep

LEMMA SteadyNext == SteadyInv /\ [Next]_vars => SteadyInv'
<1> SUFFICES ASSUME SteadyInv, [Next]_vars, Steady
             PROVE  SteadyPart'
  <2>1. SteadyInv /\ [Next]_vars => (Steady' <=> Steady)
    BY DEF Next, vars, Tick, Restart, Verify, Draw, InsertSession, EndSession, RequestStep,
           CheckPassword, RefusePassword, SavePassword, DropSessions, ReadRow, SaveName,
           SaveDuration, ApplyDuration, Fail, Begin, Steady
  <2> QED
    BY <2>1, BaseNext DEF SteadyInv
<1>0. Base /\ Base' /\ SteadyPart
  BY BaseNext DEF SteadyInv
<1>1. CASE UNCHANGED <<account, lengths, requests>>
  BY <1>0, <1>1 DEF account, lengths, requests, SteadyPart, OneAtATime, RequestIsInformed,
                    AccountKnown, LengthKnown
<1>2. CASE Restart
  BY <1>0, <1>2 DEF Restart, InitialDuration, account, SteadyPart, OneAtATime,
                    RequestIsInformed, AccountKnown, LengthKnown
<1>3. ASSUME NEW r \in Request, NEW t \in Token, Begin(r, t)
      PROVE  SteadyPart'
  <2> PICK w \in Asked : /\ Goto(r, "idle", Entry(w))
                         /\ want' = [want EXCEPT ![r] = w]
                         /\ Known(known.names \cup {w.name}, known.passwords \cup {w.password})
    BY <1>3 DEF Begin
  <2>1. \A q \in Request : pc[q] = "idle"
    BY <1>3 DEF Begin
  <2>2. known' = [names |-> (known.names \cup {w.name}) \cap Name,
                  passwords |-> (known.passwords \cup {w.password}) \cap Password]
    BY DEF Known
  <2>3. UNCHANGED <<user, held, setting, duration>>
    BY <1>3 DEF Begin, lengths
  <2>4. pc' = [pc EXCEPT ![r] = Entry(w)]
    BY DEF Goto
  <2>5. AccountKnown'
    BY <1>0, <2>2, <2>3 DEF Base, TypeOK, Row, SteadyPart, AccountKnown
  <2>6. /\ Entry(w) \in {"check", "read", "duration"}
        /\ Entry(w) = "check" => w.password \in Password
    BY <1>0, AskedIsWish DEF Base
  <2>7. OneAtATime' /\ LengthKnown'
    BY <1>0, <2>1, <2>3, <2>4, <2>6 DEF Base, TypeOK, SteadyPart, OneAtATime, LengthKnown
  <2>8. RequestIsInformed'
    BY <1>0, <2>1, <2>2, <2>3, <2>4, <2>6 DEF Base, TypeOK, RequestIsInformed
  <2> QED
    BY <2>5, <2>7, <2>8 DEF SteadyPart
<1>4. ASSUME NEW r \in Request, RequestStep(r)
      PROVE  SteadyPart'
  BY <1>0, <1>4, SteadyRequestStep
<1>5. CASE Tick \/ \E t \in Token : Verify(t) \/ Draw(t) \/ InsertSession(t) \/ EndSession(t)
  BY <1>1, <1>5 DEF Tick, Verify, Draw, InsertSession, EndSession
<1>6. CASE UNCHANGED vars
  BY <1>1, <1>6 DEF vars, account, lengths, requests
<1> QED
  BY <1>2, <1>3, <1>4, <1>5, <1>6 DEF Next

LEMMA SteadyInvariant == Spec => []SteadyInv
BY SteadyInit, SteadyNext, PTL DEF Spec

\* ChangePassword and ChangeUsername save whole rows that were read before: where
\* requests do not overlap, no column of the account is ever anything but what was
\* confirmed last or asked for since, though statements fail and the panel restarts.
THEOREM OperatorIsInformed == Spec => []OperatorKnowsAccount
<1>1. SteadyInv => OperatorKnowsAccount
  BY DEF SteadyInv, SteadyPart, AccountKnown, OperatorKnowsAccount
<1> QED
  BY <1>1, SteadyInvariant, PTL

\* apiUpdateSession leaves the Service and the table with one length of sessions.
THEOREM LengthsAgree == Spec => []DurationsAgree
<1>1. SteadyInv => DurationsAgree
  BY DEF SteadyInv, SteadyPart, LengthKnown, DurationsAgree
<1> QED
  BY <1>1, SteadyInvariant, PTL

(***************************************************************************)
(* AuthSessions implements SessionTokens.                                  *)
(***************************************************************************)

Good == {t \in sessions : ~IsExpired(t)}
Used == {t \in Token : login[t] = "done"}

LEMMA TokensStep == Base /\ TokensAreIssued /\ [Next]_vars => [Tokens!Next]_<<Good, Used>>
<1> SUFFICES ASSUME Base, TokensAreIssued, [Next]_vars
             PROVE  [Tokens!Next]_<<Good, Used>>
  OBVIOUS
<1> USE DEF Base, TypeOK, Good, Used, IsExpired
\* A step spends tokens if no session is added, none lasts longer and no login ends.
<1>1. ASSUME sessions' \subseteq sessions, expires' = expires,
             now' \in Nat, now <= now', Used' = Used
      PROVE  Tokens!Spend
  <2>1. Good' \subseteq Good
    <3> SUFFICES ASSUME NEW t \in sessions', ~(now' > expires[t])
                 PROVE  ~(now > expires[t])
      BY <1>1
    <3>1. t \in Token /\ expires[t] \in Nat
      BY <1>1
    <3> QED
      BY <1>1, <3>1
  <2> QED
    BY <1>1, <2>1 DEF Tokens!Spend
<1>2. CASE Tick
  <2>1. now' \in Nat /\ now <= now'
    BY <1>2 DEF Tick
  <2>2. Tokens!Spend
    BY <1>1, <1>2, <2>1 DEF Tick, logins
  <2> QED
    BY <2>2 DEF Tokens!Next
<1>3. CASE Restart
  <2>1. Used' = Used
    BY <1>3 DEF Restart
  <2>2. Tokens!Spend
    BY <1>1, <1>3, <2>1 DEF Restart
  <2> QED
    BY <2>2 DEF Tokens!Next
<1>4. ASSUME NEW t \in Token, Verify(t)
      PROVE  [Tokens!Next]_<<Good, Used>>
  <2>1. Good' = Good
    BY <1>4 DEF Verify
  <2>2. Used' = Used
    BY <1>4 DEF Verify, LoginStep
  <2> QED
    BY <2>1, <2>2
<1>5. ASSUME NEW t \in Token, Draw(t)
      PROVE  [Tokens!Next]_<<Good, Used>>
  <2>1. t \notin sessions /\ sessions' = sessions /\ now' = now
    BY <1>5 DEF Draw, LoginStep, TokensAreIssued
  <2>2. \A u \in sessions : expires'[u] = expires[u]
    BY <1>5, <2>1 DEF Draw
  <2>3. Good' = Good
    BY <2>1, <2>2
  <2>4. Used' = Used
    BY <1>5 DEF Draw, LoginStep
  <2> QED
    BY <2>3, <2>4
<1>6. ASSUME NEW t \in Token, InsertSession(t)
      PROVE  [Tokens!Next]_<<Good, Used>>
  <2>0. expires' = expires /\ now' = now
    BY <1>6 DEF InsertSession
  <2>1. CASE LoginStep(t, "drawn", "done") /\ sessions' = sessions \cup {t}
    <3>1. t \notin Used /\ Used' = Used \cup {t}
      BY <2>1 DEF LoginStep
    <3>2. Good' \in {Good, Good \cup {t}}
      <4>1. CASE now > expires[t]
        <5>1. Good' = Good
          BY <2>0, <2>1, <4>1
        <5> QED
          BY <5>1
      <4>2. CASE ~(now > expires[t])
        <5>1. Good' = Good \cup {t}
          BY <2>0, <2>1, <4>2
        <5> QED
          BY <5>1
      <4> QED
        BY <4>1, <4>2
    <3>3. Tokens!Issue(t)
      BY <3>1, <3>2 DEF Tokens!Issue
    <3> QED
      BY <3>3 DEF Tokens!Next
  <2>2. CASE LoginStep(t, "drawn", "failed") /\ sessions' = sessions
    <3>1. Good' = Good
      BY <2>0, <2>2
    <3>2. Used' = Used
      BY <2>2 DEF LoginStep
    <3> QED
      BY <3>1, <3>2
  <2> QED
    BY <1>6, <2>1, <2>2 DEF InsertSession
<1>7. ASSUME NEW t \in Token, EndSession(t)
      PROVE  [Tokens!Next]_<<Good, Used>>
  <2>1. sessions' \subseteq sessions /\ UNCHANGED <<now, login, expires>>
    BY <1>7 DEF EndSession, logins
  <2>2. Tokens!Spend
    BY <1>1, <2>1
  <2> QED
    BY <2>2 DEF Tokens!Next
<1>8. ASSUME NEW r \in Request, RequestStep(r) \/ \E t \in Token : Begin(r, t)
      PROVE  [Tokens!Next]_<<Good, Used>>
  <2>1. sessions' \subseteq sessions /\ UNCHANGED <<now, login, expires>>
    BY <1>8 DEF RequestStep, CheckPassword, RefusePassword, SavePassword, DropSessions, Dropped,
           ReadRow, SaveName, SaveDuration, ApplyDuration, Fail, Begin, logins
  <2>2. Tokens!Spend
    BY <1>1, <2>1
  <2> QED
    BY <2>2 DEF Tokens!Next
<1>9. CASE UNCHANGED vars
  BY <1>9 DEF vars
<1> QED
  BY <1>2, <1>3, <1>4, <1>5, <1>6, <1>7, <1>8, <1>9 DEF Next

\* The panel implements SessionTokens: expiry, logout, changes of the password or of
\* the length of sessions and restarts only ever spend tokens, and none is issued twice.
THEOREM TokensImplemented == Spec => TokensSpec
<1>1. Init => Tokens!Init
  BY DEF Init, Tokens!Init
<1>2. Base /\ TokensAreIssued /\ [Next]_vars => [Tokens!Next]_Tokens!vars
  BY TokensStep DEF Tokens!vars, Good, Used
<1>3. SessionInv => Base /\ TokensAreIssued
  BY DEF SessionInv
<1> QED
  BY <1>1, <1>2, <1>3, SessionInvariant, PTL DEF Spec, TokensSpec, Tokens!Spec

\* A token that has been issued and does not open the panel never opens it again.
THEOREM SpentTokensStaySpent == Spec => [][\A t \in Used \ Good : t \notin Good']_vars
<1>1. SessionInv /\ [Next]_vars => [\A t \in Used \ Good : t \notin Good']_vars
  <2> SUFFICES ASSUME SessionInv, [Next]_vars
               PROVE  \A t \in Used \ Good : t \notin Good'
    OBVIOUS
  <2>1. [Tokens!Next]_<<Good, Used>>
    BY TokensStep DEF SessionInv
  <2>2. CASE Tokens!Spend
    BY <2>2 DEF Tokens!Spend, Good
  <2>3. CASE \E t \in Token : Tokens!Issue(t)
    BY <2>3 DEF Tokens!Issue, Good, Used
  <2>4. CASE UNCHANGED <<Good, Used>>
    BY <2>4
  <2> QED
    BY <2>1, <2>2, <2>3, <2>4 DEF Tokens!Next
<1> QED
  BY <1>1, SessionInvariant, PTL DEF Spec

===============================================================================
