---------------------------- MODULE AuthSessions ----------------------------
(***************************************************************************)
(* The operator's account and sessions: logins, the requests that change   *)
(* the password, the name or the length of sessions, logout, expiry and    *)
(* restarts of the panel.  Every request runs in a goroutine of its own,   *)
(* and every database statement is an action.                              *)
(*                                                                         *)
(* There is one account.  A password stands for its hash.  Each login      *)
(* draws a token of its own, which names the login too.  Refused logins    *)
(* and refused requests change nothing and are left out.                   *)
(***************************************************************************)
EXTENDS Naturals

CONSTANTS
    Token,          \* tokens, one for each login
    Request,        \* the goroutines that serve requests to change something
    Password,       \* passwords, and those of the seeded account
    Name,
    AdminPassword,
    AdminName,
    Keep,           \* no change wanted
    TooShort,       \* a name the panel refuses
    Durations,      \* lengths of sessions
    MaxTime,        \* bound: the last value of the clock
    FaultChoices    \* the sets of faults a behaviour may meet

\* "db": a statement may fail; "overlap": a request to change something may begin
\* while another is in progress.
AllFaults == {"db", "overlap"}

ASSUME AccountAssumption ==
    /\ AdminPassword \in Password /\ AdminName \in Name
    /\ Keep \notin Password \cup Name \cup Durations
    /\ TooShort \notin Name /\ TooShort # Keep
ASSUME SessionAssumption ==
    /\ Durations \subseteq Nat \ {0}
    /\ MaxTime \in Nat
    /\ FaultChoices \subseteq SUBSET AllFaults

VARIABLES
    now,        \* the clock
    user,       \* the row of table `users'
    sessions,   \* the tokens of the rows of table `sessions'
    expires,    \* token -> ExpiresAt
    login,      \* token -> where the login is that draws it
    setting,    \* the session duration in table `settings'
    duration,   \* the session duration of the Service
    pc,         \* request -> where it is
    want,       \* request -> what it is to change
    held,       \* request -> the row it has read
    doomed,     \* request -> history: the sessions open when it saved the password
    ended,      \* history: the sessions open when a confirmed change saved the password
    known,      \* history: the names and passwords that may be in effect, as far as
                \* the answers tell; not kept where requests overlap
    faults      \* the faults of this behaviour

account == <<user, known>>
logins == <<expires, login>>
lengths == <<setting, duration>>
requests == <<pc, want, held, doomed>>
vars == <<now, user, sessions, expires, login, setting, duration, pc, want, held,
          doomed, ended, known, faults>>

Row == [name : Name, password : Password]
Wish == [name : Name \cup {Keep, TooShort}, password : Password \cup {Keep},
         duration : Durations \cup {Keep}]
Nothing == [name |-> Keep, password |-> Keep, duration |-> Keep]
Admin == [name |-> AdminName, password |-> AdminPassword]

TypeOK ==
    /\ now \in 0..MaxTime
    /\ user \in Row
    /\ sessions \subseteq Token
    /\ expires \in [Token -> Nat]
    /\ login \in [Token -> {"new", "verified", "drawn", "failed", "done"}]
    /\ setting \in Durations /\ duration \in Durations
    /\ pc \in [Request -> {"idle", "check", "save", "drop", "read", "rename",
                           "duration", "apply"}]
    /\ want \in [Request -> Wish]
    /\ held \in [Request -> Row]
    /\ doomed \in [Request -> SUBSET Token]
    /\ ended \subseteq Token
    /\ known \in [names : SUBSET Name, passwords : SUBSET Password]
    /\ faults \in FaultChoices

\* A new panel seeds its account.
Init ==
    /\ now = 0
    /\ user = Admin
    /\ sessions = {}
    /\ expires = [t \in Token |-> 0]
    /\ login = [t \in Token |-> "new"]
    /\ setting \in Durations /\ duration = setting
    /\ pc = [r \in Request |-> "idle"]
    /\ want = [r \in Request |-> Nothing]
    /\ held = [r \in Request |-> Admin]
    /\ doomed = [r \in Request |-> {}]
    /\ ended = {}
    /\ known = [names |-> {AdminName}, passwords |-> {AdminPassword}]
    /\ faults \in FaultChoices

Tick ==
    /\ now < MaxTime
    /\ now' = now + 1
    /\ UNCHANGED <<account, sessions, logins, lengths, requests, ended, faults>>

(***************************************************************************)
(* Login and logout.                                                       *)
(***************************************************************************)

LoginStep(t, from, to) == login[t] = from /\ login' = [login EXCEPT ![t] = to]

\* Login reads the row and compares the password with it.
Verify(t) ==
    /\ LoginStep(t, "new", "verified")
    /\ UNCHANGED <<now, account, sessions, expires, lengths, requests, ended, faults>>

\* It draws the token and sets the time the session is to end.
Draw(t) ==
    /\ LoginStep(t, "verified", "drawn")
    /\ expires' = [expires EXCEPT ![t] = now + duration]
    /\ UNCHANGED <<now, account, sessions, lengths, requests, ended, faults>>

\* CreateSession.
InsertSession(t) ==
    /\ \/ LoginStep(t, "drawn", "done") /\ sessions' = sessions \cup {t}
       \/ "db" \in faults /\ LoginStep(t, "drawn", "failed") /\ sessions' = sessions
    /\ UNCHANGED <<now, account, expires, lengths, requests, ended, faults>>

\* Fault model of the next definition: the time is worked out from the length of
\* sessions in force, not from the one at the login.
ExpiredByNow(t) == login[t] = "done" /\ now > expires[t] /\ now > duration

IsExpired(t) == now > expires[t]

\* Logout, or a request with a session that has expired, deletes its row; an error
\* is ignored.  An expired session stays so, so that its test and the deletion are
\* one action.
EndSession(t) ==
    /\ login[t] = "done"
    /\ \/ sessions' = sessions \ {t}
       \/ "db" \in faults /\ sessions' = sessions
    /\ UNCHANGED <<now, account, logins, lengths, requests, ended, faults>>

(***************************************************************************)
(* Requests that change something.                                         *)
(***************************************************************************)

Goto(r, from, to) == pc[r] = from /\ pc' = [pc EXCEPT ![r] = to]

\* The locals of the handler are gone when it answers.
Forget(r) ==
    /\ want' = [want EXCEPT ![r] = Nothing]
    /\ held' = [held EXCEPT ![r] = Admin]
    /\ doomed' = [doomed EXCEPT ![r] = {}]

\* The handler answers with an error of the database.
Fail(r, from) ==
    /\ "db" \in faults
    /\ Goto(r, from, "idle")
    /\ Forget(r)
    /\ UNCHANGED <<now, account, sessions, logins, lengths, ended, faults>>

Steady == "overlap" \notin faults

\* Keep stands for no value at all.
Known(names, passwords) ==
    known' = IF Steady THEN [names |-> names \cap Name, passwords |-> passwords \cap Password]
                       ELSE known

\* Fault model of the next definition: the name comes first, and its length is not
\* looked at.
EntryByName(w) ==
    IF w.duration # Keep THEN "duration" ELSE IF w.name # Keep THEN "read" ELSE "check"

\* Where the handler of a request that wants w begins.
Entry(w) ==
    IF w.duration # Keep THEN "duration" ELSE IF w.password # Keep THEN "check" ELSE "read"

\* What a request may ask for that the handlers do not refuse at once: a length, a
\* name, a password, or both of these; a name too short or equal to the one there is
\* matters only beside a password.
Asked ==
    [name : {Keep}, password : {Keep}, duration : Durations]
    \cup [name : Name, password : {Keep}, duration : {Keep}]
    \cup [name : (Name \ {user.name}) \cup {Keep, TooShort}, password : Password,
          duration : {Keep}]

\* RequireAuth lets a request with the session t pass.
Begin(r, t) ==
    /\ Steady => \A q \in Request : pc[q] = "idle"
    /\ t \in sessions /\ ~IsExpired(t)
    /\ \E w \in Asked :
        /\ Goto(r, "idle", Entry(w))
        /\ want' = [want EXCEPT ![r] = w]
        /\ Known(known.names \cup {w.name}, known.passwords \cup {w.password})
    /\ UNCHANGED <<now, user, sessions, logins, lengths, held, doomed, ended, faults>>

\* ChangePassword reads the row and compares the current password, which the request
\* gives, with it.
CheckPassword(r) ==
    /\ Goto(r, "check", "save")
    /\ held' = [held EXCEPT ![r] = user]
    /\ UNCHANGED <<now, account, sessions, logins, lengths, want, doomed, ended, faults>>

RefusePassword(r) ==
    /\ Goto(r, "check", "idle")
    /\ Forget(r)
    /\ UNCHANGED <<now, account, sessions, logins, lengths, ended, faults>>

\* UpdateUser saves the whole row that was read, with the new password.
SavePassword(r) ==
    /\ Goto(r, "save", "drop")
    /\ user' = [held[r] EXCEPT !.password = want[r].password]
    /\ doomed' = [doomed EXCEPT ![r] = sessions]
    /\ UNCHANGED <<now, known, sessions, logins, lengths, want, held, ended, faults>>

\* Fault model of the next definition: DeleteExpiredSessions is called.
DroppedExpired == {t \in sessions : IsExpired(t)}

\* The rows DeleteSessionsByUser deletes: all are the one user's.
Dropped == sessions

\* The change of the password is done.  The handler goes on to the name, if any.
DropSessions(r) ==
    /\ sessions' = sessions \ Dropped
    /\ ended' = ended \cup doomed[r]
    /\ Known(known.names, {want[r].password})
    /\ \/ /\ want[r].name \in Name
          /\ Goto(r, "drop", "read")
          /\ doomed' = [doomed EXCEPT ![r] = {}]
          /\ UNCHANGED <<want, held>>
       \/ /\ want[r].name \in {Keep, TooShort}
          /\ Goto(r, "drop", "idle")
          /\ Forget(r)
    /\ UNCHANGED <<now, user, logins, lengths, faults>>

\* Fault model of the next definition: a row that was read before is used again.
RowAgain(r) == IF want[r].password # Keep THEN held[r] ELSE user

\* The row GetUserByID returns to ChangeUsername.
RowNow(r) == user

\* ChangeUsername reads the row ...
ReadRow(r) ==
    /\ Goto(r, "read", "rename")
    /\ held' = [held EXCEPT ![r] = RowNow(r)]
    /\ UNCHANGED <<now, account, sessions, logins, lengths, want, doomed, ended, faults>>

\* ... and saves all of it with the new name.
SaveName(r) ==
    /\ Goto(r, "rename", "idle")
    /\ user' = [held[r] EXCEPT !.name = want[r].name]
    /\ Known({want[r].name}, known.passwords)
    /\ Forget(r)
    /\ UNCHANGED <<now, sessions, logins, lengths, ended, faults>>

\* apiUpdateSession stores the length, then tells the Service.
SaveDuration(r) ==
    /\ Goto(r, "duration", "apply")
    /\ setting' = want[r].duration
    /\ UNCHANGED <<now, account, sessions, logins, duration, want, held, doomed, ended, faults>>

ApplyDuration(r) ==
    /\ Goto(r, "apply", "idle")
    /\ duration' = want[r].duration
    /\ Forget(r)
    /\ UNCHANGED <<now, account, sessions, logins, setting, ended, faults>>

RequestStep(r) ==
    \/ CheckPassword(r) \/ RefusePassword(r) \/ SavePassword(r) \/ DropSessions(r)
    \/ ReadRow(r) \/ SaveName(r) \/ SaveDuration(r) \/ ApplyDuration(r)
    \/ \E from \in {"check", "save", "drop", "read", "rename", "duration"} : Fail(r, from)

\* Fault model of the next definition: the stored length is not read.
ShortestDuration == CHOOSE d \in Durations : \A e \in Durations : d <= e

\* The length NewApp gives the Service.
InitialDuration == setting

\* The panel starts again.  There is an account, so none is seeded.
Restart ==
    /\ login' = [t \in Token |-> IF login[t] \in {"verified", "drawn"} THEN "failed" ELSE login[t]]
    /\ duration' = InitialDuration
    /\ pc' = [r \in Request |-> "idle"]
    /\ want' = [r \in Request |-> Nothing]
    /\ held' = [r \in Request |-> Admin]
    /\ doomed' = [r \in Request |-> {}]
    /\ UNCHANGED <<now, account, sessions, expires, setting, ended, faults>>

Next ==
    \/ Tick \/ Restart
    \/ \E t \in Token : Verify(t) \/ Draw(t) \/ InsertSession(t) \/ EndSession(t)
    \/ \E r \in Request : RequestStep(r) \/ \E t \in Token : Begin(r, t)

Spec == Init /\ [][Next]_vars

(***************************************************************************)
(* Properties.                                                             *)
(***************************************************************************)

\* When a change of the password has been confirmed, every session that was open
\* when the new password took effect is closed, and never opens again.
ConfirmedChangeEndsSessions == ended \cap sessions = {}

\* Without overlapping requests the operator can tell the name and the password of
\* the account: each is the last one confirmed, or one that a request with no or a
\* negative answer has asked for since.
OperatorKnowsAccount ==
    Steady => user.name \in known.names /\ user.password \in known.passwords

\* Without overlapping requests the Service uses the length of sessions that is
\* stored, except while a request is telling it: also after errors and restarts.
DurationsAgree ==
    Steady /\ (\A r \in Request : pc[r] # "apply") => duration = setting

\* The panel implements SessionTokens: no expiry, change or restart lets a spent
\* token open the panel again.
Tokens == INSTANCE SessionTokens WITH
    good <- {t \in sessions : ~IsExpired(t)},
    used <- {t \in Token : login[t] = "done"}
TokensSpec == Tokens!Spec

===============================================================================
