---------------------------- MODULE AuthSessions ----------------------------
(***************************************************************************)
(* Signing in and out: backend/app/auth/service.py behind api/auth.py, the *)
(* reset of classes/service.py, the clean-up of main.py, and one browser   *)
(* window: AuthProvider, LogoutTimer, Login, ChangePassword, api/client.   *)
(*                                                                         *)
(* A request reads first, outside any transaction, and spends its time on  *)
(* scrypt; what it writes it writes in one transaction at the end.  Other  *)
(* requests run in between.  The window learns of the end of its session   *)
(* only from replies, which may come late, out of order or never, and the  *)
(* cookie belongs to the browser and not to the request that is answered.  *)
(*                                                                         *)
(* Passwords are left out: a form is filled in rightly or wrongly.  What   *)
(* is kept is whether the password that was verified has changed since.    *)
(***************************************************************************)
EXTENDS Integers, FiniteSets

CONSTANTS
  Users,
  MaxSessions,  \* bound: sessions and logins at a time
  Lifetime,     \* the life of a session, in steps of time
  MaxCalls,     \* bound: requests on their way at a time
  MaxTroubles   \* bound: lost replies, reloads, and requests from elsewhere

ASSUME BoundsAssumption ==
  /\ MaxSessions \in Nat \ {0} /\ Lifetime \in Nat \ {0}
  /\ MaxCalls \in Nat \ {0} /\ MaxTroubles \in Nat
ASSUME NamesAssumption == {"nobody", "loading"} \cap Users = {}

VARIABLES
  sessions,   \* the rows of auth_sessions
  over,       \* history: tokens the window still has whose session is over
  cookie,     \* the cookie of the browser
  page,       \* AuthProvider's currentUser, or "loading" while it asks
  calls,      \* the requests on their way, there or back
  troubles    \* how many of MaxTroubles there were

vars == <<sessions, over, cookie, page, calls, troubles>>
window == <<cookie, page>>

-----------------------------------------------------------------------------
Tokens == Users \X (1 .. MaxSessions)   \* opaque in the code: a token has an owner
NoToken == <<"nobody", 0>>
Owner(token) == token[1]

\* `stale' is history: the password it was opened with was changed before.
Rows == [token : Tokens, left : 0 .. Lifetime, stale : BOOLEAN]

Kinds == {"login", "me", "use", "logout", "change", "reset"}
Replied == {"ok", "refused", "invalid"}   \* 2xx, 401, 400

\* History: `dead', the session was over before the request was sent, and
\* `stale', the password was changed after the request had read it.
Calls ==
  [kind : Kinds, awaited : BOOLEAN, user : Users \cup {"nobody"}, token : Tokens \cup {NoToken},
   dead : BOOLEAN, stale : BOOLEAN, phase : {"sent", "read", "lost"} \cup Replied]

\* A request of the window: the browser adds the cookie it has then.
FromPage(kind) ==
  [kind |-> kind, awaited |-> TRUE, user |-> Owner(cookie), token |-> cookie,
   dead |-> cookie \in over \cup {NoToken}, stale |-> FALSE, phase |-> "sent"]

\* A login names its user, and so does a professor's reset.
Naming(kind, awaited, user) ==
  [kind |-> kind, awaited |-> awaited, user |-> user, token |-> NoToken,
   dead |-> FALSE, stale |-> FALSE, phase |-> "sent"]

Init ==
  /\ sessions = {} /\ over = {}
  /\ cookie = NoToken /\ page = "loading"
  /\ calls = {FromPage("me")}
  /\ troubles = 0

-----------------------------------------------------------------------------
(***************************************************************************)
(* The server.                                                             *)
(***************************************************************************)
RowOf(token) == {r \in sessions : r.token = token}
RowsOfUser(user) == {r \in sessions : Owner(r.token) = user}

\* Mutant: a session still works at the instant it expires.
OutlivesItself(row) == row.left < 0

Expired(row) == row.left = 0

\* user_for_token finds the row and it is still valid.
Live(token) == \E r \in RowOf(token) : ~Expired(r)

\* Sessions end: what is kept of it is about the tokens that may still be sent.
End(tokens) == over' = (over \cup tokens) \cap ({cookie'} \cup {c.token : c \in calls'})

\* The reply of a request that nobody waits for reaches nobody.
Proceed(c, phase) ==
  calls' = (calls \ {c})
             \cup (IF c.awaited \/ phase = "read" THEN {[c EXCEPT !.phase = phase]} ELSE {})

\* The user is read and the password verified; the session comes later.
ReadLogin(c) ==
  /\ c.kind = "login" /\ c.phase = "sent"
  /\ \E verified \in BOOLEAN : Proceed(c, IF verified THEN "read" ELSE "refused")
  /\ UNCHANGED <<sessions, window, troubles>>
  /\ End({})

\* current_user: an expired session is deleted by the request that meets it.
Authenticate(c) ==
  /\ c.kind \in {"me", "use", "change"} /\ c.phase = "sent"
  /\ IF ~Live(c.token)
       THEN /\ sessions' = sessions \ RowOf(c.token)
            /\ Proceed(c, "refused")
       ELSE /\ sessions' = sessions
            /\ \/ c.kind # "change" /\ Proceed(c, "ok")
               \/ c.kind = "change" /\ \E phase \in {"read", "invalid"} : Proceed(c, phase)
  /\ UNCHANGED <<window, troubles>>
  /\ End({})

ReadLogout(c) ==
  /\ c.kind = "logout" /\ c.phase = "sent"
  /\ Proceed(c, IF RowOf(c.token) = {} THEN "ok" ELSE "read")
  /\ UNCHANGED <<sessions, window, troubles>>
  /\ End({})

\* The class is an active one of the professor's, the student one of its members.
ReadReset(c) ==
  /\ c.kind = "reset" /\ c.phase = "sent"
  /\ \E found \in BOOLEAN : Proceed(c, IF found THEN "read" ELSE "invalid")
  /\ UNCHANGED <<sessions, window, troubles>>
  /\ End({})

InUse == {r.token : r \in sessions} \cup {cookie} \cup {c.token : c \in calls}

\* Mutant: a session outlives what is configured.
LongRow(token, stale) == [token |-> token, left |-> Lifetime + 1, stale |-> stale]

NewRow(token, stale) == [token |-> token, left |-> Lifetime, stale |-> stale]

\* The token is random: nobody has it.
Unused(user) == {t \in Tokens \ InUse : Owner(t) = user}

WriteLogin(c) ==
  /\ c.kind = "login" /\ c.phase = "read"
  /\ \E token \in Unused(c.user) :
         /\ \A t \in Unused(c.user) : token[2] <= t[2]
         /\ sessions' = sessions \cup {NewRow(token, c.stale)}
         /\ calls' = (calls \ {c})
                       \cup (IF c.awaited THEN {[c EXCEPT !.phase = "ok", !.token = token]} ELSE {})
  /\ UNCHANGED <<window, troubles>>
  /\ End({})

WriteLogout(c) ==
  /\ c.kind = "logout" /\ c.phase = "read"
  /\ sessions' = sessions \ RowOf(c.token)
  /\ Proceed(c, "ok")
  /\ UNCHANGED <<window, troubles>>
  /\ End({c.token})

\* change_password and reset_student_password: the hash and all the sessions.
WritePassword(c) ==
  /\ c.kind \in {"change", "reset"} /\ c.phase = "read"
  /\ sessions' = sessions \ RowsOfUser(c.user)
  /\ calls' = {[d EXCEPT !.stale = @ \/ (d.kind = "login" /\ d.phase = "read" /\ d.user = c.user)] :
                 d \in calls \ {c}}
               \cup (IF c.awaited THEN {[c EXCEPT !.phase = "ok"]} ELSE {})
  /\ UNCHANGED <<window, troubles>>
  /\ End({r.token : r \in RowsOfUser(c.user)})

Read(c) == ReadLogin(c) \/ Authenticate(c) \/ ReadLogout(c) \/ ReadReset(c)
Write(c) == WriteLogin(c) \/ WriteLogout(c) \/ WritePassword(c)

\* Time passes.
Tick ==
  /\ \E r \in sessions : r.left > 0
  /\ sessions' = {[r EXCEPT !.left = IF @ = 0 THEN 0 ELSE @ - 1] : r \in sessions}
  /\ UNCHANGED <<window, calls, troubles>>
  /\ End({r.token : r \in {r \in sessions : r.left <= 1}})

\* main.py cleanup-sessions.
CleanUp ==
  /\ \E r \in sessions : Expired(r)
  /\ sessions' = {r \in sessions : ~Expired(r)}
  /\ UNCHANGED <<over, window, calls, troubles>>

-----------------------------------------------------------------------------
(***************************************************************************)
(* The window.                                                             *)
(***************************************************************************)
Send(c) ==
  /\ Cardinality(calls) < MaxCalls
  /\ calls' = calls \cup {c}
  /\ UNCHANGED <<sessions, over, window>>

Awaiting(kind) == \E c \in calls : c.kind = kind /\ c.awaited

\* There is a token for one more login.
Room ==
  Cardinality(InUse \ {NoToken})
    + Cardinality({c \in calls : c.kind = "login" /\ c.phase # "ok"}) < MaxSessions

SignedIn == page \in Users

\* Mutant: the form to sign in shows while the page still asks who is there.
ShowsAtOnce == ~SignedIn

ShowsLogin == page = "nobody"

\* Login.jsx: submissionInProgress keeps a second submission out.
PressLogin ==
  /\ ShowsLogin /\ ~Awaiting("login") /\ Room
  /\ \E u \in Users : Send(Naming("login", TRUE, u))
  /\ UNCHANGED troubles

\* Any other request of a page that shows a user.
PressUse == SignedIn /\ Send(FromPage("use")) /\ UNCHANGED troubles

\* The button, or the timer after an hour without activity.
PressLogout == SignedIn /\ Send(FromPage("logout")) /\ UNCHANGED troubles

PressChange ==
  SignedIn /\ ~Awaiting("change") /\ Send(FromPage("change")) /\ UNCHANGED troubles

\* Set-Cookie of the reply.
CookieAfter(c) ==
  CASE c.kind = "login" /\ c.phase = "ok" -> c.token
    [] c.kind \in {"logout", "change"} /\ c.phase = "ok" -> NoToken
    [] OTHER -> cookie

\* Mutant: nobody listens to pm-sim-session-expired.
DeafPage(c) ==
  CASE c.kind \in {"login", "me"} /\ c.phase = "ok" -> c.user
    [] c.kind = "me" /\ c.phase # "ok" -> "nobody"
    [] c.kind = "logout" \/ (c.kind = "change" /\ c.phase = "ok") -> "nobody"
    [] OTHER -> page

\* Who is signed in after the reply.  A login that fails leaves the page alone;
\* any other 401 signs it out, and so does a logout, whatever its reply.
PageAfter(c) ==
  CASE c.kind \in {"login", "me"} /\ c.phase = "ok" -> c.user
    [] c.kind = "logout" \/ (c.kind = "change" /\ c.phase = "ok") -> "nobody"
    [] c.kind = "me" /\ c.phase # "ok" -> "nobody"
    [] c.kind # "login" /\ c.phase = "refused" -> "nobody"
    [] OTHER -> page

Receive(c) ==
  /\ c.awaited /\ c.phase \in Replied \cup {"lost"}
  /\ cookie' = CookieAfter(c)
  /\ page' = PageAfter(c)
  /\ calls' = calls \ {c}
  /\ UNCHANGED <<sessions, troubles>>
  /\ End({})

-----------------------------------------------------------------------------
(***************************************************************************)
(* Troubles: the network, the reload button, and other people.             *)
(***************************************************************************)
Trouble == troubles < MaxTroubles /\ troubles' = troubles + 1

\* What a request becomes when the page no longer waits for it.
Abandoned(c) ==
  IF c.phase \in {"sent", "read"} THEN {[c EXCEPT !.awaited = FALSE]} ELSE {}

\* The connection breaks: the page sees an error, the server may go on.
LoseConnection(c) ==
  /\ Trouble /\ c.awaited
  /\ calls' = (calls \ {c}) \cup Abandoned(c) \cup {[c EXCEPT !.phase = "lost"]}
  /\ UNCHANGED <<sessions, over, window>>

Reload ==
  /\ Trouble
  /\ page' = "loading"
  /\ calls' = {FromPage("me")}
                \cup UNION {IF c.awaited THEN Abandoned(c) ELSE {c} : c \in calls}
  /\ UNCHANGED <<sessions, cookie>>
  /\ End({})

\* The user signs in with another browser.
LoginElsewhere ==
  /\ Trouble /\ Room
  /\ \E u \in Users : Send(Naming("login", FALSE, u))

\* A professor gives a student a new password.
ResetElsewhere ==
  /\ Trouble
  /\ \E u \in Users : Send(Naming("reset", FALSE, u))

Next ==
  \/ \E c \in calls : Read(c) \/ Write(c) \/ Receive(c) \/ LoseConnection(c)
  \/ PressLogin \/ PressUse \/ PressLogout \/ PressChange
  \/ Tick \/ CleanUp \/ Reload \/ LoginElsewhere \/ ResetElsewhere

Spec == Init /\ [][Next]_vars

\* Requests are answered and replies arrive.  A window that shows a user is
\* used, or its timer runs out: it sends some request.
ReadSome == \E c \in calls : Read(c)
WriteSome == \E c \in calls : Write(c)
ReceiveSome == \E c \in calls : Receive(c)
Fairness ==
  /\ WF_vars(ReadSome) /\ WF_vars(WriteSome) /\ WF_vars(ReceiveSome)
  /\ WF_vars(PressUse \/ PressLogout)

FairSpec == Spec /\ Fairness

-----------------------------------------------------------------------------
(***************************************************************************)
(* Properties.                                                             *)
(***************************************************************************)
\* Types; a session is one row of its token, and none is longer than configured.
TypeOK ==
  /\ sessions \subseteq Rows
  /\ \A r, s \in sessions : r.token = s.token => r = s
  /\ over \subseteq Tokens
  /\ cookie \in Tokens \cup {NoToken}
  /\ page \in Users \cup {"nobody", "loading"}
  /\ calls \subseteq Calls
  /\ troubles \in 0 .. MaxTroubles

\* A session that was over when a request was sent serves it nothing: it was
\* signed out, it ran out, or the password was changed (user_for_token).
EndedServesNothing ==
  \A c \in calls :
    c.kind \in {"me", "use", "change"} /\ c.phase \in {"ok", "invalid", "read"} => ~c.dead

\* A page shows the user its cookie stands for: what it sends is done in the
\* name of the user the student reads on it, in whatever order its logins, its
\* logouts and its late replies come (AuthProvider, Login, LogoutTimer).
PageIsCookies == SignedIn /\ cookie # NoToken => Owner(cookie) = page

\* A page does not go on showing a user whose session is over.
PageIsDead == SignedIn /\ cookie \in over \cup {NoToken}
DeadPageCloses == PageIsDead ~> ~PageIsDead

\* After a password change no session opened with the password before it is
\* left.  The code does not keep this: see the README.
OldSessionsEnd == \A r \in sessions : ~r.stale

=============================================================================
