-------------------------- MODULE AuthSessionsProofs --------------------------
(***************************************************************************)
(* What sessions and the window guarantee for any users, any number of     *)
(* requests on their way, and any number of lost replies and reloads.      *)
(***************************************************************************)
EXTENDS AuthSessions, TLAPS

-----------------------------------------------------------------------------
(***************************************************************************)
(* The inductive invariant.                                                *)
(***************************************************************************)
Held == {cookie} \cup {c.token : c \in calls}

\* The window remembers only what is still held, and none of it is alive.
OverInv == over \subseteq Held /\ \A t \in over : ~Live(t)

\* What was dead when it was sent is dead until the server looks.
DeadInv == \A c \in calls : c.dead /\ c.phase = "sent" => c.token \in over \cup {NoToken}

\* A request that deletes by its token found a row of it.
LogoutInv == \A c \in calls : c.kind = "logout" /\ c.phase = "read" => c.token \in Tokens

\* A login replies with a token of its user.
LoginInv ==
  \A c \in calls : c.kind = "login" /\ c.phase = "ok" =>
    c.token \in Tokens /\ Owner(c.token) = c.user

\* While the page asks who is there it waits for nothing else, and the cookie
\* is the one it asked with.
MeInv ==
  /\ \A c \in calls : c.awaited /\ (c.kind = "me" \/ page = "loading") =>
       c.kind = "me" /\ page = "loading" /\ c.token = cookie /\ c.user = Owner(cookie)
  /\ \A c, d \in calls : c.awaited /\ d.awaited /\ page = "loading" => c = d

Inv ==
  /\ TypeOK /\ OverInv /\ DeadInv /\ LogoutInv /\ LoginInv /\ MeInv
  /\ EndedServesNothing /\ PageIsCookies

-----------------------------------------------------------------------------
(***************************************************************************)
(* Types.                                                                  *)
(***************************************************************************)
\* A request that names its user is a request.
LEMMA NamingType ==
  ASSUME NEW kind \in Kinds, NEW awaited \in BOOLEAN, NEW user \in Users
  PROVE  Naming(kind, awaited, user) \in Calls
BY DEF Naming, Calls

\* So is one that goes by the cookie.
LEMMA FromPageType ==
  ASSUME TypeOK, NEW kind \in Kinds
  PROVE  FromPage(kind) \in Calls
<1>1. Owner(cookie) \in Users \cup {"nobody"}
  BY DEF TypeOK, Tokens, NoToken, Owner
<1>2. cookie \in Tokens \cup {NoToken}
  BY DEF TypeOK
<1>3. (cookie \in over \cup {NoToken}) \in BOOLEAN
  OBVIOUS
<1> QED
  BY <1>1, <1>2, <1>3 DEF FromPage, Calls

\* A request stays one when its phase, its token or its history changes.
LEMMA CopyType ==
  ASSUME NEW c \in Calls
  PROVE  /\ \A p \in {"sent", "read", "lost"} \cup Replied : [c EXCEPT !.phase = p] \in Calls
         /\ \A t \in Tokens : [c EXCEPT !.phase = "ok", !.token = t] \in Calls
         /\ [c EXCEPT !.awaited = FALSE] \in Calls
         /\ \A b \in BOOLEAN : [c EXCEPT !.stale = b] \in Calls
BY DEF Calls, Replied

\* What a request becomes is a request.
LEMMA ProceedType ==
  ASSUME TypeOK, NEW c \in calls, NEW phase \in {"sent", "read", "lost"} \cup Replied, Proceed(c, phase)
  PROVE  calls' \subseteq Calls
<1>1. [c EXCEPT !.phase = phase] \in Calls
  BY CopyType DEF TypeOK
<1> QED
  BY <1>1 DEF TypeOK, Proceed

\* Nothing is over that was not a token before.
LEMMA EndType ==
  ASSUME TypeOK, NEW tokens \in SUBSET Tokens, End(tokens)
  PROVE  over' \subseteq Tokens
BY DEF TypeOK, End

\* Troubles stay within their bound.
LEMMA TroubleType ==
  ASSUME TypeOK, Trouble
  PROVE  troubles' \in 0 .. MaxTroubles
BY BoundsAssumption DEF TypeOK, Trouble

\* The types are kept, and one row per token is.
LEMMA TypeStep ==
  TypeOK /\ LogoutInv /\ [Next]_vars => TypeOK'
<1> SUFFICES ASSUME TypeOK, LogoutInv, [Next]_vars PROVE TypeOK'
  OBVIOUS
<1>1. ASSUME NEW c \in calls, ReadLogin(c) PROVE TypeOK'
  <2>1. calls' \subseteq Calls
    BY <1>1, ProceedType DEF ReadLogin, Replied
  <2>2. over' \subseteq Tokens
    BY <1>1, EndType DEF ReadLogin
  <2> QED
    BY <1>1, <2>1, <2>2 DEF ReadLogin, TypeOK, window
<1>2. ASSUME NEW c \in calls, Authenticate(c) PROVE TypeOK'
  <2>1. calls' \subseteq Calls
    BY <1>2, ProceedType DEF Authenticate, Replied
  <2>2. over' \subseteq Tokens
    BY <1>2, EndType DEF Authenticate
  <2> QED
    BY <1>2, <2>1, <2>2 DEF Authenticate, TypeOK, window
<1>3. ASSUME NEW c \in calls, ReadLogout(c) PROVE TypeOK'
  <2>1. calls' \subseteq Calls
    BY <1>3, ProceedType DEF ReadLogout, Replied
  <2>2. over' \subseteq Tokens
    BY <1>3, EndType DEF ReadLogout
  <2> QED
    BY <1>3, <2>1, <2>2 DEF ReadLogout, TypeOK, window
<1>4. ASSUME NEW c \in calls, ReadReset(c) PROVE TypeOK'
  <2>1. calls' \subseteq Calls
    BY <1>4, ProceedType DEF ReadReset, Replied
  <2>2. over' \subseteq Tokens
    BY <1>4, EndType DEF ReadReset
  <2> QED
    BY <1>4, <2>1, <2>2 DEF ReadReset, TypeOK, window
<1>5. ASSUME NEW c \in calls, WriteLogin(c) PROVE TypeOK'
  <2>1. PICK token \in Unused(c.user) :
          /\ sessions' = sessions \cup {NewRow(token, c.stale)}
          /\ calls' = (calls \ {c})
                        \cup (IF c.awaited THEN {[c EXCEPT !.phase = "ok", !.token = token]} ELSE {})
    BY <1>5 DEF WriteLogin
  <2>2. token \in Tokens /\ \A r \in sessions : r.token # token
    BY DEF Unused, InUse
  <2>3. [c EXCEPT !.phase = "ok", !.token = token] \in Calls
    BY <2>2, CopyType DEF TypeOK
  <2>8. calls' \subseteq Calls
    BY <2>1, <2>3 DEF TypeOK
  <2>4. c.stale \in BOOLEAN
    BY DEF TypeOK, Calls
  <2>5. NewRow(token, c.stale) \in Rows /\ NewRow(token, c.stale).token = token
    BY <2>2, <2>4, BoundsAssumption DEF NewRow, Rows
  <2>6. over' \subseteq Tokens
    BY <1>5, EndType DEF WriteLogin
  <2>7. \A r, s \in sessions' : r.token = s.token => r = s
    BY <2>1, <2>2, <2>5 DEF TypeOK
  <2> QED
    BY <1>5, <2>1, <2>8, <2>5, <2>6, <2>7 DEF WriteLogin, TypeOK, window
<1>6. ASSUME NEW c \in calls, WriteLogout(c) PROVE TypeOK'
  <2>1. calls' \subseteq Calls
    BY <1>6, ProceedType DEF WriteLogout, Replied
  <2>2. over' \subseteq Tokens
    BY <1>6, EndType DEF WriteLogout, LogoutInv
  <2> QED
    BY <1>6, <2>1, <2>2 DEF WriteLogout, TypeOK, window
<1>7. ASSUME NEW c \in calls, WritePassword(c) PROVE TypeOK'
  <2>1. \A d \in calls, b \in BOOLEAN : [d EXCEPT !.stale = b] \in Calls
    BY CopyType DEF TypeOK
  <2>2. \A d \in calls : d.stale \in BOOLEAN
    BY DEF TypeOK, Calls
  <2>3. [c EXCEPT !.phase = "ok"] \in Calls
    BY CopyType DEF TypeOK, Replied
  <2>4. calls' \subseteq Calls
    BY <1>7, <2>1, <2>2, <2>3 DEF WritePassword
  <2>5. {r.token : r \in RowsOfUser(c.user)} \subseteq Tokens
    BY DEF TypeOK, Rows, RowsOfUser
  <2>6. over' \subseteq Tokens
    BY <1>7, <2>5, EndType DEF WritePassword
  <2> QED
    BY <1>7, <2>4, <2>6 DEF WritePassword, TypeOK, window
<1>8. ASSUME NEW c \in calls, Receive(c) PROVE TypeOK'
  <2>1. c \in Calls
    BY DEF TypeOK
  <2>2. cookie' \in Tokens \cup {NoToken}
    BY <1>8, <2>1 DEF Receive, CookieAfter, TypeOK, Calls
  <2>3. page' \in Users \cup {"nobody", "loading"}
    BY <1>8, <2>1 DEF Receive, PageAfter, TypeOK, Calls
  <2>4. over' \subseteq Tokens
    BY <1>8, EndType DEF Receive
  <2> QED
    BY <1>8, <2>2, <2>3, <2>4 DEF Receive, TypeOK
<1>9. ASSUME NEW c \in calls, LoseConnection(c) PROVE TypeOK'
  <2>1. Abandoned(c) \subseteq Calls /\ [c EXCEPT !.phase = "lost"] \in Calls
    BY CopyType DEF TypeOK, Abandoned
  <2>2. calls' \subseteq Calls /\ troubles' \in 0 .. MaxTroubles
    BY <1>9, <2>1, TroubleType DEF LoseConnection, TypeOK
  <2> QED
    BY <1>9, <2>2 DEF LoseConnection, TypeOK, window
<1>10. CASE PressLogin
  <2>1. calls' \subseteq Calls
    BY <1>10, NamingType DEF PressLogin, Send, TypeOK, Kinds
  <2> QED
    BY <1>10, <2>1 DEF PressLogin, Send, TypeOK, window
<1>11. CASE PressUse \/ PressLogout \/ PressChange
  <2>1. calls' \subseteq Calls
    BY <1>11, FromPageType DEF PressUse, PressLogout, PressChange, Send, TypeOK, Kinds
  <2> QED
    BY <1>11, <2>1 DEF PressUse, PressLogout, PressChange, Send, TypeOK, window
<1>12. CASE Tick
  <2>1. \A r \in sessions : r \in Rows
    BY DEF TypeOK
  <2>2. sessions' \subseteq Rows
    BY <1>12, <2>1, BoundsAssumption DEF Tick, Rows
  <2>3. {r.token : r \in {r \in sessions : r.left <= 1}} \subseteq Tokens
    BY <2>1 DEF Rows
  <2>4. over' \subseteq Tokens
    BY <1>12, <2>3, EndType DEF Tick
  <2>5. \A r, s \in sessions' : r.token = s.token => r = s
    BY <1>12, <2>1 DEF Tick, TypeOK, Rows
  <2> QED
    BY <1>12, <2>2, <2>4, <2>5 DEF Tick, TypeOK, window
<1>13. CASE CleanUp
  BY <1>13 DEF CleanUp, TypeOK, window
<1>14. CASE Reload
  <2>1. \A c \in calls : Abandoned(c) \subseteq Calls
    BY CopyType DEF TypeOK, Abandoned
  <2>2. FromPage("me") \in Calls
    BY FromPageType DEF Kinds
  <2>3. calls' \subseteq Calls
    BY <1>14, <2>1, <2>2 DEF Reload, TypeOK
  <2>4. over' \subseteq Tokens /\ troubles' \in 0 .. MaxTroubles
    BY <1>14, EndType, TroubleType DEF Reload
  <2> QED
    BY <1>14, <2>3, <2>4 DEF Reload, TypeOK
<1>15. CASE LoginElsewhere \/ ResetElsewhere
  <2>1. calls' \subseteq Calls
    BY <1>15, NamingType DEF LoginElsewhere, ResetElsewhere, Send, TypeOK, Kinds
  <2>2. troubles' \in 0 .. MaxTroubles
    BY <1>15, TroubleType DEF LoginElsewhere, ResetElsewhere
  <2> QED
    BY <1>15, <2>1, <2>2 DEF LoginElsewhere, ResetElsewhere, Send, TypeOK, window
<1>16. CASE UNCHANGED vars
  BY <1>16 DEF vars, TypeOK
<1> QED
  BY <1>1, <1>2, <1>3, <1>4, <1>5, <1>6, <1>7, <1>8, <1>9, <1>10, <1>11, <1>12, <1>13,
     <1>14, <1>15, <1>16 DEF Next, Read, Write

-----------------------------------------------------------------------------
(***************************************************************************)
(* The end of a session.                                                   *)
(***************************************************************************)
\* Sessions that are only deleted bring no token back to life.
LEMMA DeadStaysDead ==
  ASSUME sessions' \subseteq sessions
  PROVE  \A t : ~Live(t) => ~Live(t)'
BY DEF Live, RowOf, Expired

\* What is over is held, and stays dead if no step revives it.
LEMMA EndKeeps ==
  ASSUME OverInv, NEW tokens, End(tokens), \A t \in over \cup tokens : ~Live(t)'
  PROVE  OverInv'
BY DEF OverInv, End, Held

\* No token that is over is alive, and none is forgotten while it may be sent.
LEMMA OverStep ==
  TypeOK /\ LogoutInv /\ OverInv /\ [Next]_vars => OverInv'
<1> SUFFICES ASSUME TypeOK, LogoutInv, OverInv, [Next]_vars PROVE OverInv'
  OBVIOUS
<1> USE DEF OverInv
<1>1. ASSUME NEW c \in calls, ReadLogin(c) \/ Authenticate(c) \/ ReadLogout(c) \/ ReadReset(c)
      PROVE  OverInv'
  <2>1. sessions' \subseteq sessions /\ End({})
    BY <1>1 DEF ReadLogin, Authenticate, ReadLogout, ReadReset
  <2> QED
    BY <2>1, DeadStaysDead, EndKeeps
<1>2. ASSUME NEW c \in calls, WriteLogin(c) PROVE OverInv'
  <2>1. PICK token \in Unused(c.user) : sessions' = sessions \cup {NewRow(token, c.stale)}
    BY <1>2 DEF WriteLogin
  <2>2. token \notin over
    BY DEF Unused, InUse, Held
  <2>3. \A t \in over : ~Live(t)'
    BY <2>1, <2>2 DEF Live, RowOf, Expired, NewRow
  <2> QED
    BY <1>2, <2>3, EndKeeps DEF WriteLogin
<1>3. ASSUME NEW c \in calls, WriteLogout(c) PROVE OverInv'
  <2>1. sessions' \subseteq sessions /\ End({c.token})
    BY <1>3 DEF WriteLogout
  <2>2. ~Live(c.token)'
    BY <1>3 DEF WriteLogout, Live, RowOf
  <2> QED
    BY <2>1, <2>2, DeadStaysDead, EndKeeps
<1>4. ASSUME NEW c \in calls, WritePassword(c) PROVE OverInv'
  <2>1. sessions' \subseteq sessions /\ End({r.token : r \in RowsOfUser(c.user)})
    BY <1>4 DEF WritePassword
  <2>2. \A t \in {r.token : r \in RowsOfUser(c.user)} : ~Live(t)'
    BY <1>4 DEF WritePassword, Live, RowOf, RowsOfUser
  <2> QED
    BY <2>1, <2>2, DeadStaysDead, EndKeeps
<1>5. ASSUME NEW c \in calls, Receive(c) PROVE OverInv'
  BY <1>5, DeadStaysDead, EndKeeps DEF Receive
<1>6. ASSUME NEW c \in calls, LoseConnection(c) PROVE OverInv'
  <2>1. \A d \in calls : \E e \in calls' : e.token = d.token
    <3>1. [c EXCEPT !.phase = "lost"].token = c.token
      BY DEF TypeOK, Calls
    <3> QED
      BY <1>6, <3>1 DEF LoseConnection
  <2> QED
    BY <1>6, <2>1, DeadStaysDead DEF LoseConnection, Held, window
<1>7. CASE PressLogin \/ PressUse \/ PressLogout \/ PressChange \/ LoginElsewhere \/ ResetElsewhere
  <2>1. calls \subseteq calls' /\ UNCHANGED <<sessions, over, cookie>>
    BY <1>7 DEF PressLogin, PressUse, PressLogout, PressChange, LoginElsewhere, ResetElsewhere, Send, window
  <2> QED
    BY <2>1, DeadStaysDead DEF Held
<1>8. CASE Tick
  <2>1. \A t : ~Live(t) => ~Live(t)'
    <3>1. ASSUME NEW r \in sessions', r.left # 0
          PROVE  \E s \in sessions : s.token = r.token /\ s.left # 0
      BY <1>8, <3>1 DEF Tick, TypeOK, Rows
    <3> QED
      BY <3>1 DEF Live, RowOf, Expired
  <2>2. \A t \in {r.token : r \in {r \in sessions : r.left <= 1}} : ~Live(t)'
    <3> SUFFICES ASSUME NEW s \in sessions, s.left <= 1, NEW r \in sessions', r.token = s.token
                 PROVE  r.left = 0
      BY DEF Live, RowOf, Expired
    <3>1. PICK q \in sessions : r = [q EXCEPT !.left = IF @ = 0 THEN 0 ELSE @ - 1]
      BY <1>8 DEF Tick
    <3>2. q.token = s.token
      BY <3>1 DEF TypeOK, Rows
    <3>3. q = s
      BY <3>2 DEF TypeOK
    <3> QED
      BY <3>1, <3>3 DEF TypeOK, Rows
  <2> QED
    BY <1>8, <2>1, <2>2, EndKeeps DEF Tick
<1>9. CASE CleanUp
  BY <1>9, DeadStaysDead DEF CleanUp, window, Held
<1>10. CASE Reload
  BY <1>10, DeadStaysDead, EndKeeps DEF Reload
<1>11. CASE UNCHANGED vars
  BY <1>11, DeadStaysDead DEF vars, Held
<1> QED
  BY <1>1, <1>2, <1>3, <1>4, <1>5, <1>6, <1>7, <1>8, <1>9, <1>10, <1>11 DEF Next, Read, Write

\* A request that was dead when it was sent finds nothing alive.
LEMMA DeadStep ==
  TypeOK /\ OverInv /\ DeadInv /\ [Next]_vars => DeadInv'
<1> SUFFICES ASSUME TypeOK, OverInv, DeadInv, [Next]_vars, NEW d \in calls', d.dead, d.phase = "sent"
             PROVE  d.token \in over' \cup {NoToken}
  BY DEF DeadInv
<1>1. ASSUME over \cap Held' \subseteq over', \E e \in calls : e.token = d.token /\ e.dead /\ e.phase = "sent"
      PROVE  d.token \in over' \cup {NoToken}
  BY <1>1 DEF DeadInv, Held
<1>2. ASSUME NEW c \in calls, Read(c) \/ Write(c) PROVE d.token \in over' \cup {NoToken}
  <2>1. over \cap Held' \subseteq over'
    BY <1>2 DEF Read, Write, ReadLogin, Authenticate, ReadLogout, ReadReset, WriteLogin,
                WriteLogout, WritePassword, End, Held
  <2>2. CASE ReadLogin(c) \/ Authenticate(c) \/ ReadLogout(c) \/ ReadReset(c) \/ WriteLogout(c)
    <3>1. d \in calls
      BY <2>2 DEF ReadLogin, Authenticate, ReadLogout, ReadReset, WriteLogout, Proceed, TypeOK, Calls
    <3> QED
      BY <1>1, <2>1, <3>1
  <2>3. CASE WriteLogin(c)
    <3>1. PICK token : calls' = (calls \ {c})
                        \cup (IF c.awaited THEN {[c EXCEPT !.phase = "ok", !.token = token]} ELSE {})
      BY <2>3 DEF WriteLogin
    <3>2. [c EXCEPT !.phase = "ok", !.token = token].phase = "ok"
      BY DEF TypeOK, Calls
    <3>3. d \in calls
      BY <3>1, <3>2
    <3> QED
      BY <1>1, <2>1, <3>3
  <2>4. CASE WritePassword(c)
    <3>1. \E e \in calls : e.token = d.token /\ e.dead /\ e.phase = "sent"
      BY <2>4 DEF WritePassword, TypeOK, Calls
    <3> QED
      BY <1>1, <2>1, <3>1
  <2> QED
    BY <1>2, <2>2, <2>3, <2>4 DEF Read, Write
<1>3. ASSUME NEW c \in calls, Receive(c) PROVE d.token \in over' \cup {NoToken}
  BY <1>1, <1>3 DEF Receive, End, Held
<1>4. ASSUME NEW c \in calls, LoseConnection(c) PROVE d.token \in over' \cup {NoToken}
  <2>1. \E e \in calls : e.token = d.token /\ e.dead /\ e.phase = "sent"
    BY <1>4 DEF LoseConnection, Abandoned, TypeOK, Calls
  <2> QED
    BY <1>1, <1>4, <2>1 DEF LoseConnection
<1>5. CASE PressLogin \/ LoginElsewhere \/ ResetElsewhere
  BY <1>1, <1>5 DEF PressLogin, LoginElsewhere, ResetElsewhere, Send, Naming
<1>6. CASE PressUse \/ PressLogout \/ PressChange
  <2>1. UNCHANGED over
    BY <1>6 DEF PressUse, PressLogout, PressChange, Send
  <2>2. d \in calls \/ \E kind \in Kinds : d = FromPage(kind)
    BY <1>6 DEF PressUse, PressLogout, PressChange, Send, Kinds
  <2>3. ASSUME NEW kind \in Kinds, d = FromPage(kind)
        PROVE  d.token \in over' \cup {NoToken}
    BY <2>1, <2>3 DEF FromPage
  <2> QED
    BY <1>1, <2>1, <2>2, <2>3
<1>7. CASE Reload
  <2>1. over \cap Held' \subseteq over'
    BY <1>7 DEF Reload, End, Held
  <2>2. d = FromPage("me") \/ \E e \in calls : e.token = d.token /\ e.dead /\ e.phase = "sent"
    BY <1>7 DEF Reload, Abandoned, TypeOK, Calls
  <2>3. CASE d = FromPage("me")
    BY <2>1, <2>3 DEF FromPage, Held
  <2> QED
    BY <1>1, <2>1, <2>2, <2>3
<1>8. CASE Tick \/ CleanUp \/ UNCHANGED vars
  <2>1. over \cap Held' \subseteq over' /\ UNCHANGED calls
    BY <1>8 DEF Tick, CleanUp, vars, End, Held
  <2> QED
    BY <1>1, <2>1
<1> QED
  BY <1>2, <1>3, <1>4, <1>5, <1>6, <1>7, <1>8 DEF Next

\* A session that is over serves nothing that was sent after its end.
LEMMA EndedStep ==
  TypeOK /\ OverInv /\ DeadInv /\ EndedServesNothing /\ [Next]_vars => EndedServesNothing'
<1> SUFFICES ASSUME TypeOK, OverInv, DeadInv, EndedServesNothing, [Next]_vars,
                    NEW d \in calls', d.kind \in {"me", "use", "change"},
                    d.phase \in {"ok", "invalid", "read"}
             PROVE  ~d.dead
  BY DEF EndedServesNothing
<1>1. ASSUME \E e \in calls : /\ e.dead = d.dead /\ e.kind = d.kind
                              /\ e.phase \in {"ok", "invalid", "read"}
      PROVE  ~d.dead
  BY <1>1 DEF EndedServesNothing
<1>2. ASSUME NEW c \in calls, ReadLogin(c) \/ ReadLogout(c) \/ ReadReset(c) \/ WriteLogin(c) \/ WriteLogout(c)
      PROVE  ~d.dead
  <2>1. CASE ReadLogin(c) \/ ReadLogout(c) \/ ReadReset(c) \/ WriteLogout(c)
    <3>1. d \in calls
      BY <2>1 DEF ReadLogin, ReadLogout, ReadReset, WriteLogout, Proceed, TypeOK, Calls
    <3> QED
      BY <1>1, <3>1
  <2>2. CASE WriteLogin(c)
    <3>1. PICK token : calls' = (calls \ {c})
                        \cup (IF c.awaited THEN {[c EXCEPT !.phase = "ok", !.token = token]} ELSE {})
      BY <2>2 DEF WriteLogin
    <3>2. d \in calls
      BY <2>2, <3>1 DEF WriteLogin, TypeOK, Calls
    <3> QED
      BY <1>1, <3>2
  <2> QED
    BY <1>2, <2>1, <2>2
<1>3. ASSUME NEW c \in calls, Authenticate(c) PROVE ~d.dead
  <2>1. CASE Live(c.token)
    <3>1. ~c.dead
      <4>1. ~Live(NoToken)
        BY BoundsAssumption DEF Live, RowOf, TypeOK, Rows, Tokens, NoToken
      <4> QED
        BY <1>3, <2>1, <4>1 DEF Authenticate, DeadInv, OverInv
    <3>2. d \in calls \/ d.dead = c.dead
      BY <1>3 DEF Authenticate, Proceed, TypeOK, Calls
    <3> QED
      BY <1>1, <3>1, <3>2
  <2>2. CASE ~Live(c.token)
    <3>1. d \in calls
      BY <1>3, <2>2 DEF Authenticate, Proceed, TypeOK, Calls
    <3> QED
      BY <1>1, <3>1
  <2> QED
    BY <2>1, <2>2
<1>4. ASSUME NEW c \in calls, WritePassword(c) PROVE ~d.dead
  <2>1. \E e \in calls : e.dead = d.dead /\ e.kind = d.kind /\ e.phase \in {"ok", "invalid", "read"}
    BY <1>4 DEF WritePassword, TypeOK, Calls
  <2> QED
    BY <1>1, <2>1
<1>5. ASSUME NEW c \in calls, Receive(c) \/ LoseConnection(c) PROVE ~d.dead
  <2>1. \E e \in calls : e.dead = d.dead /\ e.kind = d.kind /\ e.phase = d.phase
    BY <1>5 DEF Receive, LoseConnection, Abandoned, TypeOK, Calls
  <2> QED
    BY <1>1, <2>1
<1>6. CASE PressLogin \/ PressUse \/ PressLogout \/ PressChange \/ LoginElsewhere \/ ResetElsewhere
  <2>1. d \in calls
    BY <1>6 DEF PressLogin, PressUse, PressLogout, PressChange, LoginElsewhere, ResetElsewhere,
                Send, Naming, FromPage
  <2> QED
    BY <1>1, <2>1
<1>7. CASE Reload
  <2>1. \E e \in calls : e.dead = d.dead /\ e.kind = d.kind /\ e.phase = d.phase
    BY <1>7 DEF Reload, Abandoned, FromPage, TypeOK, Calls
  <2> QED
    BY <1>1, <2>1
<1>8. CASE Tick \/ CleanUp \/ UNCHANGED vars
  BY <1>1, <1>8 DEF Tick, CleanUp, vars
<1> QED
  BY <1>2, <1>3, <1>4, <1>5, <1>6, <1>7, <1>8 DEF Next, Read, Write

-----------------------------------------------------------------------------
(***************************************************************************)
(* Replies and the window.                                                 *)
(***************************************************************************)
\* A request that deletes by its token has found a row.
LEMMA LogoutStep ==
  TypeOK /\ LogoutInv /\ [Next]_vars => LogoutInv'
<1> SUFFICES ASSUME TypeOK, LogoutInv, [Next]_vars, NEW d \in calls', d.kind = "logout", d.phase = "read"
             PROVE  d.token \in Tokens
  BY DEF LogoutInv
<1>1. ASSUME \E e \in calls : e.token = d.token /\ e.kind = "logout" /\ e.phase = "read"
      PROVE  d.token \in Tokens
  BY <1>1 DEF LogoutInv
<1>2. ASSUME NEW c \in calls, ReadLogin(c) \/ Authenticate(c) \/ ReadReset(c) \/ WriteLogout(c)
      PROVE  d.token \in Tokens
  <2>1. d \in calls
    BY <1>2 DEF ReadLogin, Authenticate, ReadReset, WriteLogout, Proceed, TypeOK, Calls
  <2> QED
    BY <1>1, <2>1
<1>3. ASSUME NEW c \in calls, ReadLogout(c) PROVE d.token \in Tokens
  <2>1. d \in calls \/ (RowOf(c.token) # {} /\ d.token = c.token)
    BY <1>3 DEF ReadLogout, Proceed, TypeOK, Calls
  <2> QED
    BY <1>1, <2>1 DEF RowOf, TypeOK, Rows
<1>4. ASSUME NEW c \in calls, WriteLogin(c) PROVE d.token \in Tokens
  <2>1. PICK token : calls' = (calls \ {c})
                      \cup (IF c.awaited THEN {[c EXCEPT !.phase = "ok", !.token = token]} ELSE {})
    BY <1>4 DEF WriteLogin
  <2>2. [c EXCEPT !.phase = "ok", !.token = token].phase = "ok"
    BY DEF TypeOK, Calls
  <2> QED
    BY <1>1, <2>1, <2>2
<1>5. ASSUME NEW c \in calls, WritePassword(c) PROVE d.token \in Tokens
  <2>1. \E e \in calls : e.token = d.token /\ e.kind = "logout" /\ e.phase = "read"
    BY <1>5 DEF WritePassword, TypeOK, Calls
  <2> QED
    BY <1>1, <2>1
<1>6. ASSUME NEW c \in calls, Receive(c) \/ LoseConnection(c) PROVE d.token \in Tokens
  <2>1. \E e \in calls : e.token = d.token /\ e.kind = "logout" /\ e.phase = "read"
    BY <1>6 DEF Receive, LoseConnection, Abandoned, TypeOK, Calls
  <2> QED
    BY <1>1, <2>1
<1>7. CASE PressLogin \/ PressUse \/ PressLogout \/ PressChange \/ LoginElsewhere \/ ResetElsewhere
  <2>1. d \in calls
    BY <1>7 DEF PressLogin, PressUse, PressLogout, PressChange, LoginElsewhere, ResetElsewhere,
                Send, Naming, FromPage
  <2> QED
    BY <1>1, <2>1
<1>8. CASE Reload
  <2>1. \E e \in calls : e.token = d.token /\ e.kind = "logout" /\ e.phase = "read"
    BY <1>8 DEF Reload, Abandoned, FromPage, TypeOK, Calls
  <2> QED
    BY <1>1, <2>1
<1>9. CASE Tick \/ CleanUp \/ UNCHANGED vars
  BY <1>1, <1>9 DEF Tick, CleanUp, vars
<1> QED
  BY <1>2, <1>3, <1>4, <1>5, <1>6, <1>7, <1>8, <1>9 DEF Next, Read, Write

\* A login that succeeded replies with a token of the user it named.
LEMMA LoginStep ==
  TypeOK /\ LoginInv /\ [Next]_vars => LoginInv'
<1> SUFFICES ASSUME TypeOK, LoginInv, [Next]_vars, NEW d \in calls', d.kind = "login", d.phase = "ok"
             PROVE  d.token \in Tokens /\ Owner(d.token) = d.user
  BY DEF LoginInv
<1> DEFINE Good == d.token \in Tokens /\ Owner(d.token) = d.user
<1> SUFFICES Good
  OBVIOUS
<1> HIDE DEF Good
<1>1. ASSUME \E e \in calls : e.token = d.token /\ e.user = d.user /\ e.kind = "login" /\ e.phase = "ok"
      PROVE  Good
  BY <1>1 DEF LoginInv, Good
<1>2. ASSUME NEW c \in calls,
             ReadLogin(c) \/ Authenticate(c) \/ ReadLogout(c) \/ ReadReset(c) \/ WriteLogout(c)
      PROVE  Good
  <2>1. d \in calls
    BY <1>2 DEF ReadLogin, Authenticate, ReadLogout, ReadReset, WriteLogout, Proceed, TypeOK, Calls
  <2> QED
    BY <1>1, <2>1
<1>3. ASSUME NEW c \in calls, WriteLogin(c) PROVE Good
  <2>1. PICK token \in Unused(c.user) :
          calls' = (calls \ {c})
                     \cup (IF c.awaited THEN {[c EXCEPT !.phase = "ok", !.token = token]} ELSE {})
    BY <1>3 DEF WriteLogin
  <2>2. token \in Tokens /\ Owner(token) = c.user
    BY DEF Unused
  <2>3. d \in calls \/ (d.token = token /\ d.user = c.user)
    BY <2>1 DEF TypeOK, Calls
  <2> QED
    BY <1>1, <2>2, <2>3 DEF Good
<1>4. ASSUME NEW c \in calls, WritePassword(c) PROVE Good
  <2>1. \E e \in calls : e.token = d.token /\ e.user = d.user /\ e.kind = "login" /\ e.phase = "ok"
    BY <1>4 DEF WritePassword, TypeOK, Calls
  <2> QED
    BY <1>1, <2>1
<1>5. ASSUME NEW c \in calls, Receive(c) \/ LoseConnection(c) PROVE Good
  <2>1. \E e \in calls : e.token = d.token /\ e.user = d.user /\ e.kind = "login" /\ e.phase = "ok"
    BY <1>5 DEF Receive, LoseConnection, Abandoned, TypeOK, Calls
  <2> QED
    BY <1>1, <2>1
<1>6. CASE PressLogin \/ PressUse \/ PressLogout \/ PressChange \/ LoginElsewhere \/ ResetElsewhere
  <2>1. d \in calls
    BY <1>6 DEF PressLogin, PressUse, PressLogout, PressChange, LoginElsewhere, ResetElsewhere,
                Send, Naming, FromPage
  <2> QED
    BY <1>1, <2>1
<1>7. CASE Reload
  <2>1. \E e \in calls : e.token = d.token /\ e.user = d.user /\ e.kind = "login" /\ e.phase = "ok"
    BY <1>7 DEF Reload, Abandoned, FromPage, TypeOK, Calls
  <2> QED
    BY <1>1, <2>1
<1>8. CASE Tick \/ CleanUp \/ UNCHANGED vars
  BY <1>1, <1>8 DEF Tick, CleanUp, vars
<1> QED
  BY <1>2, <1>3, <1>4, <1>5, <1>6, <1>7, <1>8 DEF Next, Read, Write

\* Before the page knows who is there it waits for the answer and nothing else.
LEMMA MeStep ==
  TypeOK /\ MeInv /\ [Next]_vars => MeInv'
<1> SUFFICES ASSUME TypeOK, MeInv, [Next]_vars PROVE MeInv'
  OBVIOUS
<1> USE NamesAssumption
<1>1. ASSUME UNCHANGED <<page, cookie>>,
             \A d \in calls' : d.awaited => \E e \in calls :
               e.awaited /\ d.kind = e.kind /\ d.token = e.token /\ d.user = e.user,
             \A d, f \in calls' : d.awaited /\ f.awaited /\ page = "loading" => d = f
      PROVE  MeInv'
  BY <1>1 DEF MeInv
<1>2. ASSUME NEW c \in calls,
             ReadLogin(c) \/ Authenticate(c) \/ ReadLogout(c) \/ ReadReset(c) \/ WriteLogout(c)
      PROVE  MeInv'
  <2>1. UNCHANGED <<page, cookie>> /\ \E phase : Proceed(c, phase)
    BY <1>2 DEF ReadLogin, Authenticate, ReadLogout, ReadReset, WriteLogout, window
  <2>2. PICK phase : Proceed(c, phase)
    BY <2>1
  <2> DEFINE next == [c EXCEPT !.phase = phase]
  <2>3. next.kind = c.kind /\ next.awaited = c.awaited /\ next.token = c.token /\ next.user = c.user
    BY DEF TypeOK, Calls
  <2>4. \A d \in calls' : d \in calls \ {c} \/ d = next
    BY <2>2 DEF Proceed
  <2> HIDE DEF next
  <2> QED
    BY <1>1, <2>1, <2>3, <2>4 DEF MeInv
<1>3. ASSUME NEW c \in calls, WriteLogin(c) PROVE MeInv'
  <2>1. PICK token \in Unused(c.user) :
          calls' = (calls \ {c})
                     \cup (IF c.awaited THEN {[c EXCEPT !.phase = "ok", !.token = token]} ELSE {})
    BY <1>3 DEF WriteLogin
  <2> DEFINE next == [c EXCEPT !.phase = "ok", !.token = token]
  <2>2. next.kind = "login" /\ c.kind = "login" /\ next.awaited = c.awaited
    BY <1>3 DEF TypeOK, Calls, WriteLogin
  <2>3. \A d \in calls' : d \in calls \/ (d = next /\ c.awaited)
    BY <2>1
  <2>4. UNCHANGED <<page, cookie>>
    BY <1>3 DEF WriteLogin, window
  <2> HIDE DEF next
  <2> QED
    BY <2>2, <2>3, <2>4 DEF MeInv
<1>4. ASSUME NEW c \in calls, WritePassword(c) PROVE MeInv'
  <2>1. UNCHANGED <<page, cookie>> /\ c.kind # "me"
    BY <1>4 DEF WritePassword, window
  <2>2. \A d \in calls' : d.awaited => \E e \in calls :
           e.awaited /\ d.kind = e.kind /\ d.token = e.token /\ d.user = e.user
    BY <1>4 DEF WritePassword, TypeOK, Calls
  <2>3. \A d, f \in calls' : d.awaited /\ f.awaited /\ page = "loading" => d = f
    <3> SUFFICES ASSUME NEW d \in calls', NEW f \in calls', d.awaited, f.awaited, page = "loading"
                 PROVE  d = f
      OBVIOUS
    <3>1. ~c.awaited
      BY <2>1 DEF MeInv
    <3>2. PICK e \in calls : d = [e EXCEPT !.stale = @ \/ (e.kind = "login" /\ e.phase = "read" /\ e.user = c.user)]
      BY <1>4, <3>1 DEF WritePassword
    <3>3. PICK g \in calls : f = [g EXCEPT !.stale = @ \/ (g.kind = "login" /\ g.phase = "read" /\ g.user = c.user)]
      BY <1>4, <3>1 DEF WritePassword
    <3>4. e.awaited /\ g.awaited
      BY <3>2, <3>3 DEF TypeOK, Calls
    <3>5. e = g
      BY <3>4 DEF MeInv
    <3> QED
      BY <3>2, <3>3, <3>5
  <2> QED
    BY <1>1, <2>1, <2>2, <2>3
<1>5. ASSUME NEW c \in calls, Receive(c) PROVE MeInv'
  <2>1. c.awaited /\ calls' = calls \ {c} /\ cookie' = CookieAfter(c) /\ page' = PageAfter(c)
    BY <1>5 DEF Receive
  <2>2. CASE page = "loading"
    <3>1. \A d \in calls' : ~d.awaited
      BY <2>1, <2>2 DEF MeInv
    <3> QED
      BY <3>1 DEF MeInv
  <2>3. CASE page # "loading"
    <3>1. \A d \in calls : d.awaited => d.kind # "me"
      BY <2>3 DEF MeInv
    <3>2. page' # "loading"
      BY <2>1, <2>3 DEF PageAfter, TypeOK, Calls
    <3> QED
      BY <2>1, <3>1, <3>2 DEF MeInv
  <2> QED
    BY <2>2, <2>3
<1>6. ASSUME NEW c \in calls, LoseConnection(c) PROVE MeInv'
  <2> DEFINE lost == [c EXCEPT !.phase = "lost"]
  <2>1. lost.kind = c.kind /\ lost.awaited = c.awaited /\ lost.token = c.token /\ lost.user = c.user
    BY DEF TypeOK, Calls
  <2>2. \A d \in Abandoned(c) : ~d.awaited
    BY DEF Abandoned, TypeOK, Calls
  <2>3. \A d \in calls' : d \in calls \ {c} \/ d \in Abandoned(c) \/ d = lost
    BY <1>6 DEF LoseConnection
  <2>4. UNCHANGED <<page, cookie>>
    BY <1>6 DEF LoseConnection, window
  <2> HIDE DEF lost
  <2> QED
    BY <1>1, <2>1, <2>2, <2>3, <2>4 DEF MeInv
<1>7. CASE PressLogin \/ PressUse \/ PressLogout \/ PressChange
  <2>1. page # "loading" /\ UNCHANGED <<page, cookie>>
    BY <1>7 DEF PressLogin, PressUse, PressLogout, PressChange, ShowsLogin, SignedIn, Send, window
  <2>2. \A d \in calls' : d \in calls \/ d.kind # "me"
    BY <1>7 DEF PressLogin, PressUse, PressLogout, PressChange, Send, Naming, FromPage
  <2> QED
    BY <2>1, <2>2 DEF MeInv
<1>8. CASE LoginElsewhere \/ ResetElsewhere
  <2>1. UNCHANGED <<page, cookie>> /\ \A d \in calls' : d \in calls \/ ~d.awaited
    BY <1>8 DEF LoginElsewhere, ResetElsewhere, Send, Naming, window
  <2> QED
    BY <2>1 DEF MeInv
<1>9. CASE Tick \/ CleanUp \/ UNCHANGED vars
  BY <1>9 DEF Tick, CleanUp, vars, window, MeInv
<1>10. CASE Reload
  <2>1. page' = "loading" /\ UNCHANGED cookie
    BY <1>10 DEF Reload
  <2>2. \A d \in calls' : d = FromPage("me") \/ ~d.awaited
    BY <1>10 DEF Reload, Abandoned, TypeOK, Calls
  <2> DEFINE asking == FromPage("me")
  <2>3. asking.kind = "me" /\ asking.token = cookie /\ asking.user = Owner(cookie)
    BY DEF FromPage
  <2> HIDE DEF asking
  <2> QED
    BY <2>1, <2>2, <2>3 DEF MeInv, asking, Owner
<1> QED
  BY <1>2, <1>3, <1>4, <1>5, <1>6, <1>7, <1>8, <1>9, <1>10 DEF Next, Read, Write

\* The page shows the user of its cookie.
LEMMA PageStep ==
  TypeOK /\ LoginInv /\ MeInv /\ PageIsCookies /\ [Next]_vars => PageIsCookies'
<1> SUFFICES ASSUME TypeOK, LoginInv, MeInv, PageIsCookies, [Next]_vars PROVE PageIsCookies'
  OBVIOUS
<1>1. ASSUME UNCHANGED <<page, cookie>> PROVE PageIsCookies'
  BY <1>1 DEF PageIsCookies, SignedIn
<1>2. ASSUME NEW c \in calls, Receive(c) PROVE PageIsCookies'
  <2>1. c.awaited /\ cookie' = CookieAfter(c) /\ page' = PageAfter(c) /\ c \in Calls
    BY <1>2 DEF Receive, TypeOK
  <2>2. CASE c.kind = "login" /\ c.phase = "ok"
    BY <2>1, <2>2 DEF CookieAfter, PageAfter, LoginInv, PageIsCookies
  <2>3. CASE c.kind = "me" /\ c.phase = "ok"
    BY <2>1, <2>3 DEF CookieAfter, PageAfter, MeInv, PageIsCookies
  <2>4. CASE c.kind \in {"login", "use", "change", "reset"} /\ c.phase # "ok"
    <3>1. cookie' = cookie /\ page' \in {page, "nobody"}
      BY <2>1, <2>4 DEF CookieAfter, PageAfter
    <3> QED
      BY <3>1, NamesAssumption DEF PageIsCookies, SignedIn
  <2>5. CASE c.kind \in {"use", "reset"} /\ c.phase = "ok"
    BY <2>1, <2>5 DEF CookieAfter, PageAfter, PageIsCookies, SignedIn
  <2>6. CASE c.kind = "logout" \/ (c.kind = "me" /\ c.phase # "ok") \/ (c.kind = "change" /\ c.phase = "ok")
    <3>1. page' = "nobody"
      BY <2>1, <2>6 DEF PageAfter
    <3> QED
      BY <3>1, NamesAssumption DEF PageIsCookies, SignedIn
  <2> QED
    BY <2>1, <2>2, <2>3, <2>4, <2>5, <2>6 DEF Calls, Kinds
<1>3. CASE Reload
  BY <1>3, NamesAssumption DEF Reload, PageIsCookies, SignedIn
<1> QED
  BY <1>1, <1>2, <1>3 DEF Next, Read, Write, ReadLogin, Authenticate, ReadLogout, ReadReset,
     WriteLogin, WriteLogout, WritePassword, LoseConnection, PressLogin, PressUse, PressLogout,
     PressChange, LoginElsewhere, ResetElsewhere, Send, Tick, CleanUp, window, vars

-----------------------------------------------------------------------------
(***************************************************************************)
(* The theorems.                                                           *)
(***************************************************************************)
\* The inductive invariant holds in every reachable state.
THEOREM SessionsInvariant == Spec => []Inv
<1>1. Init => Inv
  <2> SUFFICES ASSUME Init PROVE Inv
    OBVIOUS
  <2> USE DEF Init
  <2>1. TypeOK
    <3>1. FromPage("me") \in Calls
      BY DEF FromPage, Calls, Kinds, Owner, NoToken
    <3> QED
      BY <3>1, BoundsAssumption DEF TypeOK
  <2>2. OverInv /\ LogoutInv /\ LoginInv /\ EndedServesNothing
    BY DEF OverInv, LogoutInv, LoginInv, EndedServesNothing, FromPage
  <2>3. DeadInv /\ MeInv
    BY DEF DeadInv, MeInv, FromPage, Owner, NoToken
  <2>4. PageIsCookies
    BY DEF PageIsCookies
  <2> QED
    BY <2>1, <2>2, <2>3, <2>4 DEF Inv
<1>2. Inv /\ [Next]_vars => Inv'
  BY TypeStep, OverStep, DeadStep, LogoutStep, LoginStep, MeStep, EndedStep, PageStep DEF Inv
<1> QED
  BY <1>1, <1>2, PTL DEF Spec

\* Sessions are typed, single in their table and no longer than configured.
THEOREM SessionsTyped == Spec => []TypeOK
BY SessionsInvariant, PTL DEF Inv

\* A session that was over when a request was sent never serves it, however
\* requests, expiry, resets and lost replies interleave.
THEOREM SessionsEndedServesNothing == Spec => []EndedServesNothing
BY SessionsInvariant, PTL DEF Inv

\* The page never shows one user while its cookie stands for another.
THEOREM SessionsPageIsCookies == Spec => []PageIsCookies
BY SessionsInvariant, PTL DEF Inv

=============================================================================
