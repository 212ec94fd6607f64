------------------------------ MODULE DashAuth ------------------------------
(***************************************************************************)
(* Sessions of the dashboard (internal/dash/auth.go, server.go): a visitor *)
(* logs in with the signed answer of Telegram's widget, gets a token as a  *)
(* cookie and reads the data routes with it.  Requests are on their way    *)
(* for a while and carry the cookie of the time they were sent; the server *)
(* may be restarted and forgets its sessions.                              *)
(***************************************************************************)
EXTENDS Integers, FiniteSets

CONSTANTS
    Visitors,     \* Telegram users with a browser
    DashAdmins,   \* DASH_ADMIN_IDS
    SessionTTL,   \* ticks a session lasts
    AuthAge,      \* ticks an answer of the widget is accepted
    MaxLogins, MaxDashTime   \* bounds: tokens, time

ASSUME DashAuthAssumption ==
    SessionTTL \in Nat /\ AuthAge \in Nat /\ MaxLogins \in Nat /\ MaxDashTime \in Nat

VARIABLES
    sessions,   \* token -> [user, expires]
    cookie,     \* [Visitors -> the token their browser holds, NoToken without]
    request,    \* [Visitors -> the token a request under way carries, Idle without one]
    tokens,     \* tokens given out so far
    dashTime,
    origin,     \* history: token -> [user, at : time of its login, ended : logged out]
    answer      \* history: the last data shown, the token it was asked with and whether that had ended

dashVars == <<sessions, cookie, request, tokens, dashTime, origin, answer>>

NoToken == 0
Idle == -1
NoAnswer == [token |-> NoToken, user |-> "none", at |-> 0, ended |-> FALSE]
Tokens == 1..MaxLogins

DashAuthTypeOK ==
    /\ DOMAIN sessions \subseteq Tokens
    /\ cookie \in [Visitors -> Tokens \cup {NoToken}]
    /\ request \in [Visitors -> Tokens \cup {NoToken, Idle}]
    /\ tokens \in 0..MaxLogins /\ dashTime \in 0..MaxDashTime
    /\ DOMAIN origin = 1..tokens

DashAuthInit ==
    /\ sessions = <<>>
    /\ cookie = [v \in Visitors |-> NoToken]
    /\ request = [v \in Visitors |-> Idle]
    /\ tokens = 0 /\ dashTime = 0
    /\ origin = <<>>
    /\ answer = NoAnswer

Expired(t) == dashTime > sessions[t].expires

(* Expired sessions go with every login. *)
cleanupLocked == [t \in {u \in DOMAIN sessions : ~Expired(u)} |-> sessions[t]]

Put(f, t, x) == [s \in {t} \cup DOMAIN f |-> IF s = t THEN x ELSE f[s]]

issue(user) ==
    /\ tokens < MaxLogins
    /\ tokens' = tokens + 1
    /\ sessions' = Put(cleanupLocked, tokens', [user |-> user, expires |-> dashTime + SessionTTL])
    /\ origin' = Put(origin, tokens', [user |-> user, at |-> dashTime, ended |-> FALSE])

(* The widget's answer: whether the signature fits and when it was made.    *)
(* Dates ahead of the clock are accepted.                                   *)
telegramAuth(form) == form.signed /\ dashTime - form.date =< AuthAge

dashAdmin(user) == user \in DashAdmins

handleAuthLogin(v, form) ==
    /\ IF telegramAuth(form) /\ dashAdmin(v)
       THEN issue(v) /\ cookie' = [cookie EXCEPT ![v] = tokens']
       ELSE UNCHANGED <<sessions, tokens, origin, cookie>>
    /\ UNCHANGED <<request, dashTime, answer>>

Forget(t) == [u \in DOMAIN sessions \ {t} |-> sessions[u]]

\* Mutant: the cookie is cleared and the session stays.
revokeNothing(t) == UNCHANGED sessions

revoke(t) == sessions' = Forget(t)

handleAuthLogout(v) ==
    /\ cookie[v] # NoToken
    /\ revoke(cookie[v])
    /\ origin' = [origin EXCEPT ![cookie[v]].ended = TRUE]
    /\ cookie' = [cookie EXCEPT ![v] = NoToken]
    /\ UNCHANGED <<request, tokens, dashTime, answer>>

SendRequest(v) ==
    /\ request[v] = Idle
    /\ request' = [request EXCEPT ![v] = cookie[v]]
    /\ UNCHANGED <<sessions, cookie, tokens, dashTime, origin, answer>>

(* An expired session is removed on sight. *)
lookup(t) == t \in DOMAIN sessions /\ ~Expired(t)

(* Both the data routes, behind requireAuth, and the public status route    *)
(* look the token up; only the former show data.                            *)
requireAuth(v, dataRoute) ==
    LET t == request[v]
    IN /\ t # Idle
       /\ sessions' = IF t \in DOMAIN sessions /\ ~lookup(t) THEN Forget(t) ELSE sessions
       /\ answer' = IF dataRoute /\ lookup(t)
                    THEN [token |-> t, user |-> sessions[t].user, at |-> dashTime, ended |-> origin[t].ended]
                    ELSE answer
       /\ request' = [request EXCEPT ![v] = Idle]
       /\ UNCHANGED <<cookie, tokens, dashTime, origin>>

DashRestarts ==
    /\ sessions # <<>>
    /\ sessions' = <<>>
    /\ origin' = [t \in DOMAIN origin |-> [origin[t] EXCEPT !.ended = TRUE]]
    /\ UNCHANGED <<cookie, request, tokens, dashTime, answer>>

DashTick ==
    /\ dashTime < MaxDashTime /\ dashTime' = dashTime + 1
    /\ UNCHANGED <<sessions, cookie, request, tokens, origin, answer>>

DashAuthNext ==
    \/ \E v \in Visitors :
         \/ \E signed \in BOOLEAN, date \in 0..MaxDashTime :
              handleAuthLogin(v, [signed |-> signed, date |-> date])
         \/ handleAuthLogout(v) \/ SendRequest(v)
         \/ \E d \in BOOLEAN : requireAuth(v, d)
    \/ DashRestarts \/ DashTick

-----------------------------------------------------------------------------
(* Data is shown only for a token that was given to an admin, that nobody   *)
(* has logged out of and that is not older than its time to live, also when *)
(* the request was sent before the logout, a later login or a restart       *)
(* (requireAuth, lookup, revoke).                                           *)
DataForLiveSessions ==
    answer.token # NoToken =>
        /\ answer.user \in DashAdmins /\ answer.user = origin[answer.token].user
        /\ ~answer.ended
        /\ answer.at - origin[answer.token].at =< SessionTTL
=============================================================================
