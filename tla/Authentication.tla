--------------------------- MODULE Authentication ---------------------------
(* Accounts, sessions, the login throttle and the cookies of the browsers.   *)
(*                                                                           *)
(* Every call of the gateway is a transaction of its own, so a handler is    *)
(* interleaved with the others at each of its awaits: it acts on what it     *)
(* read before them.  The throttle is memory of the one server process, and  *)
(* is lost when the process restarts; the tables are not.                    *)
(*                                                                           *)
(* The tabs of a browser share its cookies, and the server sees one address  *)
(* for them all.  A token is the number of the session it opens; 0 is none.  *)
EXTENDS Integers, Sequences, FiniteSets

CONSTANTS Browsers,
          Tabs,          \* tabs of each browser
          Names,         \* canonical user names
          Passwords,
          None,          \* no name, no password
          Maximum,       \* attempts the throttle admits in a window
          Window,
          Lifetime,      \* of a session and of its cookies
          CookieSecure,  \* NOTES_COOKIE_SECURE: the cookie is __Host-notes_session
          MaxClock,      \* bound: the last instant
          MaxSessions,   \* bound: how many sessions are ever opened
          MaxRestarts    \* bound: how often the server ever restarts

ASSUME NoneAssumption == None \notin Names \cup Passwords
ASSUME LimitsAssumption ==
    /\ Maximum \in Nat \ {0} /\ Window \in Nat /\ Lifetime \in Nat \ {0}
    /\ CookieSecure \in BOOLEAN
    /\ MaxClock \in Nat /\ MaxSessions \in Nat /\ MaxRestarts \in Nat

VARIABLES clock,
          users,     \* the users table: the password of each account
          sessions,  \* the sessions table, in the order of its inserts
          attempts,  \* LoginThrottle._attempts of each address
          jar,       \* the cookies of each browser
          pc,        \* where the request of each tab is
          req,       \* what the handler of each request works with
          restarts,
          admitted,  \* history: attempts since the last success or restart
          created,   \* history: how many 201 each name was answered
          out,       \* history: sessions whose logout was answered
          unheard    \* history: sessions whose logout's answer was lost

vars == <<clock, users, sessions, attempts, jar, pc, req, restarts,
          admitted, created, out, unheard>>

Pages == Browsers \X Tabs
Browser(p) == p[1]

AtRest == {"idle", "created", "conflict", "error", "refused", "denied",
           "welcome", "anonymous", "rejected", "goodbye", "known", "lost"}

Steps == AtRest \cup {"looking_up", "adding_user", "verifying",
                      "adding_session", "welcoming", "asking", "identifying",
                      "sending", "authenticating", "revoking", "leaving"}

NoRequest == [name |-> None, password |-> None, fits |-> TRUE,
              now |-> 0, token |-> 0, csrf |-> 0]
NoCookies == [session |-> 0, csrf |-> 0, until |-> 0]

Tables   == <<users, sessions>>
Throttle == <<attempts, admitted>>
Logouts  == <<out, unheard>>

-----------------------------------------------------------------------------
(* Requests and answers                                                      *)

\* The cookies a browser still keeps and would send.
Cookies(b) == IF clock < jar[b].until THEN jar[b] ELSE NoCookies

\* The handler of p goes on at `step' with `request'.
Goes(p, step, request) ==
    /\ pc' = [pc EXCEPT ![p] = step]
    /\ req' = [req EXCEPT ![p] = request]

Answer(p, answer) == Goes(p, answer, NoRequest)

-----------------------------------------------------------------------------
(* POST /auth/register                                                       *)

\* A display name may satisfy the schema and not `fit': too short once it is
\* trimmed, or too long once it is folded.
Register(p, name, password, fits) ==
    /\ pc[p] \in AtRest
    /\ Goes(p, "looking_up", [NoRequest EXCEPT !.name = name,
                                 !.password = password, !.fits = fits])
    /\ UNCHANGED <<clock, Tables, Throttle, jar, restarts, created, Logouts>>

LookUpName(p) ==
    /\ pc[p] = "looking_up"
    /\ IF users[req[p].name] # None THEN Answer(p, "conflict")
                                    ELSE Goes(p, "adding_user", req[p])
    /\ UNCHANGED <<clock, Tables, Throttle, jar, restarts, created, Logouts>>

\* Variant: username_canonical is not unique.
InsertableAlways(request) == request.fits

\* username_canonical is unique: an insert that lost the race, like one that
\* does not fit, raises what no handler catches.
Insertable(request) == request.fits /\ users[request.name] = None

AddUser(p) ==
    /\ pc[p] = "adding_user"
    /\ IF Insertable(req[p])
       THEN /\ users' = [users EXCEPT ![req[p].name] = req[p].password]
            /\ created' = [created EXCEPT ![req[p].name] = @ + 1]
            /\ Answer(p, "created")
       ELSE Answer(p, "error") /\ UNCHANGED <<users, created>>
    /\ UNCHANGED <<clock, sessions, Throttle, jar, restarts, Logouts>>

-----------------------------------------------------------------------------
(* POST /auth/login                                                          *)

\* Variant: an attempt is old as soon as the window has passed.
IsOldEarly(time) == clock - time >= Window

IsOld(time) == clock - time > Window

\* How many attempts the loop drops: it stops at the first that is not old.
Dropped(times) ==
    {k \in 0..Len(times) : /\ \A i \in 1..k : IsOld(times[i])
                           /\ k < Len(times) => ~IsOld(times[k + 1])}

\* Variant: one attempt more than the maximum.
HasRoomForOneMore(times) == Len(times) <= Maximum

HasRoom(times) == Len(times) < Maximum

\* Variant: a refused attempt is recorded too.
RecordedAlways(times) == Append(times, clock)

Recorded(times) == IF HasRoom(times) THEN Append(times, clock) ELSE times

OpeningSession == {p \in Pages : pc[p] \in {"verifying", "adding_session"}}

\* LoginThrottle.check_and_record: whether p is admitted with `times' on record.
CheckAndRecord(p, times, request) ==
    /\ attempts' = [attempts EXCEPT ![Browser(p)] = Recorded(times)]
    /\ IF HasRoom(times)
       THEN /\ admitted' = [admitted EXCEPT ![Browser(p)] = Append(@, clock)]
            /\ Goes(p, "verifying", request)
       ELSE Answer(p, "refused") /\ UNCHANGED admitted

Login(p, name, password) ==
    /\ pc[p] \in AtRest
    /\ Len(sessions) + Cardinality(OpeningSession) < MaxSessions
    /\ LET times == attempts[Browser(p)]
       IN  \E k \in Dropped(times) :
              CheckAndRecord(p, SubSeq(times, k + 1, Len(times)),
                  [NoRequest EXCEPT !.name = name, !.password = password, !.now = clock])
    /\ UNCHANGED <<clock, Tables, jar, restarts, created, Logouts>>

Forget(b) ==
    /\ attempts' = [attempts EXCEPT ![b] = <<>>]
    /\ admitted' = [admitted EXCEPT ![b] = <<>>]

\* A success forgets every attempt of its address, whoever made it.
Verify(p) ==
    /\ pc[p] = "verifying"
    /\ IF users[req[p].name] = req[p].password
       THEN Goes(p, "adding_session", req[p]) /\ Forget(Browser(p))
       ELSE Answer(p, "denied") /\ UNCHANGED Throttle
    /\ UNCHANGED <<clock, Tables, jar, restarts, created, Logouts>>

AddSession(p) ==
    /\ pc[p] = "adding_session"
    /\ sessions' = Append(sessions, [user |-> req[p].name, revoked |-> FALSE,
                                     expires |-> req[p].now + Lifetime])
    /\ Goes(p, "welcoming", [req[p] EXCEPT !.token = Len(sessions) + 1])
    /\ UNCHANGED <<clock, users, Throttle, jar, restarts, created, Logouts>>

\* The answer sets both cookies, whatever the browser holds by then.
Welcome(p) ==
    /\ pc[p] = "welcoming"
    /\ jar' = [jar EXCEPT ![Browser(p)] =
                  [session |-> req[p].token, csrf |-> req[p].token,
                   until |-> clock + Lifetime]]
    /\ Answer(p, "welcome")
    /\ UNCHANGED <<clock, Tables, Throttle, restarts, created, Logouts>>

-----------------------------------------------------------------------------
(* The session of a request                                                  *)

\* Variant: a revoked session is active until it expires.
IsActiveUntilExpiry(session) == session.expires > clock

IsActive(session) == ~session.revoked /\ session.expires > clock

\* GET /auth/me sends the cookie; without one it is answered 401 at once.
Me(p) ==
    LET token == Cookies(Browser(p)).session
    IN  /\ pc[p] \in AtRest
        /\ IF token = 0 THEN Answer(p, "anonymous")
                        ELSE Goes(p, "asking", [NoRequest EXCEPT !.token = token])
        /\ UNCHANGED <<clock, Tables, Throttle, jar, restarts, created, Logouts>>

CurrentSession(p) ==
    /\ pc[p] = "asking"
    /\ IF IsActive(sessions[req[p].token]) THEN Goes(p, "identifying", req[p])
                                           ELSE Answer(p, "anonymous")
    /\ UNCHANGED <<clock, Tables, Throttle, jar, restarts, created, Logouts>>

CurrentUser(p) ==
    /\ pc[p] = "identifying"
    /\ Answer(p, IF users[sessions[req[p].token].user] # None THEN "known"
                                                             ELSE "anonymous")
    /\ UNCHANGED <<clock, Tables, Throttle, jar, restarts, created, Logouts>>

-----------------------------------------------------------------------------
(* POST /auth/logout                                                         *)

\* The page reads the CSRF cookie into a header; the browser adds the session
\* cookie when it sends the request.
ReadCsrf(p) ==
    /\ pc[p] \in AtRest
    /\ Goes(p, "sending", [NoRequest EXCEPT !.csrf = Cookies(Browser(p)).csrf])
    /\ UNCHANGED <<clock, Tables, Throttle, jar, restarts, created, Logouts>>

SendLogout(p) ==
    LET token == Cookies(Browser(p)).session
    IN  /\ pc[p] = "sending"
        /\ IF token = 0 THEN Answer(p, "anonymous")
                        ELSE Goes(p, "authenticating", [req[p] EXCEPT !.token = token])
        /\ UNCHANGED <<clock, Tables, Throttle, jar, restarts, created, Logouts>>

MutationSession(p) ==
    /\ pc[p] = "authenticating"
    /\ IF ~IsActive(sessions[req[p].token]) THEN Answer(p, "anonymous")
       ELSE IF req[p].csrf # req[p].token THEN Answer(p, "rejected")
       ELSE Goes(p, "revoking", req[p])
    /\ UNCHANGED <<clock, Tables, Throttle, jar, restarts, created, Logouts>>

Revoke(p) ==
    /\ pc[p] = "revoking"
    /\ sessions' = [sessions EXCEPT ![req[p].token].revoked = TRUE]
    /\ Goes(p, "leaving", req[p])
    /\ UNCHANGED <<clock, users, Throttle, jar, restarts, created, Logouts>>

\* Variant: the answer deletes only the CSRF cookie.
WithoutCsrf(cookies) == [cookies EXCEPT !.csrf = 0]

\* delete_cookie names the cookies, not their values, and does not mark them
\* Secure: a browser ignores that for a name with the prefix __Host-.
Deleted(cookies) ==
    [cookies EXCEPT !.csrf = 0,
                    !.session = IF CookieSecure THEN @ ELSE 0]

Goodbye(p) ==
    /\ pc[p] = "leaving"
    /\ jar' = [jar EXCEPT ![Browser(p)] = Deleted(@)]
    /\ out' = out \cup {req[p].token}
    /\ Answer(p, "goodbye")
    /\ UNCHANGED <<clock, Tables, Throttle, restarts, created, unheard>>

-----------------------------------------------------------------------------
(* Time, and what goes wrong                                                 *)

Tick ==
    /\ clock < MaxClock
    /\ clock' = clock + 1
    /\ UNCHANGED <<Tables, Throttle, jar, pc, req, restarts, created, Logouts>>

Leaving(pages) == {req[p].token : p \in {q \in pages : pc[q] = "leaving"}}

\* The connection breaks before an answer that carries cookies arrives.
Lose(p) ==
    /\ pc[p] \in {"welcoming", "leaving"}
    /\ unheard' = unheard \cup Leaving({p})
    /\ Answer(p, "lost")
    /\ UNCHANGED <<clock, Tables, Throttle, jar, restarts, created, out>>

AtServer(p) == pc[p] \notin AtRest \cup {"sending"}

\* The server stops and starts again: its requests and its throttle are gone.
Restart ==
    /\ restarts < MaxRestarts
    /\ restarts' = restarts + 1
    /\ attempts' = [b \in Browsers |-> <<>>]
    /\ admitted' = [b \in Browsers |-> <<>>]
    /\ unheard' = unheard \cup Leaving(Pages)
    /\ pc' = [p \in Pages |-> IF AtServer(p) THEN "lost" ELSE pc[p]]
    /\ req' = [p \in Pages |-> IF AtServer(p) THEN NoRequest ELSE req[p]]
    /\ UNCHANGED <<clock, Tables, jar, created, out>>

-----------------------------------------------------------------------------

Init ==
    /\ clock = 0
    /\ users = [n \in Names |-> None]
    /\ sessions = <<>>
    /\ attempts = [b \in Browsers |-> <<>>]
    /\ jar = [b \in Browsers |-> NoCookies]
    /\ pc = [p \in Pages |-> "idle"]
    /\ req = [p \in Pages |-> NoRequest]
    /\ restarts = 0
    /\ admitted = [b \in Browsers |-> <<>>]
    /\ created = [n \in Names |-> 0]
    /\ out = {}
    /\ unheard = {}

RegisterStep(p) ==
    \/ \E n \in Names, w \in Passwords, fits \in BOOLEAN : Register(p, n, w, fits)
    \/ LookUpName(p)
    \/ AddUser(p)

LoginStep(p) ==
    \/ \E n \in Names, w \in Passwords : Login(p, n, w)
    \/ Verify(p)
    \/ AddSession(p)
    \/ Welcome(p)

MeStep(p) == Me(p) \/ CurrentSession(p) \/ CurrentUser(p)

LogoutStep(p) ==
    \/ ReadCsrf(p)
    \/ SendLogout(p)
    \/ MutationSession(p)
    \/ Revoke(p)
    \/ Goodbye(p)

Next ==
    \/ \E p \in Pages : RegisterStep(p) \/ LoginStep(p) \/ MeStep(p)
                        \/ LogoutStep(p) \/ Lose(p)
    \/ Tick
    \/ Restart

Spec == Init /\ [][Next]_vars

-----------------------------------------------------------------------------
(* Properties                                                                *)

RequestRecord ==
    [name : Names \cup {None}, password : Passwords \cup {None},
     fits : BOOLEAN, now : Nat, token : Nat, csrf : Nat]

SessionRecord == [user : Names, expires : Nat, revoked : BOOLEAN]

\* The types of the tables, the cookies and the handlers' values: an address
\* never has more attempts on record than the throttle admits, and a token in
\* use is one of a session (LoginThrottle, SessionRepository).
TypeOK ==
    /\ clock \in Nat
    /\ users \in [Names -> Passwords \cup {None}]
    /\ sessions \in Seq(SessionRecord)
    /\ attempts \in [Browsers -> Seq(Nat)]
    /\ \A b \in Browsers : Len(attempts[b]) <= Maximum
    /\ jar \in [Browsers -> [session : 0..Len(sessions),
                             csrf : 0..Len(sessions), until : Nat]]
    /\ pc \in [Pages -> Steps]
    /\ req \in [Pages -> RequestRecord]
    /\ \A p \in Pages : req[p].token \in 0..Len(sessions)
    /\ restarts \in Nat
    /\ admitted \in [Browsers -> Seq(Nat)]
    /\ created \in [Names -> Nat]
    /\ out \subseteq 1..Len(sessions)
    /\ unheard \subseteq 1..Len(sessions)

\* Two registrations of one name are never both answered 201, although both may
\* have looked the name up before either was added.
OneAccountPerName == \A n \in Names : created[n] <= 1

\* The throttle's window slides: of the attempts of one address between two
\* successes, no Maximum + 1 in a row lie within a window, even when the
\* passwords of several are being verified meanwhile.
ThrottleWindow ==
    \A b \in Browsers : \A i \in 1..Len(admitted[b]) :
        i + Maximum <= Len(admitted[b])
            => admitted[b][i + Maximum] - admitted[b][i] > Window

\* Nobody is refused for what was refused: a 429 means that Maximum attempts
\* were admitted within the window that ends now.
RefusalIsDue ==
    [][\A p \in Pages : (pc[p] # "refused" /\ pc'[p] = "refused")
          => LET times == admitted[Browser(p)]
             IN  /\ Len(times) >= Maximum
                 /\ clock - times[Len(times) - Maximum + 1] <= Window]_vars

\* A session is over, for every request that is checked from then on, once a
\* logout of it was answered or its lifetime has passed since the login began.
AcceptedIsLive ==
    [][\A p \in Pages :
          (/\ pc[p] \in {"asking", "authenticating"}
           /\ pc'[p] \in {"identifying", "revoking"})
             => /\ req[p].token \notin out
                /\ clock < sessions[req[p].token].expires]_vars

\* With cookies that are not Secure, a browser keeps the token of a revoked
\* session only as long as the answer to the logout is on its way, or when that
\* answer was lost: no late answer to a login brings such a token back.
RevokedTokenLeaves ==
    CookieSecure \/ \A b \in Browsers :
        LET token == jar[b].session
        IN  (token # 0 /\ sessions[token].revoked)
               => \/ token \in unheard
                  \/ \E p \in Pages : /\ Browser(p) = b /\ pc[p] = "leaving"
                                      /\ req[p].token = token

-----------------------------------------------------------------------------
(* What the documents say and the code does not do                           *)

\* openapi.yaml: the answer to a logout expires the cookies.
LogoutExpiresCookies ==
    [][\A p \in Pages : (pc[p] = "leaving" /\ pc'[p] = "goodbye")
          => jar'[Browser(p)].session # req[p].token]_vars
=============================================================================
