------------------------ MODULE AuthenticationProofs ------------------------
(* The throttle, the accounts and the sessions, for any browsers, tabs,      *)
(* names, limits and restarts.                                               *)
(*                                                                           *)
(* Most actions only move one handler on: HandlerMoves says what they keep.  *)
(* The throttle, the tables and the cookies each have a lemma of their own.  *)
EXTENDS AuthenticationInv, SequenceTheorems, TLAPS

-----------------------------------------------------------------------------
(* What an action changes                                                    *)

\* The address of a page is its browser's.
LEMMA PageFacts == ASSUME NEW p \in Pages PROVE Browser(p) \in Browsers
BY DEF Pages, Browser

\* The values that stand for no request.
LEMMA NoRequestFacts ==
    /\ NoRequest \in RequestRecord
    /\ NoRequest.token = 0
    /\ AtRest \subseteq Steps
BY DEF NoRequest, RequestRecord, AtRest, Steps

\* The request of a handler has every field, each with its type.
LEMMA RequestFacts ==
    ASSUME TypeOK, NEW p \in Pages
    PROVE  /\ req[p] \in RequestRecord /\ pc[p] \in Steps
           /\ req[p].name \in Names \cup {None}
           /\ req[p].password \in Passwords \cup {None}
           /\ req[p].token \in 0..Len(sessions) /\ req[p].csrf \in Nat
           /\ req[p].now \in Nat /\ req[p].fits \in BOOLEAN
           /\ Len(sessions) \in Nat
BY DEF TypeOK, RequestRecord

\* What Goes changes, and leaves as it was.
LEMMA GoesFacts ==
    ASSUME TypeOK, NEW p \in Pages, NEW step \in Steps, NEW r \in RequestRecord,
           Goes(p, step, r)
    PROVE  /\ pc' \in [Pages -> Steps] /\ req' \in [Pages -> RequestRecord]
           /\ pc'[p] = step /\ req'[p] = r
           /\ \A q \in Pages : q # p => pc'[q] = pc[q] /\ req'[q] = req[q]
BY DEF TypeOK, Goes

\* What a step and its request have to agree on.
Agree(step, r, accounts) ==
    /\ step \in {"looking_up", "adding_user", "verifying", "adding_session"}
          => r.name \in Names /\ r.password \in Passwords
    /\ step = "adding_session" => accounts[r.name] # None
    /\ step \in {"welcoming", "asking", "identifying", "authenticating",
                 "revoking", "leaving"} <=> r.token # 0

\* A handler that moves on with the token it had, or with its browser's, keeps
\* what is known of the tokens.
LEMMA HandlerMoves ==
    ASSUME IndInv, NEW p \in Pages, NEW step \in Steps, NEW r \in RequestRecord,
           Goes(p, step, r), Agree(step, r, users), step \notin {"welcoming", "leaving"},
           r.token \in {0, req[p].token, jar[Browser(p)].session},
           req[p].token # 0 /\ r.token = req[p].token => pc[p] # "welcoming",
           pc[p] = "leaving" => req[p].token \in unheard',
           unheard \subseteq unheard',
           UNCHANGED <<users, sessions, jar, out>>
    PROVE  /\ pc' \in [Pages -> Steps] /\ req' \in [Pages -> RequestRecord]
           /\ \A q \in Pages : req'[q].token \in 0..Len(sessions)
           /\ HandlerInv' /\ TokenInv' /\ RevokedTokenLeaves' /\ LogoutInv'
<1>1. /\ pc' \in [Pages -> Steps] /\ req' \in [Pages -> RequestRecord]
      /\ pc'[p] = step /\ req'[p] = r
      /\ \A q \in Pages : q # p => pc'[q] = pc[q] /\ req'[q] = req[q]
  BY GoesFacts DEF IndInv
<1>2. /\ \A q \in Pages : req[q].token \in 0..Len(sessions)
      /\ \A b \in Browsers : jar[b].session \in 0..Len(sessions)
      /\ Len(sessions) \in Nat /\ Browser(p) \in Browsers
  BY PageFacts DEF IndInv, TypeOK
<1>3. \A q \in Pages : req'[q].token \in 0..Len(sessions)
  BY <1>1, <1>2
<1>4. HandlerInv'
  <2> SUFFICES ASSUME NEW q \in Pages PROVE Agree(pc'[q], req'[q], users)
    BY DEF HandlerInv, Agree
  <2>1. Agree(pc[q], req[q], users)
    BY DEF IndInv, HandlerInv, Agree
  <2> QED
    BY <1>1, <2>1
<1>5. TokenInv'
  <2>1. \A b, c \in Browsers :
          (jar'[b].session = jar'[c].session /\ b # c) => jar'[b].session = 0
    BY DEF IndInv, TokenInv
  <2>2. ASSUME NEW b \in Browsers, NEW q \in Pages,
               req'[q].token = jar[b].session, req'[q].token # 0
        PROVE  Browser(q) = b /\ pc'[q] # "welcoming"
    <3>1. CASE q # p
      BY <3>1, <2>2, <1>1 DEF IndInv, TokenInv
    <3>2. CASE q = p /\ r.token = jar[Browser(p)].session
      BY <3>2, <2>2, <1>1, <1>2 DEF IndInv, TokenInv
    <3>3. CASE q = p /\ r.token = req[p].token
      BY <3>3, <2>2, <1>1 DEF IndInv, TokenInv
    <3> QED
      BY <3>1, <3>2, <3>3, <2>2, <1>1
  <2>3. ASSUME NEW q \in Pages, q # p, req'[q].token = r.token, r.token # 0
        PROVE  /\ Browser(p) = Browser(q)
               /\ pc'[q] # "welcoming" /\ pc'[p] # "welcoming"
    <3>1. CASE r.token = jar[Browser(p)].session
      BY <3>1, <2>3, <1>1, <1>2 DEF IndInv, TokenInv
    <3>2. CASE r.token = req[p].token
      BY <3>2, <2>3, <1>1 DEF IndInv, TokenInv
    <3> QED
      BY <3>1, <3>2, <2>3
  <2>4. ASSUME NEW q \in Pages, NEW s \in Pages,
               req'[q].token = req'[s].token, req'[q].token # 0, q # s
        PROVE  Browser(q) = Browser(s) /\ pc'[q] # "welcoming"
    <3>1. CASE q = p
      BY <3>1, <2>3, <2>4, <1>1
    <3>2. CASE s = p
      BY <3>2, <2>3, <2>4, <1>1
    <3>3. CASE q # p /\ s # p
      BY <3>3, <2>4, <1>1 DEF IndInv, TokenInv
    <3> QED
      BY <3>1, <3>2, <3>3
  <2>5. \A q \in Pages : pc'[q] = "welcoming" => ~sessions[req'[q].token].revoked
    BY <1>1 DEF IndInv, TokenInv
  <2> QED
    BY <2>1, <2>2, <2>4, <2>5 DEF TokenInv
<1>6. RevokedTokenLeaves'
  <2> SUFFICES ASSUME ~CookieSecure, NEW b \in Browsers,
                      jar[b].session # 0, sessions[jar[b].session].revoked,
                      jar[b].session \notin unheard'
               PROVE  \E q \in Pages : /\ Browser(q) = b /\ pc'[q] = "leaving"
                                       /\ req'[q].token = jar[b].session
    BY DEF RevokedTokenLeaves
  <2>1. PICK q \in Pages : /\ Browser(q) = b /\ pc[q] = "leaving"
                           /\ req[q].token = jar[b].session
    BY DEF IndInv, RevokedTokenLeaves
  <2>2. q # p
    BY <2>1
  <2> QED
    BY <2>1, <2>2, <1>1
<1>7. LogoutInv'
  BY <1>1 DEF IndInv, LogoutInv
<1> QED
  BY <1>1, <1>3, <1>4, <1>5, <1>6, <1>7

\* A step that leaves the throttle and the clock alone keeps what is known of it.
LEMMA ThrottleStays ==
    ASSUME IndInv, UNCHANGED <<clock, attempts, admitted>>
    PROVE  ThrottleInv' /\ ThrottleWindow'
BY DEF IndInv, ThrottleInv, ThrottleWindow, IsOld

\* A handler that moves on and changes nothing but, perhaps, what was unheard.
LEMMA MoveStep ==
    ASSUME IndInv, NEW p \in Pages, NEW step \in Steps, NEW r \in RequestRecord,
           Goes(p, step, r), Agree(step, r, users), step \notin {"welcoming", "leaving"},
           r.token \in {0, req[p].token, jar[Browser(p)].session},
           req[p].token # 0 /\ r.token = req[p].token => pc[p] # "welcoming",
           pc[p] = "leaving" => req[p].token \in unheard',
           unheard \subseteq unheard', unheard' \subseteq 1..Len(sessions),
           UNCHANGED <<clock, users, sessions, attempts, admitted, jar, restarts,
                       created, out>>
    PROVE  IndInv'
<1>1. /\ pc' \in [Pages -> Steps] /\ req' \in [Pages -> RequestRecord]
      /\ \A q \in Pages : req'[q].token \in 0..Len(sessions)
      /\ HandlerInv' /\ TokenInv' /\ RevokedTokenLeaves' /\ LogoutInv'
  BY HandlerMoves
<1>2. TypeOK'
  BY <1>1 DEF IndInv, TypeOK
<1>3. AccountInv'
  BY DEF IndInv, AccountInv
<1> QED
  BY <1>1, <1>2, <1>3, ThrottleStays DEF IndInv

\* The same for a handler that answers: its token is gone.
LEMMA AnswerStep ==
    ASSUME IndInv, NEW p \in Pages, NEW answer \in AtRest, Answer(p, answer),
           pc[p] = "leaving" => req[p].token \in unheard',
           unheard \subseteq unheard', unheard' \subseteq 1..Len(sessions),
           UNCHANGED <<clock, users, sessions, attempts, admitted, jar, restarts,
                       created, out>>
    PROVE  IndInv'
<1>1. Agree(answer, NoRequest, users) /\ answer \notin {"welcoming", "leaving"}
  BY NoRequestFacts DEF Agree, AtRest
<1>2. answer \in Steps /\ NoRequest \in RequestRecord /\ NoRequest.token = 0
  BY NoRequestFacts
<1>3. Goes(p, answer, NoRequest)
  BY DEF Answer
<1> QED
  BY <1>1, <1>2, <1>3, MoveStep

\* What is unheard is of sessions.
LEMMA UnheardTypes == IndInv => unheard \subseteq 1..Len(sessions)
BY DEF IndInv, TypeOK

-----------------------------------------------------------------------------
(* The handlers that only move on                                            *)

\* A registration begins.
LEMMA RegisterKeeps ==
    ASSUME IndInv, NEW p \in Pages, NEW n \in Names, NEW w \in Passwords,
           NEW fits \in BOOLEAN, Register(p, n, w, fits)
    PROVE  IndInv'
<1> DEFINE r == [NoRequest EXCEPT !.name = n, !.password = w, !.fits = fits]
<1>1. r \in RequestRecord /\ r.token = 0 /\ r.name = n /\ r.password = w
  BY DEF NoRequest, RequestRecord
<1>2. Agree("looking_up", r, users)
  BY <1>1 DEF Agree
<1>3. /\ Goes(p, "looking_up", r) /\ pc[p] # "leaving" /\ "looking_up" \in Steps
      /\ UNCHANGED <<clock, users, sessions, attempts, admitted, jar, restarts,
                     created, out, unheard>>
  BY DEF Register, AtRest, Tables, Throttle, Logouts, Steps
<1> QED
  BY <1>1, <1>2, <1>3, MoveStep, UnheardTypes

\* The lookup of a registration.
LEMMA LookUpNameKeeps ==
    ASSUME IndInv, NEW p \in Pages, LookUpName(p) PROVE IndInv'
<1>1. /\ pc[p] = "looking_up" /\ pc[p] # "leaving"
      /\ UNCHANGED <<clock, users, sessions, attempts, admitted, jar, restarts,
                     created, out, unheard>>
  BY DEF LookUpName, Tables, Throttle, Logouts
<1>2. CASE Answer(p, "conflict")
  BY <1>1, <1>2, AnswerStep, UnheardTypes DEF AtRest
<1>3. CASE Goes(p, "adding_user", req[p])
  <2>1. Agree("adding_user", req[p], users)
    BY <1>1 DEF Agree, IndInv, HandlerInv
  <2>2. req[p] \in RequestRecord
    BY RequestFacts DEF IndInv
  <2> QED
    BY <1>1, <1>3, <2>1, <2>2, MoveStep, UnheardTypes DEF Steps
<1> QED
  BY <1>2, <1>3 DEF LookUpName

\* A request for the current user begins, with the cookie or without.
LEMMA MeKeeps == ASSUME IndInv, NEW p \in Pages, Me(p) PROVE IndInv'
<1> DEFINE token == Cookies(Browser(p)).session
           r == [NoRequest EXCEPT !.token = token]
<1>1. /\ pc[p] # "leaving"
      /\ UNCHANGED <<clock, users, sessions, attempts, admitted, jar, restarts,
                     created, out, unheard>>
  BY DEF Me, AtRest, Tables, Throttle, Logouts
<1>2. CASE Answer(p, "anonymous")
  BY <1>1, <1>2, AnswerStep, UnheardTypes DEF AtRest
<1>3. CASE token # 0 /\ Goes(p, "asking", r)
  <2>1. token = jar[Browser(p)].session
    BY <1>3 DEF Cookies, NoCookies
  <2>2. token \in Nat
    BY <2>1, PageFacts DEF IndInv, TypeOK
  <2>3. r \in RequestRecord /\ r.token = token
    BY <2>2 DEF NoRequest, RequestRecord
  <2>4. pc[p] # "welcoming"
    BY DEF Me, AtRest
  <2>5. Agree("asking", r, users)
    BY <1>3, <2>3 DEF Agree
  <2> QED
    BY <1>1, <1>3, <2>1, <2>3, <2>4, <2>5, MoveStep, UnheardTypes DEF Steps
<1> QED
  BY <1>2, <1>3 DEF Me

\* A session is found active, or the request is refused.
LEMMA CurrentSessionKeeps ==
    ASSUME IndInv, NEW p \in Pages, CurrentSession(p) PROVE IndInv'
<1>1. /\ pc[p] = "asking" /\ pc[p] # "leaving"
      /\ UNCHANGED <<clock, users, sessions, attempts, admitted, jar, restarts,
                     created, out, unheard>>
  BY DEF CurrentSession, Tables, Throttle, Logouts
<1>2. CASE Answer(p, "anonymous")
  BY <1>1, <1>2, AnswerStep, UnheardTypes DEF AtRest
<1>3. CASE Goes(p, "identifying", req[p])
  <2>1. Agree("identifying", req[p], users)
    BY <1>1 DEF Agree, IndInv, HandlerInv
  <2>2. req[p] \in RequestRecord
    BY RequestFacts DEF IndInv
  <2> QED
    BY <1>1, <1>3, <2>1, <2>2, MoveStep, UnheardTypes DEF Steps
<1> QED
  BY <1>2, <1>3 DEF CurrentSession

\* The current user is answered.
LEMMA CurrentUserKeeps ==
    ASSUME IndInv, NEW p \in Pages, CurrentUser(p) PROVE IndInv'
<1>1. /\ pc[p] # "leaving"
      /\ UNCHANGED <<clock, users, sessions, attempts, admitted, jar, restarts,
                     created, out, unheard>>
  BY DEF CurrentUser, Tables, Throttle, Logouts
<1>2. Answer(p, "known") \/ Answer(p, "anonymous")
  BY DEF CurrentUser
<1> QED
  BY <1>1, <1>2, AnswerStep, UnheardTypes DEF AtRest

\* The page reads the CSRF cookie.
LEMMA ReadCsrfKeeps == ASSUME IndInv, NEW p \in Pages, ReadCsrf(p) PROVE IndInv'
<1> DEFINE csrf == Cookies(Browser(p)).csrf
           r == [NoRequest EXCEPT !.csrf = csrf]
<1>1. /\ pc[p] # "leaving" /\ Goes(p, "sending", r)
      /\ UNCHANGED <<clock, users, sessions, attempts, admitted, jar, restarts,
                     created, out, unheard>>
  BY DEF ReadCsrf, AtRest, Tables, Throttle, Logouts
<1>2. csrf \in Nat
  BY PageFacts DEF IndInv, TypeOK, Cookies, NoCookies
<1>3. r \in RequestRecord /\ r.token = 0
  BY <1>2 DEF NoRequest, RequestRecord
<1>4. Agree("sending", r, users)
  BY <1>3 DEF Agree
<1> QED
  BY <1>1, <1>3, <1>4, MoveStep, UnheardTypes DEF Steps

\* The browser adds the session cookie.
LEMMA SendLogoutKeeps ==
    ASSUME IndInv, NEW p \in Pages, SendLogout(p) PROVE IndInv'
<1> DEFINE token == Cookies(Browser(p)).session
           r == [req[p] EXCEPT !.token = token]
<1>1. /\ pc[p] = "sending" /\ pc[p] # "leaving" /\ pc[p] # "welcoming"
      /\ UNCHANGED <<clock, users, sessions, attempts, admitted, jar, restarts,
                     created, out, unheard>>
  BY DEF SendLogout, Tables, Throttle, Logouts
<1>2. CASE Answer(p, "anonymous")
  BY <1>1, <1>2, AnswerStep, UnheardTypes DEF AtRest
<1>3. CASE token # 0 /\ Goes(p, "authenticating", r)
  <2>1. token = jar[Browser(p)].session
    BY <1>3 DEF Cookies, NoCookies
  <2>2. token \in Nat
    BY <2>1, PageFacts DEF IndInv, TypeOK
  <2>3. r \in RequestRecord /\ r.token = token
    BY <2>2, RequestFacts DEF IndInv, RequestRecord
  <2>4. Agree("authenticating", r, users)
    BY <1>3, <2>3 DEF Agree
  <2> QED
    BY <1>1, <1>3, <2>1, <2>3, <2>4, MoveStep, UnheardTypes DEF Steps
<1> QED
  BY <1>2, <1>3 DEF SendLogout

\* The session and the CSRF token of a logout are checked.
LEMMA MutationSessionKeeps ==
    ASSUME IndInv, NEW p \in Pages, MutationSession(p) PROVE IndInv'
<1>1. /\ pc[p] = "authenticating" /\ pc[p] # "leaving"
      /\ UNCHANGED <<clock, users, sessions, attempts, admitted, jar, restarts,
                     created, out, unheard>>
  BY DEF MutationSession, Tables, Throttle, Logouts
<1>2. CASE Answer(p, "anonymous") \/ Answer(p, "rejected")
  BY <1>1, <1>2, AnswerStep, UnheardTypes DEF AtRest
<1>3. CASE Goes(p, "revoking", req[p])
  <2>1. Agree("revoking", req[p], users)
    BY <1>1 DEF Agree, IndInv, HandlerInv
  <2>2. req[p] \in RequestRecord
    BY RequestFacts DEF IndInv
  <2> QED
    BY <1>1, <1>3, <2>1, <2>2, MoveStep, UnheardTypes DEF Steps
<1> QED
  BY <1>2, <1>3 DEF MutationSession

\* An answer is lost: the session of a lost logout is unheard of.
LEMMA LoseKeeps == ASSUME IndInv, NEW p \in Pages, Lose(p) PROVE IndInv'
<1>1. /\ Answer(p, "lost") /\ unheard' = unheard \cup Leaving({p})
      /\ pc[p] \in {"welcoming", "leaving"}
      /\ UNCHANGED <<clock, users, sessions, attempts, admitted, jar, restarts,
                     created, out>>
  BY DEF Lose, Tables, Throttle
<1>2. req[p].token \in 1..Len(sessions)
  BY <1>1, RequestFacts DEF IndInv, HandlerInv
<1>3. unheard' \subseteq 1..Len(sessions)
  BY <1>1, <1>2, UnheardTypes DEF Leaving
<1>4. pc[p] = "leaving" => req[p].token \in unheard'
  BY <1>1 DEF Leaving
<1> QED
  BY <1>1, <1>3, <1>4, AnswerStep DEF AtRest

-----------------------------------------------------------------------------
(* The throttle                                                              *)

\* What is left of the record when the first k attempts are dropped.
LEMMA SubSeqFacts ==
    ASSUME NEW s \in Seq(Nat), NEW k \in 0..Len(s)
    PROVE  /\ SubSeq(s, k + 1, Len(s)) \in Seq(Nat)
           /\ Len(SubSeq(s, k + 1, Len(s))) = Len(s) - k
           /\ \A i \in 1..(Len(s) - k) : SubSeq(s, k + 1, Len(s))[i] = s[k + i]
<1>1. \A i \in (k + 1)..Len(s) : s[i] \in Nat
  OBVIOUS
<1>2. Len(s) \in Nat /\ k \in Nat /\ k <= Len(s)
  OBVIOUS
<1>3. Len(SubSeq(s, k + 1, Len(s))) = Len(s) - k
  BY <1>2
<1> QED
  BY <1>1, <1>2, <1>3

\* What appending to a sequence does.
LEMMA AppendFacts ==
    ASSUME NEW S, NEW s \in Seq(S), NEW x \in S
    PROVE  /\ Append(s, x) \in Seq(S)
           /\ Len(Append(s, x)) = Len(s) + 1 /\ Len(s) \in Nat
           /\ \A i \in 1..Len(s) : Append(s, x)[i] = s[i]
           /\ Append(s, x)[Len(s) + 1] = x
OBVIOUS

\* The clauses of the throttle's invariants for one address.
Matches(recorded, all) ==
    LET dropped == Len(all) - Len(recorded)
    IN  /\ dropped \in Nat
        /\ \A i \in 1..Len(recorded) : recorded[i] = all[dropped + i]
        /\ \A i \in 1..dropped : IsOld(all[i])
        /\ \A i \in 1..Len(all) : all[i] <= clock

Sliding(all) ==
    \A i \in 1..Len(all) : i + Maximum <= Len(all) => all[i + Maximum] - all[i] > Window

\* Dropping old attempts keeps the record the tail of what was admitted.
LEMMA DroppedKeeps ==
    ASSUME clock \in Nat, NEW all \in Seq(Nat), NEW times \in Seq(Nat),
           Matches(times, all), NEW k \in Dropped(times)
    PROVE  /\ SubSeq(times, k + 1, Len(times)) \in Seq(Nat)
           /\ Len(SubSeq(times, k + 1, Len(times))) <= Len(times)
           /\ Matches(SubSeq(times, k + 1, Len(times)), all)
<1> DEFINE kept == SubSeq(times, k + 1, Len(times))
           d == Len(all) - Len(times)
<1>1. k \in 0..Len(times) /\ \A i \in 1..k : IsOld(times[i])
  BY DEF Dropped
<1>2. /\ kept \in Seq(Nat) /\ Len(kept) = Len(times) - k
      /\ \A i \in 1..(Len(times) - k) : kept[i] = times[k + i]
  BY <1>1, SubSeqFacts
<1>3. /\ d \in Nat /\ k \in Nat /\ Len(times) \in Nat /\ Len(all) \in Nat
      /\ k <= Len(times) /\ Len(all) - Len(kept) = d + k
      /\ Len(kept) \in Nat /\ Len(kept) = Len(times) - k
  <2>1. d \in Nat
    BY DEF Matches
  <2>2. Len(times) \in Nat /\ Len(all) \in Nat
    OBVIOUS
  <2>3. k \in Nat /\ k <= Len(times)
    BY <1>1, <2>2
  <2> HIDE DEF kept
  <2> QED
    BY <2>1, <2>2, <2>3, <1>2
<1>4. \A i \in 1..Len(times) : times[i] = all[d + i]
  BY DEF Matches
<1>5. ASSUME NEW i \in 1..Len(kept) PROVE kept[i] = all[(d + k) + i]
  <2>1. k + i \in 1..Len(times) /\ d + (k + i) = (d + k) + i
    BY <1>3
  <2> QED
    BY <2>1, <1>2, <1>3, <1>4
<1>6. ASSUME NEW i \in 1..(d + k) PROVE IsOld(all[i])
  <2>1. CASE i <= d
    BY <2>1, <1>3 DEF Matches
  <2>2. CASE i > d
    <3> HIDE DEF d, kept
    <3>1. i - d \in 1..k /\ i - d \in 1..Len(times) /\ d + (i - d) = i
      BY <2>2, <1>3
    <3>2. IsOld(times[i - d]) /\ times[i - d] = all[d + (i - d)]
      BY <3>1, <1>1, <1>4
    <3> QED
      BY <3>1, <3>2
  <2> QED
    BY <2>1, <2>2, <1>3
<1>7. \A i \in 1..Len(all) : all[i] <= clock
  BY DEF Matches
<1>8. Len(kept) <= Len(times)
  BY <1>3
<1> HIDE DEF kept, d
<1>9. PICK e \in Nat : e = d + k
  BY <1>3
<1>10. Matches(kept, all)
  <2>1. Len(all) - Len(kept) = e
    BY <1>3, <1>9
  <2>2. \A i \in 1..Len(kept) : kept[i] = all[e + i]
    BY <1>5, <1>9
  <2>3. \A i \in 1..e : IsOld(all[i])
    BY <1>6, <1>9
  <2> QED
    BY <2>1, <2>2, <2>3, <1>7 DEF Matches
<1> QED
  BY <1>2, <1>8, <1>10 DEF kept

\* Where the attempts on record, m of n, lie when one more is admitted.
LEMMA Indices ==
    ASSUME NEW n \in Nat, NEW m \in Nat, NEW d \in Nat, NEW max \in Nat, max > 0,
           d + m = n, m < max
    PROVE  /\ d + (m + 1) = n + 1
           /\ \A i \in 1..(m + 1) : i # m + 1 => i \in 1..m /\ d + i \in 1..n
           /\ \A i \in 1..d : i \in 1..n
           /\ \A i \in 1..(n + 1) : i # n + 1 => i \in 1..n
           /\ \A i \in 1..(n + 1) :
                 i + max <= n + 1 =>
                    /\ i \in 1..n
                    /\ i + max = n + 1 => i \in 1..d
                    /\ i + max # n + 1 => i + max \in 1..n /\ i + max <= n
OBVIOUS

\* An attempt that is admitted comes after Maximum others only when the first
\* of them is old.
LEMMA AdmittedKeeps ==
    ASSUME clock \in Nat, NEW all \in Seq(Nat), NEW times \in Seq(Nat),
           Matches(times, all), Sliding(all), Len(times) < Maximum
    PROVE  /\ Matches(Append(times, clock), Append(all, clock))
           /\ Sliding(Append(all, clock))
<1> DEFINE d == Len(all) - Len(times)
           t == Append(times, clock)
           a == Append(all, clock)
<1> USE LimitsAssumption
<1>1. /\ t \in Seq(Nat) /\ Len(t) = Len(times) + 1 /\ Len(times) \in Nat
      /\ \A i \in 1..Len(times) : t[i] = times[i]
      /\ t[Len(times) + 1] = clock
  BY AppendFacts
<1>2. /\ a \in Seq(Nat) /\ Len(a) = Len(all) + 1 /\ Len(all) \in Nat
      /\ \A i \in 1..Len(all) : a[i] = all[i]
      /\ a[Len(all) + 1] = clock
  BY AppendFacts
<1>3. d \in Nat /\ Len(a) - Len(t) = d /\ d + Len(times) = Len(all)
  BY <1>1, <1>2 DEF Matches
<1>4. /\ \A i \in 1..Len(times) : times[i] = all[d + i]
      /\ \A i \in 1..d : IsOld(all[i])
      /\ \A i \in 1..Len(all) : all[i] <= clock
  BY DEF Matches
<1> HIDE DEF t, a, d
<1>n. /\ Len(all) \in Nat /\ Len(times) \in Nat /\ d \in Nat
      /\ d + Len(times) = Len(all)
      /\ Len(t) = Len(times) + 1 /\ Len(a) = Len(all) + 1
      /\ Maximum \in Nat /\ Maximum > 0 /\ Len(times) < Maximum
  BY <1>1, <1>2, <1>3
<1>i. /\ d + (Len(times) + 1) = Len(all) + 1
      /\ \A i \in 1..Len(t) :
            i # Len(times) + 1 => i \in 1..Len(times) /\ d + i \in 1..Len(all)
      /\ \A i \in 1..d : i \in 1..Len(all)
      /\ \A i \in 1..Len(a) : i # Len(all) + 1 => i \in 1..Len(all)
      /\ \A i \in 1..Len(a) :
            i + Maximum <= Len(a) =>
               /\ i \in 1..Len(all)
               /\ i + Maximum = Len(all) + 1 => i \in 1..d
               /\ i + Maximum # Len(all) + 1
                     => i + Maximum \in 1..Len(all) /\ i + Maximum <= Len(all)
  <2>1. PICK n \in Nat, m \in Nat, e \in Nat, max \in Nat :
           n = Len(all) /\ m = Len(times) /\ e = d /\ max = Maximum
    BY ONLY <1>n
  <2>2. /\ max > 0 /\ e + m = n /\ m < max
        /\ Len(t) = m + 1 /\ Len(a) = n + 1
    BY ONLY <1>n, <2>1
  <2>3. /\ e + (m + 1) = n + 1
        /\ \A i \in 1..(m + 1) : i # m + 1 => i \in 1..m /\ e + i \in 1..n
        /\ \A i \in 1..e : i \in 1..n
        /\ \A i \in 1..(n + 1) : i # n + 1 => i \in 1..n
        /\ \A i \in 1..(n + 1) :
              i + max <= n + 1 =>
                 /\ i \in 1..n
                 /\ i + max = n + 1 => i \in 1..e
                 /\ i + max # n + 1 => i + max \in 1..n /\ i + max <= n
    BY ONLY <2>2, Indices, n \in Nat, m \in Nat, e \in Nat, max \in Nat
  <2> QED
    BY ONLY <2>1, <2>2, <2>3, Zenon
<1>5. ASSUME NEW i \in 1..Len(t) PROVE t[i] = a[d + i]
  <2>1. CASE i = Len(times) + 1
    <3>1. d + (Len(times) + 1) = Len(all) + 1
      BY <1>i
    <3> QED
      <4>1. t[i] = clock
        BY <2>1, <1>1
      <4>2. d + i = Len(all) + 1
        BY <3>1, <2>1
      <4>3. a[d + i] = clock
        BY <4>2, <1>2
      <4> QED
        BY <4>1, <4>3
  <2>2. CASE i # Len(times) + 1
    <3>1. i \in 1..Len(times) /\ d + i \in 1..Len(all)
      BY <2>2, <1>i
    <3> QED
      BY <3>1, <1>1, <1>2, <1>4
  <2> QED
    BY <2>1, <2>2
<1>6. \A i \in 1..d : IsOld(a[i])
  <2>1. \A i \in 1..d : i \in 1..Len(all)
    BY <1>i
  <2> QED
    BY <2>1, <1>2, <1>4
<1>7. \A i \in 1..Len(a) : a[i] <= clock
  <2> SUFFICES ASSUME NEW i \in 1..Len(a) PROVE a[i] <= clock
    OBVIOUS
  <2>1. CASE i = Len(all) + 1
    BY <2>1, <1>2
  <2>2. CASE i # Len(all) + 1
    <3>1. i \in 1..Len(all)
      BY <2>2, <1>i
    <3> QED
      BY <3>1, <1>2, <1>4
  <2> QED
    BY <2>1, <2>2
<1>8. Sliding(a)
  <2> SUFFICES ASSUME NEW i \in 1..Len(a), i + Maximum <= Len(a)
               PROVE  a[i + Maximum] - a[i] > Window
    BY DEF Sliding
  <2>1. i \in 1..Len(all) /\ a[i] = all[i] /\ all[i] \in Nat
    <3>1. i \in 1..Len(all)
      BY <1>i
    <3>2. a[i] = all[i]
      BY <3>1, <1>2
    <3>3. all[i] \in Nat
      BY <3>1
    <3> QED
      BY <3>1, <3>2, <3>3
  <2>2. CASE i + Maximum = Len(all) + 1
    <3>1. i \in 1..d
      BY <2>2, <1>i
    <3>2. clock - all[i] > Window
      BY <3>1, <1>4 DEF IsOld
    <3>3. a[i + Maximum] = clock
      BY <2>2, <1>2
    <3>4. a[i + Maximum] - a[i] = clock - all[i]
      BY <3>3, <2>1
    <3> QED
      BY <3>2, <3>4
  <2>3. CASE i + Maximum # Len(all) + 1
    <3>1. i + Maximum \in 1..Len(all) /\ i + Maximum <= Len(all)
      BY <2>3, <1>i
    <3> QED
      BY <3>1, <2>1, <1>2 DEF Sliding
  <2> QED
    BY <2>2, <2>3
<1> QED
  BY <1>3, <1>5, <1>6, <1>7, <1>8 DEF Matches, t, a, d

\* What the invariant says of the throttle, address by address.
LEMMA ThrottleFacts ==
    ASSUME IndInv, NEW b \in Browsers
    PROVE  /\ attempts[b] \in Seq(Nat) /\ Len(attempts[b]) <= Maximum
           /\ admitted[b] \in Seq(Nat) /\ clock \in Nat
           /\ Matches(attempts[b], admitted[b]) /\ Sliding(admitted[b])
BY DEF IndInv, TypeOK, ThrottleInv, ThrottleWindow, Matches, Sliding

\* A step that keeps the invariant of one address, and leaves the others alone.
LEMMA ThrottleMoves ==
    ASSUME IndInv, NEW b \in Browsers, NEW t \in Seq(Nat), NEW a \in Seq(Nat),
           attempts' = [attempts EXCEPT ![b] = t],
           admitted' = [admitted EXCEPT ![b] = a],
           Matches(t, a), Sliding(a), Len(t) <= Maximum, UNCHANGED clock
    PROVE  /\ attempts' \in [Browsers -> Seq(Nat)]
           /\ admitted' \in [Browsers -> Seq(Nat)]
           /\ \A c \in Browsers : Len(attempts'[c]) <= Maximum
           /\ ThrottleInv' /\ ThrottleWindow'
<1>1. attempts \in [Browsers -> Seq(Nat)] /\ admitted \in [Browsers -> Seq(Nat)]
  BY DEF IndInv, TypeOK
<1>2. /\ attempts' \in [Browsers -> Seq(Nat)] /\ admitted' \in [Browsers -> Seq(Nat)]
      /\ attempts'[b] = t /\ admitted'[b] = a
      /\ \A c \in Browsers : c # b => attempts'[c] = attempts[c]
                                      /\ admitted'[c] = admitted[c]
  BY <1>1
<1>3. ASSUME NEW c \in Browsers
      PROVE  /\ Matches(attempts'[c], admitted'[c]) /\ Sliding(admitted'[c])
             /\ Len(attempts'[c]) <= Maximum
  <2>1. CASE c = b
    BY <2>1, <1>2
  <2>2. CASE c # b
    BY <2>2, <1>2, ThrottleFacts
  <2> QED
    BY <2>1, <2>2
<1>4. ThrottleInv'
  <2> SUFFICES ASSUME NEW c \in Browsers PROVE Matches(attempts[c], admitted[c])'
    BY Zenon DEF ThrottleInv, Matches
  <2>1. Matches(attempts'[c], admitted'[c])
    BY <1>3
  <2> QED
    BY <2>1 DEF Matches, IsOld
<1>5. ThrottleWindow'
  BY <1>3 DEF ThrottleWindow, Sliding
<1> QED
  BY <1>2, <1>3, <1>4, <1>5

\* A login is admitted or refused, whatever was dropped before.
LEMMA LoginKeeps ==
    ASSUME IndInv, NEW p \in Pages, NEW n \in Names, NEW w \in Passwords,
           Login(p, n, w)
    PROVE  IndInv'
<1> DEFINE b == Browser(p)
           times == attempts[b]
           r == [NoRequest EXCEPT !.name = n, !.password = w, !.now = clock]
<1>1. /\ pc[p] # "leaving"
      /\ UNCHANGED <<clock, users, sessions, jar, restarts, created, out, unheard>>
  BY DEF Login, AtRest, Tables, Logouts
<1>2. PICK k \in Dropped(times) : CheckAndRecord(p, SubSeq(times, k + 1, Len(times)), r)
  BY DEF Login
<1> DEFINE kept == SubSeq(times, k + 1, Len(times))
<1>3. /\ b \in Browsers /\ times \in Seq(Nat) /\ Len(times) <= Maximum
      /\ admitted[b] \in Seq(Nat) /\ clock \in Nat
      /\ Matches(times, admitted[b]) /\ Sliding(admitted[b])
  BY PageFacts, ThrottleFacts
<1>4. kept \in Seq(Nat) /\ Len(kept) <= Len(times) /\ Matches(kept, admitted[b])
  BY <1>2, <1>3, DroppedKeeps
<1>5. r \in RequestRecord /\ r.token = 0 /\ r.name = n /\ r.password = w
  BY <1>3 DEF NoRequest, RequestRecord
<1>6. /\ attempts' \in [Browsers -> Seq(Nat)] /\ admitted' \in [Browsers -> Seq(Nat)]
      /\ \A c \in Browsers : Len(attempts'[c]) <= Maximum
      /\ ThrottleInv' /\ ThrottleWindow'
      /\ pc' \in [Pages -> Steps] /\ req' \in [Pages -> RequestRecord]
      /\ \A q \in Pages : req'[q].token \in 0..Len(sessions)
      /\ HandlerInv' /\ TokenInv' /\ RevokedTokenLeaves' /\ LogoutInv'
  <2>1. CASE HasRoom(kept)
    <3>1. /\ attempts' = [attempts EXCEPT ![b] = Append(kept, clock)]
          /\ admitted' = [admitted EXCEPT ![b] = Append(admitted[b], clock)]
          /\ Goes(p, "verifying", r)
      BY <2>1, <1>2 DEF CheckAndRecord, Recorded
    <3>2. /\ Append(kept, clock) \in Seq(Nat) /\ Append(admitted[b], clock) \in Seq(Nat)
          /\ Len(Append(kept, clock)) <= Maximum /\ Len(kept) < Maximum
      <4>1. Len(kept) < Maximum /\ Maximum \in Nat
        BY <2>1, LimitsAssumption DEF HasRoom
      <4> QED
        BY <4>1, <1>3, <1>4, AppendFacts
    <3>3. /\ Matches(Append(kept, clock), Append(admitted[b], clock))
          /\ Sliding(Append(admitted[b], clock))
      BY <3>2, <1>3, <1>4, AdmittedKeeps
    <3>4. Agree("verifying", r, users)
      BY <1>5 DEF Agree
    <3>5. /\ pc' \in [Pages -> Steps] /\ req' \in [Pages -> RequestRecord]
          /\ \A q \in Pages : req'[q].token \in 0..Len(sessions)
          /\ HandlerInv' /\ TokenInv' /\ RevokedTokenLeaves' /\ LogoutInv'
      BY <3>1, <3>4, <1>1, <1>5, HandlerMoves DEF Steps
    <3> QED
      BY <3>1, <3>2, <3>3, <3>5, <1>1, <1>3, ThrottleMoves
  <2>2. CASE ~HasRoom(kept)
    <3>1. /\ attempts' = [attempts EXCEPT ![b] = kept]
          /\ admitted' = [admitted EXCEPT ![b] = admitted[b]]
          /\ Goes(p, "refused", NoRequest)
      BY <2>2, <1>2, <1>3 DEF CheckAndRecord, Recorded, Answer, IndInv, TypeOK
    <3>2. Len(kept) <= Maximum
      BY <1>3, <1>4, LimitsAssumption
    <3>3. Agree("refused", NoRequest, users)
      BY NoRequestFacts DEF Agree
    <3>4. /\ pc' \in [Pages -> Steps] /\ req' \in [Pages -> RequestRecord]
          /\ \A q \in Pages : req'[q].token \in 0..Len(sessions)
          /\ HandlerInv' /\ TokenInv' /\ RevokedTokenLeaves' /\ LogoutInv'
      BY <3>1, <3>3, <1>1, NoRequestFacts, HandlerMoves DEF Steps, AtRest
    <3> QED
      BY <3>1, <3>2, <3>4, <1>1, <1>3, <1>4, ThrottleMoves
  <2> QED
    BY <2>1, <2>2
<1>7. TypeOK'
  BY <1>1, <1>6 DEF IndInv, TypeOK
<1>8. AccountInv'
  BY <1>1 DEF IndInv, AccountInv
<1> QED
  BY <1>6, <1>7, <1>8 DEF IndInv

\* A password is wrong, or is right and the attempts are forgotten.
LEMMA VerifyKeeps == ASSUME IndInv, NEW p \in Pages, Verify(p) PROVE IndInv'
<1>1. /\ pc[p] = "verifying" /\ pc[p] # "leaving" /\ pc[p] # "welcoming"
      /\ UNCHANGED <<clock, users, sessions, jar, restarts, created, out, unheard>>
  BY DEF Verify, Tables, Logouts
<1>2. CASE Answer(p, "denied") /\ UNCHANGED Throttle
  BY <1>1, <1>2, AnswerStep, UnheardTypes DEF AtRest, Throttle
<1>3. CASE /\ users[req[p].name] = req[p].password
           /\ Goes(p, "adding_session", req[p]) /\ Forget(Browser(p))
  <2> DEFINE b == Browser(p)
  <2>1. b \in Browsers /\ <<>> \in Seq(Nat) /\ Len(<<>>) = 0
    BY PageFacts
  <2>2. /\ attempts' = [attempts EXCEPT ![b] = <<>>]
        /\ admitted' = [admitted EXCEPT ![b] = <<>>]
    BY <1>3 DEF Forget
  <2>3. Matches(<<>>, <<>>) /\ Sliding(<<>>)
    BY DEF Matches, Sliding
  <2>4. /\ attempts' \in [Browsers -> Seq(Nat)] /\ admitted' \in [Browsers -> Seq(Nat)]
        /\ \A c \in Browsers : Len(attempts'[c]) <= Maximum
        /\ ThrottleInv' /\ ThrottleWindow'
    <3>1. Len(<<>>) <= Maximum /\ UNCHANGED clock
      BY <2>1, <1>1, LimitsAssumption
    <3> QED
      BY <3>1, <2>1, <2>2, <2>3, ThrottleMoves
  <2>5. Agree("adding_session", req[p], users)
    <3>1. Agree("verifying", req[p], users)
      BY <1>1 DEF Agree, IndInv, HandlerInv
    <3> QED
      BY <3>1, <1>3, NoneAssumption DEF Agree
  <2>6. req[p] \in RequestRecord
    BY RequestFacts DEF IndInv
  <2>7. /\ pc' \in [Pages -> Steps] /\ req' \in [Pages -> RequestRecord]
        /\ \A q \in Pages : req'[q].token \in 0..Len(sessions)
        /\ HandlerInv' /\ TokenInv' /\ RevokedTokenLeaves' /\ LogoutInv'
    BY <2>5, <2>6, <1>1, <1>3, HandlerMoves DEF Steps
  <2>8. TypeOK'
    BY <2>4, <2>7, <1>1 DEF IndInv, TypeOK
  <2>9. AccountInv'
    BY <1>1 DEF IndInv, AccountInv
  <2> QED
    BY <2>4, <2>7, <2>8, <2>9 DEF IndInv
<1> QED
  BY <1>2, <1>3 DEF Verify

-----------------------------------------------------------------------------
(* The tables and the cookies                                                *)

\* The unique name lets only the first of two registrations create an account.
LEMMA AddUserKeeps == ASSUME IndInv, NEW p \in Pages, AddUser(p) PROVE IndInv'
<1>1. /\ pc[p] = "adding_user" /\ pc[p] # "leaving"
      /\ UNCHANGED <<clock, sessions, attempts, admitted, jar, restarts, out, unheard>>
  BY DEF AddUser, Throttle, Logouts
<1>2. CASE Answer(p, "error") /\ UNCHANGED <<users, created>>
  BY <1>1, <1>2, AnswerStep, UnheardTypes DEF AtRest
<1>3. CASE /\ users[req[p].name] = None
           /\ users' = [users EXCEPT ![req[p].name] = req[p].password]
           /\ created' = [created EXCEPT ![req[p].name] = @ + 1]
           /\ Answer(p, "created")
  <2>1. req[p].name \in Names /\ req[p].password \in Passwords
    BY <1>1 DEF IndInv, HandlerInv
  <2>2. /\ users \in [Names -> Passwords \cup {None}] /\ created \in [Names -> Nat]
    BY DEF IndInv, TypeOK
  <2>3. /\ users' \in [Names -> Passwords \cup {None}] /\ created' \in [Names -> Nat]
        /\ \A n \in Names : users[n] # None => users'[n] # None
    BY <2>1, <2>2, <1>3, NoneAssumption
  <2>4. AccountInv'
    BY <2>1, <2>2, <1>3, NoneAssumption DEF IndInv, AccountInv
  <2>5. /\ pc' \in [Pages -> Steps] /\ req' \in [Pages -> RequestRecord]
        /\ pc'[p] = "created" /\ req'[p] = NoRequest
        /\ \A q \in Pages : q # p => pc'[q] = pc[q] /\ req'[q] = req[q]
    BY <1>3, GoesFacts, NoRequestFacts DEF IndInv, Answer, Steps, AtRest
  <2>6. /\ \A q \in Pages : req'[q].token \in {0, req[q].token}
        /\ \A q \in Pages : req'[q].token \in 0..Len(sessions)
    BY <2>5, NoRequestFacts, RequestFacts DEF IndInv
  <2>7. HandlerInv'
    <3> SUFFICES ASSUME NEW q \in Pages PROVE Agree(pc'[q], req'[q], users')
      BY DEF HandlerInv, Agree
    <3>1. CASE q = p
      BY <3>1, <2>5, NoRequestFacts DEF Agree
    <3>2. CASE q # p
      BY <3>2, <2>3, <2>5 DEF Agree, IndInv, HandlerInv
    <3> QED
      BY <3>1, <3>2
  <2>8. TokenInv'
    BY <1>1, <2>5, NoRequestFacts DEF IndInv, TokenInv
  <2>9. RevokedTokenLeaves'
    BY <1>1, <2>5 DEF IndInv, RevokedTokenLeaves
  <2>10. TypeOK'
    BY <1>1, <2>3, <2>5, <2>6 DEF IndInv, TypeOK
  <2>11. LogoutInv'
    BY <1>1, <2>5 DEF IndInv, LogoutInv
  <2> QED
    BY <1>1, <2>4, <2>7, <2>8, <2>9, <2>10, <2>11, ThrottleStays DEF IndInv
<1> QED
  BY <1>2, <1>3 DEF AddUser, Insertable

\* A new session has a token nobody holds.
LEMMA AddSessionKeeps ==
    ASSUME IndInv, NEW p \in Pages, AddSession(p) PROVE IndInv'
<1> DEFINE row == [user |-> req[p].name, revoked |-> FALSE,
                   expires |-> req[p].now + Lifetime]
           new == Len(sessions) + 1
           r == [req[p] EXCEPT !.token = new]
<1>1. /\ pc[p] = "adding_session" /\ pc[p] # "leaving"
      /\ sessions' = Append(sessions, row) /\ Goes(p, "welcoming", r)
      /\ UNCHANGED <<clock, users, attempts, admitted, jar, restarts, created, out,
                     unheard>>
  BY DEF AddSession, Throttle, Logouts
<1>2. row \in SessionRecord
  BY <1>1, RequestFacts, LimitsAssumption DEF IndInv, HandlerInv, SessionRecord
<1>3. /\ sessions \in Seq(SessionRecord) /\ sessions' \in Seq(SessionRecord)
      /\ Len(sessions') = new /\ Len(sessions) \in Nat /\ new \in Nat
      /\ \A k \in 1..Len(sessions) : sessions'[k] = sessions[k]
      /\ sessions'[new] = row
  <2>1. sessions \in Seq(SessionRecord)
    BY DEF IndInv, TypeOK
  <2> QED
    BY <2>1, <1>1, <1>2, AppendFacts
<1>4. r \in RequestRecord /\ r.token = new
  BY <1>3, RequestFacts DEF IndInv, RequestRecord
<1>5. /\ pc' \in [Pages -> Steps] /\ req' \in [Pages -> RequestRecord]
      /\ pc'[p] = "welcoming" /\ req'[p] = r
      /\ \A q \in Pages : q # p => pc'[q] = pc[q] /\ req'[q] = req[q]
  BY <1>1, <1>4, GoesFacts DEF IndInv, Steps
<1>6. /\ \A q \in Pages : req[q].token \in 0..Len(sessions)
      /\ \A b \in Browsers : jar[b].session \in 0..Len(sessions)
  BY DEF IndInv, TypeOK
<1>7. 0..Len(sessions) \subseteq 0..new /\ 1..Len(sessions) \subseteq 1..new
      /\ new \in 0..new /\ new # 0 /\ new \notin 0..Len(sessions)
  BY <1>3
<1> HIDE DEF new, r
<1>8. TypeOK'
  <2>1. jar' \in [Browsers -> [session : 0..Len(sessions'),
                               csrf : 0..Len(sessions'), until : Nat]]
    BY <1>1, <1>3, <1>7 DEF IndInv, TypeOK
  <2>2. \A q \in Pages : req'[q].token \in 0..Len(sessions')
    BY <1>3, <1>4, <1>5, <1>6, <1>7
  <2> QED
    BY <2>1, <2>2, <1>1, <1>3, <1>5, <1>7 DEF IndInv, TypeOK
<1>9. HandlerInv'
  <2> SUFFICES ASSUME NEW q \in Pages PROVE Agree(pc'[q], req'[q], users')
    BY DEF HandlerInv, Agree
  <2>1. CASE q = p
    BY <2>1, <1>4, <1>5, <1>7 DEF Agree
  <2>2. CASE q # p
    BY <2>2, <1>1, <1>5 DEF Agree, IndInv, HandlerInv
  <2> QED
    BY <2>1, <2>2
<1>10. LogoutInv'
  <2>1. \A k \in out' : sessions'[k].revoked
    BY <1>1, <1>3 DEF IndInv, LogoutInv, TypeOK
  <2>2. ASSUME NEW q \in Pages, pc'[q] = "leaving"
        PROVE  sessions'[req'[q].token].revoked
    <3>1. q # p /\ pc[q] = "leaving" /\ req'[q] = req[q]
      BY <2>2, <1>5
    <3>2. req[q].token \in 1..Len(sessions)
      BY <3>1, RequestFacts DEF IndInv, HandlerInv
    <3> QED
      BY <3>1, <3>2, <1>3 DEF IndInv, LogoutInv
  <2> QED
    BY <2>1, <2>2 DEF LogoutInv
<1>11. TokenInv'
  <2>1. \A b, c \in Browsers :
          (jar'[b].session = jar'[c].session /\ b # c) => jar'[b].session = 0
    BY <1>1 DEF IndInv, TokenInv
  <2>2. \A b \in Browsers, q \in Pages :
          (req'[q].token = jar'[b].session /\ req'[q].token # 0)
             => Browser(q) = b /\ pc'[q] # "welcoming"
    BY <1>1, <1>4, <1>5, <1>6, <1>7 DEF IndInv, TokenInv
  <2>3. \A q, s \in Pages :
          (req'[q].token = req'[s].token /\ req'[q].token # 0 /\ q # s)
             => Browser(q) = Browser(s) /\ pc'[q] # "welcoming"
    BY <1>4, <1>5, <1>6, <1>7 DEF IndInv, TokenInv
  <2>4. ASSUME NEW q \in Pages, pc'[q] = "welcoming"
        PROVE  ~sessions'[req'[q].token].revoked
    <3>1. CASE q = p
      BY <3>1, <1>3, <1>4, <1>5
    <3>2. CASE q # p
      <4>1. req[q].token \in 1..Len(sessions)
        BY <3>2, <2>4, <1>5, RequestFacts DEF IndInv, HandlerInv
      <4> QED
        BY <4>1, <3>2, <2>4, <1>3, <1>5 DEF IndInv, TokenInv
    <3> QED
      BY <3>1, <3>2
  <2> QED
    BY <2>1, <2>2, <2>3, <2>4 DEF TokenInv
<1>12. RevokedTokenLeaves'
  <2> SUFFICES ASSUME ~CookieSecure, NEW b \in Browsers,
                      jar[b].session # 0, sessions'[jar[b].session].revoked,
                      jar[b].session \notin unheard
               PROVE  \E q \in Pages : /\ Browser(q) = b /\ pc'[q] = "leaving"
                                       /\ req'[q].token = jar[b].session
    BY <1>1 DEF RevokedTokenLeaves
  <2>1. jar[b].session \in 1..Len(sessions)
    BY <1>3, <1>6
  <2>2. PICK q \in Pages : /\ Browser(q) = b /\ pc[q] = "leaving"
                           /\ req[q].token = jar[b].session
    BY <2>1, <1>3 DEF IndInv, RevokedTokenLeaves
  <2>3. q # p
    BY <2>2, <1>1
  <2> QED
    BY <2>2, <2>3, <1>5
<1>13. AccountInv'
  BY <1>1 DEF IndInv, AccountInv
<1> QED
  BY <1>1, <1>8, <1>9, <1>10, <1>11, <1>12, <1>13, ThrottleStays DEF IndInv

\* What is left when the answer of a handler arrives or is lost: every other
\* handler is as it was.
LEMMA AnswerFacts ==
    ASSUME IndInv, NEW p \in Pages, NEW answer \in AtRest, Answer(p, answer),
           UNCHANGED <<users, sessions>>
    PROVE  /\ pc' \in [Pages -> Steps] /\ req' \in [Pages -> RequestRecord]
           /\ pc'[p] = answer /\ req'[p].token = 0
           /\ \A q \in Pages : q # p => pc'[q] = pc[q] /\ req'[q] = req[q]
           /\ \A q \in Pages : req'[q].token \in 0..Len(sessions)
           /\ HandlerInv'
<1>1. /\ pc' \in [Pages -> Steps] /\ req' \in [Pages -> RequestRecord]
      /\ pc'[p] = answer /\ req'[p] = NoRequest
      /\ \A q \in Pages : q # p => pc'[q] = pc[q] /\ req'[q] = req[q]
  BY GoesFacts, NoRequestFacts DEF IndInv, Answer
<1>2. \A q \in Pages : req'[q].token \in 0..Len(sessions)
  BY <1>1, NoRequestFacts, RequestFacts DEF IndInv
<1>3. HandlerInv'
  <2> SUFFICES ASSUME NEW q \in Pages PROVE Agree(pc'[q], req'[q], users')
    BY DEF HandlerInv, Agree
  <2>1. CASE q = p
    BY <2>1, <1>1, NoRequestFacts DEF Agree, AtRest
  <2>2. CASE q # p
    BY <2>2, <1>1 DEF Agree, IndInv, HandlerInv
  <2> QED
    BY <2>1, <2>2
<1> QED
  BY <1>1, <1>2, <1>3, NoRequestFacts

\* The cookies of a login are of a session that nobody revoked meanwhile.
LEMMA WelcomeKeeps == ASSUME IndInv, NEW p \in Pages, Welcome(p) PROVE IndInv'
<1> DEFINE b == Browser(p)
           token == req[p].token
           cookies == [session |-> token, csrf |-> token, until |-> clock + Lifetime]
<1>1. /\ pc[p] = "welcoming" /\ pc[p] # "leaving"
      /\ jar' = [jar EXCEPT ![b] = cookies] /\ Answer(p, "welcome")
      /\ UNCHANGED <<clock, users, sessions, attempts, admitted, restarts, created,
                     out, unheard>>
  BY DEF Welcome, Tables, Throttle, Logouts
<1>2. b \in Browsers /\ token \in 0..Len(sessions) /\ token # 0
  BY <1>1, PageFacts, RequestFacts DEF IndInv, HandlerInv
<1>3. /\ pc' \in [Pages -> Steps] /\ req' \in [Pages -> RequestRecord]
      /\ pc'[p] = "welcome" /\ req'[p].token = 0
      /\ \A q \in Pages : q # p => pc'[q] = pc[q] /\ req'[q] = req[q]
      /\ \A q \in Pages : req'[q].token \in 0..Len(sessions)
      /\ HandlerInv'
  BY <1>1, AnswerFacts DEF AtRest
<1>4. /\ jar \in [Browsers -> [session : 0..Len(sessions),
                               csrf : 0..Len(sessions), until : Nat]]
      /\ clock + Lifetime \in Nat
  BY LimitsAssumption DEF IndInv, TypeOK
<1>5. /\ jar' \in [Browsers -> [session : 0..Len(sessions),
                                csrf : 0..Len(sessions), until : Nat]]
      /\ jar'[b].session = token
      /\ \A c \in Browsers : c # b => jar'[c] = jar[c]
  BY <1>1, <1>2, <1>4
<1>6. TypeOK'
  BY <1>1, <1>3, <1>5 DEF IndInv, TypeOK
<1>7. TokenInv'
  <2>1. \A c \in Browsers : jar[c].session = token => c = b /\ FALSE
    BY <1>1, <1>2 DEF IndInv, TokenInv
  <2>2. \A q \in Pages : q # p => req[q].token # token
    BY <1>1, <1>2 DEF IndInv, TokenInv
  <2>3. \A c, d \in Browsers :
          (jar'[c].session = jar'[d].session /\ c # d) => jar'[c].session = 0
    BY <2>1, <1>5 DEF IndInv, TokenInv
  <2>4. ASSUME NEW c \in Browsers, NEW q \in Pages,
               req'[q].token = jar'[c].session, req'[q].token # 0
        PROVE  Browser(q) = c /\ pc'[q] # "welcoming"
    <3>1. q # p
      BY <2>4, <1>3
    <3>2. c # b
      BY <3>1, <2>2, <2>4, <1>3, <1>5
    <3> QED
      BY <3>1, <3>2, <2>4, <1>3, <1>5 DEF IndInv, TokenInv
  <2>5. \A q, s \in Pages :
          (req'[q].token = req'[s].token /\ req'[q].token # 0 /\ q # s)
             => Browser(q) = Browser(s) /\ pc'[q] # "welcoming"
    BY <1>3 DEF IndInv, TokenInv
  <2>6. \A q \in Pages : pc'[q] = "welcoming" => ~sessions'[req'[q].token].revoked
    BY <1>1, <1>3 DEF IndInv, TokenInv
  <2> QED
    BY <2>3, <2>4, <2>5, <2>6 DEF TokenInv
<1>8. RevokedTokenLeaves'
  <2> SUFFICES ASSUME ~CookieSecure, NEW c \in Browsers,
                      jar'[c].session # 0, sessions[jar'[c].session].revoked,
                      jar'[c].session \notin unheard
               PROVE  \E q \in Pages : /\ Browser(q) = c /\ pc'[q] = "leaving"
                                       /\ req'[q].token = jar'[c].session
    BY <1>1 DEF RevokedTokenLeaves
  <2>1. ~sessions[token].revoked
    BY <1>1 DEF IndInv, TokenInv
  <2>2. c # b
    BY <2>1, <1>5
  <2>3. PICK q \in Pages : /\ Browser(q) = c /\ pc[q] = "leaving"
                           /\ req[q].token = jar[c].session
    BY <2>2, <1>5 DEF IndInv, RevokedTokenLeaves
  <2>4. q # p
    BY <2>3, <1>1
  <2> QED
    BY <2>2, <2>3, <2>4, <1>3, <1>5
<1>9. AccountInv' /\ LogoutInv'
  BY <1>1, <1>3 DEF IndInv, AccountInv, LogoutInv
<1> QED
  BY <1>1, <1>3, <1>6, <1>7, <1>8, <1>9, ThrottleStays DEF IndInv

\* The token of a session that is revoked is left with the handler that did it.
LEMMA RevokeKeeps == ASSUME IndInv, NEW p \in Pages, Revoke(p) PROVE IndInv'
<1> DEFINE token == req[p].token
<1>1. /\ pc[p] = "revoking"
      /\ sessions' = [sessions EXCEPT ![token].revoked = TRUE]
      /\ Goes(p, "leaving", req[p])
      /\ UNCHANGED <<clock, users, attempts, admitted, jar, restarts, created, out,
                     unheard>>
  BY DEF Revoke, Throttle, Logouts
<1>2. token \in 0..Len(sessions) /\ token # 0 /\ Len(sessions) \in Nat
      /\ req[p] \in RequestRecord
  BY <1>1, RequestFacts DEF IndInv, HandlerInv
<1>3. /\ pc' \in [Pages -> Steps] /\ req' \in [Pages -> RequestRecord]
      /\ pc'[p] = "leaving" /\ req'[p] = req[p]
      /\ \A q \in Pages : q # p => pc'[q] = pc[q] /\ req'[q] = req[q]
      /\ \A q \in Pages : req'[q] = req[q]
  BY <1>1, <1>2, GoesFacts DEF IndInv, Steps
<1>4. sessions \in Seq(SessionRecord) /\ token \in 1..Len(sessions)
  BY <1>2 DEF IndInv, TypeOK
<1>5. [sessions[token] EXCEPT !.revoked = TRUE] \in SessionRecord
      /\ [sessions[token] EXCEPT !.revoked = TRUE].revoked = TRUE
  <2>1. \A s \in SessionRecord : /\ [s EXCEPT !.revoked = TRUE] \in SessionRecord
                                 /\ [s EXCEPT !.revoked = TRUE].revoked = TRUE
    BY DEF SessionRecord
  <2>2. sessions[token] \in SessionRecord
    BY <1>4
  <2> QED
    BY <2>1, <2>2
<1>6. /\ sessions' \in Seq(SessionRecord) /\ Len(sessions') = Len(sessions)
      /\ \A k \in 1..Len(sessions) : k # token => sessions'[k] = sessions[k]
      /\ sessions'[token].revoked = TRUE
  <2>1. sessions' = [sessions EXCEPT ![token] = [sessions[token] EXCEPT !.revoked = TRUE]]
    BY <1>1
  <2> HIDE DEF token
  <2> QED
    BY <2>1, <1>4, <1>5
<1>7. TypeOK'
  BY <1>1, <1>3, <1>6 DEF IndInv, TypeOK
<1>8. HandlerInv'
  <2> SUFFICES ASSUME NEW q \in Pages PROVE Agree(pc'[q], req'[q], users')
    BY DEF HandlerInv, Agree
  <2>1. CASE q = p
    BY <2>1, <1>2, <1>3 DEF Agree
  <2>2. CASE q # p
    BY <2>2, <1>1, <1>3 DEF Agree, IndInv, HandlerInv
  <2> QED
    BY <2>1, <2>2
<1>9. LogoutInv'
  <2>1. \A k \in 1..Len(sessions) : sessions[k].revoked => sessions'[k].revoked
    BY <1>6
  <2>2. \A k \in out' : sessions'[k].revoked
    BY <2>1, <1>1 DEF IndInv, LogoutInv, TypeOK
  <2>3. ASSUME NEW q \in Pages, pc'[q] = "leaving"
        PROVE  sessions'[req'[q].token].revoked
    <3>1. CASE q = p
      BY <3>1, <1>3, <1>6
    <3>2. CASE q # p
      <4>1. pc[q] = "leaving" /\ req[q].token \in 1..Len(sessions)
        BY <3>2, <2>3, <1>3, RequestFacts DEF IndInv, HandlerInv
      <4> QED
        BY <4>1, <2>1, <1>3 DEF IndInv, LogoutInv
    <3> QED
      BY <3>1, <3>2
  <2> QED
    BY <2>2, <2>3 DEF LogoutInv
<1>10. TokenInv'
  <2>1. \A b, c \in Browsers :
          (jar'[b].session = jar'[c].session /\ b # c) => jar'[b].session = 0
    BY <1>1 DEF IndInv, TokenInv
  <2>2. \A b \in Browsers, q \in Pages :
          (req'[q].token = jar'[b].session /\ req'[q].token # 0)
             => Browser(q) = b /\ pc'[q] # "welcoming"
    BY <1>1, <1>3 DEF IndInv, TokenInv
  <2>3. \A q, s \in Pages :
          (req'[q].token = req'[s].token /\ req'[q].token # 0 /\ q # s)
             => Browser(q) = Browser(s) /\ pc'[q] # "welcoming"
    BY <1>1, <1>3 DEF IndInv, TokenInv
  <2>4. ASSUME NEW q \in Pages, pc'[q] = "welcoming"
        PROVE  ~sessions'[req'[q].token].revoked
    <3>1. q # p /\ pc[q] = "welcoming"
      BY <2>4, <1>3
    <3>2. req[q].token # token
      BY <3>1, <1>2 DEF IndInv, TokenInv
    <3>3. req[q].token \in 1..Len(sessions)
      BY <3>1, RequestFacts DEF IndInv, HandlerInv
    <3> QED
      BY <3>1, <3>2, <3>3, <1>3, <1>6 DEF IndInv, TokenInv
  <2> QED
    BY <2>1, <2>2, <2>3, <2>4 DEF TokenInv
<1>11. RevokedTokenLeaves'
  <2> SUFFICES ASSUME ~CookieSecure, NEW b \in Browsers,
                      jar[b].session # 0, sessions'[jar[b].session].revoked,
                      jar[b].session \notin unheard
               PROVE  \E q \in Pages : /\ Browser(q) = b /\ pc'[q] = "leaving"
                                       /\ req'[q].token = jar[b].session
    BY <1>1 DEF RevokedTokenLeaves
  <2>1. CASE jar[b].session = token
    <3>1. Browser(p) = b
      BY <2>1, <1>2 DEF IndInv, TokenInv
    <3> QED
      BY <3>1, <2>1, <1>3
  <2>2. CASE jar[b].session # token
    <3>1. jar[b].session \in 1..Len(sessions)
      BY <1>2 DEF IndInv, TypeOK
    <3>2. PICK q \in Pages : /\ Browser(q) = b /\ pc[q] = "leaving"
                             /\ req[q].token = jar[b].session
      BY <3>1, <2>2, <1>6 DEF IndInv, RevokedTokenLeaves
    <3>3. q # p
      BY <3>2, <1>1
    <3> QED
      BY <3>2, <3>3, <1>3
  <2> QED
    BY <2>1, <2>2
<1>12. AccountInv'
  BY <1>1 DEF IndInv, AccountInv
<1> QED
  BY <1>1, <1>7, <1>8, <1>9, <1>10, <1>11, <1>12, ThrottleStays DEF IndInv

\* The answer of a logout takes the cookies of its browser, whoever's they are.
LEMMA GoodbyeKeeps == ASSUME IndInv, NEW p \in Pages, Goodbye(p) PROVE IndInv'
<1> DEFINE b == Browser(p)
           token == req[p].token
<1>1. /\ pc[p] = "leaving"
      /\ jar' = [jar EXCEPT ![b] = Deleted(jar[b])]
      /\ out' = out \cup {token} /\ Answer(p, "goodbye")
      /\ UNCHANGED <<clock, users, sessions, attempts, admitted, restarts, created,
                     unheard>>
  BY DEF Goodbye, Tables, Throttle
<1>2. b \in Browsers /\ token \in 1..Len(sessions) /\ token # 0
  BY <1>1, PageFacts, RequestFacts DEF IndInv, HandlerInv
<1>3. /\ pc' \in [Pages -> Steps] /\ req' \in [Pages -> RequestRecord]
      /\ pc'[p] = "goodbye" /\ req'[p].token = 0
      /\ \A q \in Pages : q # p => pc'[q] = pc[q] /\ req'[q] = req[q]
      /\ \A q \in Pages : req'[q].token \in 0..Len(sessions)
      /\ HandlerInv'
  BY <1>1, AnswerFacts DEF AtRest
<1>4. /\ jar \in [Browsers -> [session : 0..Len(sessions),
                               csrf : 0..Len(sessions), until : Nat]]
      /\ 0 \in 0..Len(sessions)
  BY <1>2 DEF IndInv, TypeOK
<1>5. /\ Deleted(jar[b]) \in [session : 0..Len(sessions),
                              csrf : 0..Len(sessions), until : Nat]
      /\ Deleted(jar[b]).session = IF CookieSecure THEN jar[b].session ELSE 0
  BY <1>2, <1>4 DEF Deleted
<1>6. /\ jar' \in [Browsers -> [session : 0..Len(sessions),
                                csrf : 0..Len(sessions), until : Nat]]
      /\ jar'[b].session = IF CookieSecure THEN jar[b].session ELSE 0
      /\ \A c \in Browsers : c # b => jar'[c] = jar[c]
  BY <1>1, <1>2, <1>4, <1>5
<1>7. \A c \in Browsers : jar'[c].session \in {0, jar[c].session}
  BY <1>6
<1>8. TypeOK'
  BY <1>1, <1>2, <1>3, <1>6 DEF IndInv, TypeOK
<1>9. LogoutInv'
  <2>1. sessions[token].revoked
    BY <1>1 DEF IndInv, LogoutInv
  <2> QED
    BY <2>1, <1>1, <1>3 DEF IndInv, LogoutInv
<1>10. TokenInv'
  <2>1. \A c, d \in Browsers :
          (jar'[c].session = jar'[d].session /\ c # d) => jar'[c].session = 0
    BY <1>7 DEF IndInv, TokenInv
  <2>2. ASSUME NEW c \in Browsers, NEW q \in Pages,
               req'[q].token = jar'[c].session, req'[q].token # 0
        PROVE  Browser(q) = c /\ pc'[q] # "welcoming"
    BY <2>2, <1>3, <1>7 DEF IndInv, TokenInv
  <2>3. \A q, s \in Pages :
          (req'[q].token = req'[s].token /\ req'[q].token # 0 /\ q # s)
             => Browser(q) = Browser(s) /\ pc'[q] # "welcoming"
    BY <1>3 DEF IndInv, TokenInv
  <2>4. \A q \in Pages : pc'[q] = "welcoming" => ~sessions'[req'[q].token].revoked
    BY <1>1, <1>3 DEF IndInv, TokenInv
  <2> QED
    BY <2>1, <2>2, <2>3, <2>4 DEF TokenInv
<1>11. RevokedTokenLeaves'
  <2> SUFFICES ASSUME ~CookieSecure, NEW c \in Browsers,
                      jar'[c].session # 0, sessions[jar'[c].session].revoked,
                      jar'[c].session \notin unheard
               PROVE  \E q \in Pages : /\ Browser(q) = c /\ pc'[q] = "leaving"
                                       /\ req'[q].token = jar'[c].session
    BY <1>1 DEF RevokedTokenLeaves
  <2>1. c # b
    BY <1>6
  <2>2. PICK q \in Pages : /\ Browser(q) = c /\ pc[q] = "leaving"
                           /\ req[q].token = jar[c].session
    BY <2>1, <1>6 DEF IndInv, RevokedTokenLeaves
  <2>3. q # p
    BY <2>1, <2>2
  <2> QED
    BY <2>1, <2>2, <2>3, <1>3, <1>6
<1>12. AccountInv'
  BY <1>1 DEF IndInv, AccountInv
<1> QED
  BY <1>1, <1>3, <1>8, <1>9, <1>10, <1>11, <1>12, ThrottleStays DEF IndInv

-----------------------------------------------------------------------------
(* Time, restarts and the initial state                                      *)

\* What is old stays old.
LEMMA TickKeeps == ASSUME IndInv, Tick PROVE IndInv'
<1>1. /\ clock' = clock + 1
      /\ UNCHANGED <<users, sessions, attempts, admitted, jar, pc, req, restarts,
                     created, out, unheard>>
  BY DEF Tick, Tables, Throttle, Logouts
<1>2. TypeOK'
  BY <1>1 DEF IndInv, TypeOK
<1>3. ThrottleInv'
  <2> DEFINE Older(time) == clock' - time > Window
  <2> SUFFICES ASSUME NEW b \in Browsers
               PROVE  LET dropped == Len(admitted[b]) - Len(attempts[b])
                      IN  /\ dropped \in Nat
                          /\ \A i \in 1..Len(attempts[b]) :
                                attempts[b][i] = admitted[b][dropped + i]
                          /\ \A i \in 1..dropped : Older(admitted[b][i])
                          /\ \A i \in 1..Len(admitted[b]) : admitted[b][i] <= clock'
    BY <1>1 DEF ThrottleInv, IsOld
  <2>1. /\ admitted[b] \in Seq(Nat) /\ clock \in Nat
        /\ Matches(attempts[b], admitted[b])
    BY ThrottleFacts
  <2>2. \A i \in 1..Len(admitted[b]) : /\ admitted[b][i] \in Nat
                                       /\ admitted[b][i] <= clock
    BY <2>1 DEF Matches
  <2>3. \A i \in 1..Len(admitted[b]) :
           /\ admitted[b][i] <= clock'
           /\ IsOld(admitted[b][i]) => Older(admitted[b][i])
    BY <1>1, <2>1, <2>2, LimitsAssumption DEF IsOld
  <2> HIDE DEF Older
  <2>4. PICK n \in Nat, m \in Nat, d \in Nat :
           /\ n = Len(admitted[b]) /\ m = Len(attempts[b])
           /\ d = Len(admitted[b]) - Len(attempts[b]) /\ d = n - m
    <3>1. Len(admitted[b]) \in Nat /\ Len(attempts[b]) \in Nat
      BY DEF IndInv, TypeOK
    <3> QED
      BY <3>1, <2>1 DEF Matches
  <2>5. \A i \in 1..d : i \in 1..n
    BY <2>4
  <2>6. \A i \in 1..d : Older(admitted[b][i])
    BY <2>1, <2>3, <2>4, <2>5 DEF Matches
  <2> QED
    BY <2>1, <2>3, <2>4, <2>6 DEF Matches
<1>4. ThrottleWindow' /\ AccountInv' /\ LogoutInv'
  BY <1>1 DEF IndInv, ThrottleWindow, AccountInv, LogoutInv
<1>5. HandlerInv' /\ TokenInv' /\ RevokedTokenLeaves'
  BY <1>1 DEF IndInv, HandlerInv, TokenInv, RevokedTokenLeaves
<1> QED
  BY <1>2, <1>3, <1>4, <1>5 DEF IndInv

\* A restart takes the throttle and the requests at the server.
LEMMA RestartKeeps == ASSUME IndInv, Restart PROVE IndInv'
<1>1. /\ restarts' = restarts + 1
      /\ attempts' = [b \in Browsers |-> <<>>] /\ admitted' = [b \in Browsers |-> <<>>]
      /\ unheard' = unheard \cup Leaving(Pages)
      /\ pc' = [p \in Pages |-> IF AtServer(p) THEN "lost" ELSE pc[p]]
      /\ req' = [p \in Pages |-> IF AtServer(p) THEN NoRequest ELSE req[p]]
      /\ UNCHANGED <<clock, users, sessions, jar, created, out>>
  BY DEF Restart, Tables
<1>2. /\ pc' \in [Pages -> Steps] /\ req' \in [Pages -> RequestRecord]
      /\ \A q \in Pages : req'[q].token = 0 /\ pc'[q] \in AtRest \cup {"sending"}
  <2>1. \A q \in Pages : ~AtServer(q) => req[q].token = 0
    BY DEF AtServer, AtRest, IndInv, HandlerInv
  <2>2. "lost" \in Steps /\ "lost" \in AtRest
    BY DEF Steps, AtRest
  <2> QED
    BY <1>1, <2>1, <2>2, NoRequestFacts, RequestFacts DEF IndInv, AtServer
<1>3. \A q \in Pages : pc'[q] \notin {"looking_up", "adding_user", "verifying",
                 "adding_session", "welcoming", "asking", "identifying",
                 "authenticating", "revoking", "leaving"}
  BY <1>2 DEF AtRest
<1>4. unheard' \subseteq 1..Len(sessions)
  <2>1. ASSUME NEW q \in Pages, pc[q] = "leaving" PROVE req[q].token \in 1..Len(sessions)
    BY <2>1, RequestFacts DEF IndInv, HandlerInv
  <2> QED
    BY <1>1, <2>1, UnheardTypes DEF Leaving
<1>5. TypeOK'
  <2>1. <<>> \in Seq(Nat) /\ Len(<<>>) = 0 /\ Maximum \in Nat
    BY LimitsAssumption
  <2>2. /\ attempts' \in [Browsers -> Seq(Nat)] /\ admitted' \in [Browsers -> Seq(Nat)]
        /\ \A b \in Browsers : Len(attempts'[b]) <= Maximum
    BY <2>1, <1>1
  <2>3. \A q \in Pages : req'[q].token \in 0..Len(sessions)
    BY <1>2 DEF IndInv, TypeOK
  <2> QED
    BY <2>2, <2>3, <1>1, <1>2, <1>4 DEF IndInv, TypeOK
<1>6. ThrottleInv' /\ ThrottleWindow'
  BY <1>1 DEF ThrottleInv, ThrottleWindow
<1>7. AccountInv' /\ LogoutInv'
  BY <1>1, <1>3 DEF IndInv, AccountInv, LogoutInv
<1>8. HandlerInv'
  BY <1>2, <1>3 DEF HandlerInv
<1>9. TokenInv'
  BY <1>1, <1>2, <1>3 DEF IndInv, TokenInv
<1>10. RevokedTokenLeaves'
  <2> SUFFICES ASSUME ~CookieSecure, NEW b \in Browsers,
                      jar[b].session # 0, sessions[jar[b].session].revoked
               PROVE  jar[b].session \in unheard'
    BY <1>1 DEF RevokedTokenLeaves
  <2> QED
    BY <1>1 DEF IndInv, RevokedTokenLeaves, Leaving
<1> QED
  BY <1>5, <1>6, <1>7, <1>8, <1>9, <1>10 DEF IndInv

\* Nothing has happened yet.
LEMMA Initially == Init => IndInv
<1> SUFFICES ASSUME Init PROVE IndInv
  OBVIOUS
<1>1. <<>> \in Seq(Nat) /\ Len(<<>>) = 0 /\ Maximum \in Nat /\ <<>> \in Seq(SessionRecord)
  BY LimitsAssumption
<1>2. TypeOK
  BY <1>1, NoRequestFacts DEF Init, TypeOK, Steps, AtRest, NoCookies
<1>3. AccountInv /\ ThrottleInv /\ ThrottleWindow /\ LogoutInv
  BY DEF Init, AccountInv, ThrottleInv, ThrottleWindow, LogoutInv
<1>4. HandlerInv /\ TokenInv /\ RevokedTokenLeaves
  BY NoRequestFacts DEF Init, HandlerInv, TokenInv, RevokedTokenLeaves, NoCookies
<1> QED
  BY <1>2, <1>3, <1>4 DEF IndInv

\* A step that changes nothing keeps everything.
LEMMA Stuttering == IndInv /\ UNCHANGED vars => IndInv'
BY DEF vars, IndInv, TypeOK, AccountInv, ThrottleInv, ThrottleWindow, IsOld,
       HandlerInv, LogoutInv, TokenInv, RevokedTokenLeaves

-----------------------------------------------------------------------------
(* The theorems                                                              *)

\* Every step of the system keeps the invariant.
LEMMA NextKeeps == IndInv /\ [Next]_vars => IndInv'
<1> SUFFICES ASSUME IndInv, [Next]_vars PROVE IndInv'
  OBVIOUS
<1>1. CASE UNCHANGED vars
  BY <1>1, Stuttering
<1>2. ASSUME NEW p \in Pages, RegisterStep(p) PROVE IndInv'
  BY <1>2, RegisterKeeps, LookUpNameKeeps, AddUserKeeps DEF RegisterStep
<1>3. ASSUME NEW p \in Pages, LoginStep(p) PROVE IndInv'
  BY <1>3, LoginKeeps, VerifyKeeps, AddSessionKeeps, WelcomeKeeps DEF LoginStep
<1>4. ASSUME NEW p \in Pages, MeStep(p) PROVE IndInv'
  BY <1>4, MeKeeps, CurrentSessionKeeps, CurrentUserKeeps DEF MeStep
<1>5. ASSUME NEW p \in Pages, LogoutStep(p) PROVE IndInv'
  BY <1>5, ReadCsrfKeeps, SendLogoutKeeps, MutationSessionKeeps, RevokeKeeps,
     GoodbyeKeeps DEF LogoutStep
<1>6. ASSUME NEW p \in Pages, Lose(p) PROVE IndInv'
  BY <1>6, LoseKeeps
<1> QED
  BY <1>1, <1>2, <1>3, <1>4, <1>5, <1>6, TickKeeps, RestartKeeps DEF Next

\* The accounts, the throttle, the handlers and the cookies agree in every
\* state of every instance.
THEOREM Invariance == Spec => []IndInv
BY Initially, NextKeeps, PTL DEF Spec

\* The tables, the cookies and the handlers keep their types, and no address has
\* more attempts on record than the maximum.
THEOREM TypeCorrect == Spec => []TypeOK
<1>1. IndInv => TypeOK
  BY DEF IndInv
<1> QED
  BY Invariance, <1>1, PTL

\* No name is answered 201 twice, however many registrations race.
THEOREM UniqueAccounts == Spec => []OneAccountPerName
<1>1. IndInv => OneAccountPerName
  BY DEF IndInv, AccountInv, OneAccountPerName
<1> QED
  BY Invariance, <1>1, PTL

\* No window holds more than Maximum attempts of one address that were admitted.
THEOREM WindowSlides == Spec => []ThrottleWindow
<1>1. IndInv => ThrottleWindow
  BY DEF IndInv
<1> QED
  BY Invariance, <1>1, PTL

\* With cookies that are not Secure, no token of a revoked session comes back.
THEOREM RevokedLeaves == Spec => []RevokedTokenLeaves
<1>1. IndInv => RevokedTokenLeaves
  BY DEF IndInv
<1> QED
  BY Invariance, <1>1, PTL

\* Where a handler that moves on goes, and that the others stay.
LEMMA OnlyMoves ==
    ASSUME TypeOK, NEW p \in Pages, NEW q \in Pages, NEW step, NEW r,
           Goes(p, step, r), pc'[q] # pc[q]
    PROVE  q = p /\ pc'[q] = step
BY DEF Goes, TypeOK

\* Every step that accepts a request checked its session first.
LEMMA AcceptedStep ==
    ASSUME IndInv, [Next]_vars, NEW p \in Pages,
           pc[p] \in {"asking", "authenticating"},
           pc'[p] \in {"identifying", "revoking"}
    PROVE  req[p].token \notin out /\ clock < sessions[req[p].token].expires
<1>1. TypeOK /\ LogoutInv
  BY DEF IndInv
<1>2. req[p].token \in 1..Len(sessions)
  BY RequestFacts DEF IndInv, HandlerInv
<1>3. CASE IsActive(sessions[req[p].token])
  <2>1. sessions[req[p].token].expires \in Nat /\ clock \in Nat
    <3>1. sessions[req[p].token] \in SessionRecord /\ clock \in Nat
      BY <1>1, <1>2 DEF TypeOK
    <3> QED
      BY <3>1 DEF SessionRecord
  <2> QED
    BY <1>1, <1>3, <2>1 DEF IsActive, LogoutInv
<1>4. ASSUME NEW q \in Pages, pc[q] \notin {"asking", "authenticating"}
      PROVE  \A step, r : ~Goes(q, step, r)
  <2>1. q # p
    BY <1>4
  <2> QED
    BY <2>1, <1>1, OnlyMoves
<1>5. ASSUME NEW q \in Pages, NEW answer \in AtRest PROVE ~Answer(q, answer)
  BY <1>1, <1>5, OnlyMoves DEF Answer, AtRest
<1>6. ASSUME NEW q \in Pages,
             RegisterStep(q) \/ LoginStep(q) \/ MeStep(q) \/ LogoutStep(q) \/ Lose(q)
      PROVE  IsActive(sessions[req[p].token])
  <2>1. CASE RegisterStep(q)
    BY <2>1, <1>4, <1>5 DEF RegisterStep, Register, LookUpName, AddUser, AtRest
  <2>2. CASE LoginStep(q)
    BY <2>2, <1>4, <1>5
       DEF LoginStep, Login, CheckAndRecord, Verify, AddSession, Welcome, AtRest
  <2>3. CASE CurrentSession(q)
    BY <2>3, <1>1, <1>5, OnlyMoves DEF CurrentSession, AtRest
  <2>4. CASE MutationSession(q)
    BY <2>4, <1>1, <1>5, OnlyMoves DEF MutationSession, AtRest
  <2>5. CASE Me(q) \/ CurrentUser(q)
    BY <2>5, <1>4, <1>5 DEF Me, CurrentUser, AtRest
  <2>6. CASE ReadCsrf(q) \/ SendLogout(q) \/ Revoke(q) \/ Goodbye(q)
    BY <2>6, <1>4, <1>5 DEF ReadCsrf, SendLogout, Revoke, Goodbye, AtRest
  <2>7. CASE Lose(q)
    BY <2>7, <1>5 DEF Lose, AtRest
  <2> QED
    BY <1>6, <2>1, <2>2, <2>3, <2>4, <2>5, <2>6, <2>7 DEF MeStep, LogoutStep
<1>7. ~Tick /\ ~UNCHANGED vars
  BY DEF Tick, vars
<1>8. ~Restart
  BY <1>1 DEF Restart, TypeOK
<1> QED
  BY <1>3, <1>6, <1>7, <1>8 DEF Next

\* No request is accepted with a session that was logged out of or has expired.
THEOREM AcceptedLive == Spec => AcceptedIsLive
<1>1. IndInv /\ [Next]_vars =>
        [\A p \in Pages :
          (/\ pc[p] \in {"asking", "authenticating"}
           /\ pc'[p] \in {"identifying", "revoking"})
             => /\ req[p].token \notin out
                /\ clock < sessions[req[p].token].expires]_vars
  BY AcceptedStep
<1> QED
  BY Invariance, <1>1, PTL DEF Spec, AcceptedIsLive

\* An attempt that is refused comes after Maximum recent ones.
LEMMA RefusedStep ==
    ASSUME IndInv, [Next]_vars, NEW p \in Pages,
           pc[p] # "refused", pc'[p] = "refused"
    PROVE  LET times == admitted[Browser(p)]
           IN  /\ Len(times) >= Maximum
               /\ clock - times[Len(times) - Maximum + 1] <= Window
<1>1. TypeOK
  BY DEF IndInv
<1>2. ASSUME NEW q \in Pages, NEW step, step # "refused" PROVE \A r : ~Goes(q, step, r)
  BY <1>1, <1>2, OnlyMoves
<1>3. ASSUME NEW q \in Pages, NEW answer, answer # "refused" PROVE ~Answer(q, answer)
  BY <1>2, <1>3 DEF Answer
<1>4. ~Tick /\ ~UNCHANGED vars
  BY DEF Tick, vars
<1>5. ~Restart
  BY <1>1 DEF Restart, TypeOK
<1>6. ASSUME NEW q \in Pages,
             RegisterStep(q) \/ LoginStep(q) \/ MeStep(q) \/ LogoutStep(q) \/ Lose(q)
      PROVE  \E n \in Names, w \in Passwords : Login(q, n, w)
  <2>1. CASE RegisterStep(q)
    BY <2>1, <1>2, <1>3 DEF RegisterStep, Register, LookUpName, AddUser
  <2>2. CASE Verify(q) \/ AddSession(q) \/ Welcome(q)
    BY <2>2, <1>2, <1>3 DEF Verify, AddSession, Welcome
  <2>3. CASE MeStep(q)
    <3>1. ~CurrentUser(q)
      BY <1>3 DEF CurrentUser
    <3> QED
      BY <2>3, <3>1, <1>2, <1>3 DEF MeStep, Me, CurrentSession
  <2>4. CASE LogoutStep(q)
    BY <2>4, <1>2, <1>3
       DEF LogoutStep, ReadCsrf, SendLogout, MutationSession, Revoke, Goodbye
  <2>5. CASE Lose(q)
    BY <2>5, <1>3 DEF Lose
  <2> QED
    BY <1>6, <2>1, <2>2, <2>3, <2>4, <2>5 DEF LoginStep
<1>7. ASSUME NEW q \in Pages, NEW n \in Names, NEW w \in Passwords, Login(q, n, w)
      PROVE  LET times == admitted[Browser(p)]
             IN  /\ Len(times) >= Maximum
                 /\ clock - times[Len(times) - Maximum + 1] <= Window
  <2> DEFINE b == Browser(q)
             recorded == attempts[b]
             r == [NoRequest EXCEPT !.name = n, !.password = w, !.now = clock]
  <2>1. PICK k \in Dropped(recorded) :
           CheckAndRecord(q, SubSeq(recorded, k + 1, Len(recorded)), r)
    BY <1>7 DEF Login
  <2>2. /\ recorded \in Seq(Nat) /\ Len(recorded) <= Maximum
        /\ admitted[b] \in Seq(Nat) /\ clock \in Nat
        /\ Matches(recorded, admitted[b])
    BY PageFacts, ThrottleFacts
  <2>3. q = p /\ ~HasRoom(SubSeq(recorded, k + 1, Len(recorded)))
    <3>1. ~HasRoom(SubSeq(recorded, k + 1, Len(recorded)))
      BY <2>1, <1>2 DEF CheckAndRecord
    <3>2. Goes(q, "refused", NoRequest)
      BY <2>1, <3>1 DEF CheckAndRecord, Answer
    <3> QED
      BY <3>1, <3>2, <1>1, OnlyMoves
  <2>4. k \in 0..Len(recorded) /\ (k < Len(recorded) => ~IsOld(recorded[k + 1]))
    BY DEF Dropped
  <2>5. Len(SubSeq(recorded, k + 1, Len(recorded))) = Len(recorded) - k
    BY <2>2, <2>4, SubSeqFacts
  <2>6. PICK m \in Nat, all \in Nat, d \in Nat :
           /\ m = Len(recorded) /\ all = Len(admitted[b])
           /\ d = Len(admitted[b]) - Len(recorded) /\ d = all - m
    <3>1. Len(recorded) \in Nat /\ Len(admitted[b]) \in Nat
      BY <2>2
    <3> QED
      BY <3>1, <2>2 DEF Matches
  <2>7. k = 0 /\ m = Maximum /\ Maximum \in Nat \ {0} /\ Window \in Nat
    <3>1. k \in 0..m /\ m <= Maximum /\ ~(m - k < Maximum)
      BY <2>2, <2>3, <2>4, <2>5, <2>6 DEF HasRoom
    <3> QED
      BY <3>1, LimitsAssumption
  <2>8. ~IsOld(recorded[1]) /\ recorded[1] = admitted[b][d + 1]
        /\ recorded[1] \in Nat
    <3>1. 0 < Len(recorded) /\ 1 \in 1..Len(recorded)
      BY <2>6, <2>7
    <3> QED
      BY <3>1, <2>2, <2>4, <2>6, <2>7 DEF Matches
  <2>9. all - Maximum + 1 = d + 1 /\ all >= Maximum
    BY <2>6, <2>7
  <2>10. clock - recorded[1] <= Window
    BY <2>2, <2>7, <2>8 DEF IsOld
  <2> QED
    BY <2>3, <2>6, <2>8, <2>9, <2>10
<1> QED
  BY <1>4, <1>5, <1>6, <1>7 DEF Next

\* No attempt is refused that was not the last of Maximum + 1 within a window.
THEOREM RefusedDue == Spec => RefusalIsDue
<1>1. IndInv /\ [Next]_vars =>
        [\A p \in Pages : (pc[p] # "refused" /\ pc'[p] = "refused")
          => LET times == admitted[Browser(p)]
             IN  /\ Len(times) >= Maximum
                 /\ clock - times[Len(times) - Maximum + 1] <= Window]_vars
  BY RefusedStep
<1> QED
  BY Invariance, <1>1, PTL DEF Spec, RefusalIsDue
\* Only the answer to a logout ends it.
LEMMA GoodbyeStep ==
    ASSUME IndInv, [Next]_vars, NEW p \in Pages, pc[p] = "leaving", pc'[p] = "goodbye"
    PROVE  Goodbye(p)
<1>1. TypeOK
  BY DEF IndInv
<1>2. ASSUME NEW q \in Pages, NEW step, NEW r, Goes(q, step, r)
      PROVE  q = p /\ step = "goodbye"
  BY <1>1, <1>2, OnlyMoves
<1>3. ASSUME NEW q \in Pages,
             RegisterStep(q) \/ LoginStep(q) \/ MeStep(q) \/ LogoutStep(q) \/ Lose(q)
      PROVE  Goodbye(p)
  <2>1. CASE RegisterStep(q)
    <3>1. ASSUME NEW n, NEW w, NEW fits, Register(q, n, w, fits) PROVE FALSE
      BY <3>1, <1>2 DEF Register
    <3>2. CASE LookUpName(q)
      BY <3>2, <1>2 DEF LookUpName, Answer
    <3>3. CASE AddUser(q)
      <4>1. Goes(q, "created", NoRequest) \/ Goes(q, "error", NoRequest)
        BY <3>3 DEF AddUser, Answer
      <4> QED
        BY <4>1, <1>2
    <3> QED
      BY <2>1, <3>1, <3>2, <3>3 DEF RegisterStep
  <2>2. CASE LoginStep(q)
    <3>1. ASSUME NEW n, NEW w, Login(q, n, w) PROVE FALSE
      <4>1. \/ \E r : Goes(q, "verifying", r)
            \/ Goes(q, "refused", NoRequest)
        BY <3>1 DEF Login, CheckAndRecord, Answer
      <4> QED
        BY <4>1, <1>2
    <3>2. CASE Verify(q)
      BY <3>2, <1>2 DEF Verify, Answer
    <3>3. CASE AddSession(q) \/ Welcome(q)
      BY <3>3, <1>2 DEF AddSession, Welcome, Answer
    <3> QED
      BY <2>2, <3>1, <3>2, <3>3 DEF LoginStep
  <2>3. CASE MeStep(q)
    <3>1. CASE Me(q)
      BY <3>1, <1>2 DEF Me, Answer
    <3>2. CASE CurrentSession(q)
      BY <3>2, <1>2 DEF CurrentSession, Answer
    <3>3. CASE CurrentUser(q)
      <4>1. Goes(q, "known", NoRequest) \/ Goes(q, "anonymous", NoRequest)
        BY <3>3 DEF CurrentUser, Answer
      <4> QED
        BY <4>1, <1>2
    <3> QED
      BY <2>3, <3>1, <3>2, <3>3 DEF MeStep
  <2>4. CASE ReadCsrf(q) \/ SendLogout(q) \/ MutationSession(q) \/ Revoke(q)
    BY <2>4, <1>2 DEF ReadCsrf, SendLogout, MutationSession, Revoke, Answer
  <2>5. CASE Goodbye(q)
    BY <2>5, <1>2 DEF Goodbye, Answer
  <2>6. CASE Lose(q)
    BY <2>6, <1>2 DEF Lose, Answer
  <2> QED
    BY <1>3, <2>1, <2>2, <2>3, <2>4, <2>5, <2>6 DEF LogoutStep
<1>4. ~Tick /\ ~UNCHANGED vars
  BY DEF Tick, vars
<1>5. ~Restart
  BY <1>1 DEF Restart, TypeOK
<1> QED
  BY <1>3, <1>4, <1>5 DEF Next

\* The sentence of openapi.yaml that the code breaks with Secure cookies it keeps
\* without them: whatever a browser was told meanwhile, the answer to a logout
\* takes the token of that session from it.
THEOREM PlainCookiesExpire ==
    ASSUME ~CookieSecure
    PROVE  Spec => LogoutExpiresCookies
<1>1. IndInv /\ [Next]_vars =>
        [\A p \in Pages : (pc[p] = "leaving" /\ pc'[p] = "goodbye")
            => jar'[Browser(p)].session # req[p].token]_vars
  <2> SUFFICES ASSUME IndInv, [Next]_vars, NEW p \in Pages,
                      pc[p] = "leaving", pc'[p] = "goodbye"
               PROVE  jar'[Browser(p)].session # req[p].token
    OBVIOUS
  <2>1. jar' = [jar EXCEPT ![Browser(p)] = Deleted(jar[Browser(p)])]
    BY GoodbyeStep DEF Goodbye
  <2>2. /\ Browser(p) \in Browsers /\ req[p].token # 0
        /\ jar \in [Browsers -> [session : 0..Len(sessions),
                                 csrf : 0..Len(sessions), until : Nat]]
    BY PageFacts DEF IndInv, HandlerInv, TypeOK
  <2>3. Deleted(jar[Browser(p)]).session = 0
    BY <2>2 DEF Deleted
  <2> QED
    BY <2>1, <2>2, <2>3
<1> QED
  BY Invariance, <1>1, PTL DEF Spec, LogoutExpiresCookies
=============================================================================
