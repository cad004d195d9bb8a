-------------------------- MODULE AuthenticationInv -------------------------
(* The inductive invariant of Authentication.                                *)
EXTENDS Authentication

\* An account is created by the one registration that was answered 201.
AccountInv == \A n \in Names : created[n] = IF users[n] = None THEN 0 ELSE 1

\* The attempts on record are the last of those admitted; the others are old.
ThrottleInv ==
    \A b \in Browsers :
        LET dropped == Len(admitted[b]) - Len(attempts[b])
        IN  /\ dropped \in Nat
            /\ \A i \in 1..Len(attempts[b]) : attempts[b][i] = admitted[b][dropped + i]
            /\ \A i \in 1..dropped : IsOld(admitted[b][i])
            /\ \A i \in 1..Len(admitted[b]) : admitted[b][i] <= clock

\* What a handler carries at each step.
HandlerInv ==
    \A p \in Pages :
        /\ pc[p] \in {"looking_up", "adding_user", "verifying", "adding_session"}
              => req[p].name \in Names /\ req[p].password \in Passwords
        /\ pc[p] = "adding_session" => users[req[p].name] # None
        /\ pc[p] \in {"welcoming", "asking", "identifying", "authenticating",
                      "revoking", "leaving"} <=> req[p].token # 0

\* A logout revokes before it is answered.
LogoutInv ==
    /\ \A k \in out : sessions[k].revoked
    /\ \A p \in Pages : pc[p] = "leaving" => sessions[req[p].token].revoked

\* A token is known to one browser, and to none before its login is answered.
TokenInv ==
    /\ \A b, c \in Browsers :
          (jar[b].session = jar[c].session /\ b # c) => jar[b].session = 0
    /\ \A b \in Browsers, p \in Pages :
          (req[p].token = jar[b].session /\ req[p].token # 0)
             => Browser(p) = b /\ pc[p] # "welcoming"
    /\ \A p, q \in Pages :
          (req[p].token = req[q].token /\ req[p].token # 0 /\ p # q)
             => Browser(p) = Browser(q) /\ pc[p] # "welcoming"
    /\ \A p \in Pages : pc[p] = "welcoming" => ~sessions[req[p].token].revoked

IndInv ==
    /\ TypeOK
    /\ AccountInv
    /\ ThrottleInv
    /\ ThrottleWindow
    /\ HandlerInv
    /\ LogoutInv
    /\ TokenInv
    /\ RevokedTokenLeaves
=============================================================================
