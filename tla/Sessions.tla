-------------------------------- MODULE Sessions --------------------------------
(***************************************************************************)
(* Sessions, refresh tokens and the credentials behind them, from          *)
(* src/src/platform/auth/sessions.py, manager.py, identity.py and          *)
(* recovery.py.                                                            *)
(*                                                                         *)
(* A session is issued by a login.  Its session token and its refresh      *)
(* token always come as a pair, at login and at every refresh, and a       *)
(* holder may present any that was ever handed out: a pair is known by the *)
(* number of its issue, a session by the number of its first pair.  Each   *)
(* call is one action; calls that are refused change nothing, but for      *)
(* those said to.                                                          *)
(***************************************************************************)
EXTENDS Integers, Sequences

CONSTANTS
    Accounts,        \* the users of the tenant
    Nobody,
    Passwords,
    FirstPassword,   \* the one every user registered with
    DefaultTTL, RememberTTL, RefreshTTL, RecoveryTTL,
    HistorySize,     \* policy.history_size
    MaxPairs,        \* bounds of the model: pairs of tokens,
    MaxRecoveries,   \* recovery tokens,
    MaxCredentials,  \* changes of one user's password
    MaxNow           \* and time

VARIABLES
    now,
    password,    \* credentials: each user's passwords, the current one first
    epoch,       \* how often each user's password was changed
    minted,      \* the pairs handed out so far
    session,     \* sessions_repo, by the number of the first pair
    refresh,     \* refresh_repo, by the number of the pair
    recovery     \* recovery_tokens, in the order they were issued

authVars == <<now, password, epoch, minted, session, refresh, recovery>>

AuthAssumption ==
    /\ FirstPassword \in Passwords
    /\ DefaultTTL \in Nat /\ RememberTTL \in Nat /\ RefreshTTL \in Nat /\ RecoveryTTL \in Nat
    /\ HistorySize \in Nat
    /\ MaxPairs \in Nat /\ MaxNow \in Nat

Pairs == 1..MaxPairs

SessionRecords ==
    [status : {"none", "active", "expired", "revoked"}, user : Accounts \cup {Nobody}, remember : BOOLEAN,
     token : Pairs, expires : Nat, epoch : Nat]

RefreshRecords == [session : Pairs, used : BOOLEAN, revoked : BOOLEAN, expires : Nat]
RecoveryRecords == [user : Accounts, used : BOOLEAN, expires : Nat]

AuthTypeOK ==
    /\ now \in 0..MaxNow
    /\ password \in [Accounts -> Seq(Passwords)]
    /\ epoch \in [Accounts -> Nat]
    /\ minted \in 0..MaxPairs
    /\ session \in [Pairs -> SessionRecords]
    /\ refresh \in [Pairs -> RefreshRecords]
    /\ recovery \in Seq(RecoveryRecords)

\* Records of pairs that are yet to be handed out mean nothing.
AuthInit ==
    /\ now = 0
    /\ password = [u \in Accounts |-> <<FirstPassword>>]
    /\ epoch = [u \in Accounts |-> 0]
    /\ minted = 0
    /\ session = [s \in Pairs |-> [status |-> "none", user |-> Nobody, remember |-> FALSE,
                                    token |-> s, expires |-> 0, epoch |-> 0]]
    /\ refresh = [n \in Pairs |-> [session |-> n, used |-> FALSE, revoked |-> FALSE,
                                   expires |-> 0]]
    /\ recovery = <<>>

--------------------------------------------------------------------------------
(* SessionManager                                                              *)

TTL(remember) == IF remember THEN RememberTTL ELSE DefaultTTL

\* _issue_refresh()
NewRefresh(s) ==
    [session |-> s, used |-> FALSE, revoked |-> FALSE, expires |-> now + RefreshTTL]

\* login(): authenticate(), then issue().
Login(u, p, remember) ==
    LET n == minted + 1 IN
    /\ Head(password[u]) = p
    /\ n \in Pairs
    /\ minted' = n
    /\ session' = [session EXCEPT ![n] =
           [status |-> "active", user |-> u, remember |-> remember, token |-> n,
            expires |-> now + TTL(remember), epoch |-> epoch[u]]]
    /\ refresh' = [refresh EXCEPT ![n] = NewRefresh(n)]
    /\ UNCHANGED <<now, password, epoch, recovery>>

\* Mutated form: the time is looked at, the status is not.
RunOut_AnyStatus(s) == now >= session[s].expires

\* A session whose time is over and that nobody has found to be so.
RunOut(s) == session[s].status = "active" /\ now >= session[s].expires

\* validate() of a token that is still the session's: it notes that the session
\* has expired.  (In time it only notes that the session was seen.)
ValidateFindsExpired(n) ==
    LET s == refresh[n].session IN
    /\ n <= minted
    /\ session[s].token = n
    /\ RunOut(s)
    /\ session' = [session EXCEPT ![s].status = "expired"]
    /\ UNCHANGED <<now, password, epoch, minted, refresh, recovery>>

\* Mutated form: the presented token is left as it is.
Spent_StillGood(token) == token

\* The token that was presented, once it has been consumed.
Spent(token) == [token EXCEPT !.used = TRUE]

\* refresh(): the status of the session counts, not its expires_at.
Refresh(n) ==
    LET s   == refresh[n].session
        new == minted + 1
    IN
    /\ n <= minted
    /\ ~refresh[n].revoked /\ ~refresh[n].used
    /\ now < refresh[n].expires
    /\ session[s].status = "active"
    /\ new \in Pairs
    /\ minted' = new
    /\ session' = [session EXCEPT ![s].token = new,
                                  ![s].expires = now + TTL(session[s].remember)]
    /\ refresh' = [refresh EXCEPT ![n] = Spent(@), ![new] = NewRefresh(s)]
    /\ UNCHANGED <<now, password, epoch, recovery>>

\* revoke() of a set of sessions, each with all of its refresh tokens.
RevokeAll(sessions) ==
    /\ session' = [s \in Pairs |->
           IF s \in sessions THEN [session[s] EXCEPT !.status = "revoked"] ELSE session[s]]
    /\ refresh' = [n \in Pairs |->
           IF n <= minted /\ refresh[n].session \in sessions
             THEN [refresh[n] EXCEPT !.revoked = TRUE] ELSE refresh[n]]

Logout(s) ==
    /\ session[s].status # "none"
    /\ RevokeAll({s})
    /\ UNCHANGED <<now, password, epoch, minted, recovery>>

--------------------------------------------------------------------------------
(* AuthenticationManager                                                       *)

\* Mutated form: sessions that were not used lately are passed over.
ActiveOf_Unexpired(u) ==
    {s \in Pairs : session[s].status = "active" /\ session[s].user = u
                     /\ now < session[s].expires}

\* The sessions that revoke_all_for_user() looks for.
ActiveOf(u) == {s \in Pairs : session[s].status = "active" /\ session[s].user = u}

\* _assert_new_password(): neither the current password nor one of the history.
Recent(u, p) == \E i \in DOMAIN password[u] : password[u][i] = p

\* _store_password() and the end of every session.
NewCredential(u, p) ==
    /\ epoch[u] < MaxCredentials
    /\ ~Recent(u, p)
    /\ password' = [password EXCEPT ![u] = SubSeq(<<p>> \o @, 1,
           IF Len(@) < HistorySize THEN Len(@) + 1 ELSE HistorySize + 1)]
    /\ epoch' = [epoch EXCEPT ![u] = @ + 1]
    /\ RevokeAll(ActiveOf(u))

ChangePassword(u, current, new) ==
    /\ Head(password[u]) = current
    /\ NewCredential(u, new)
    /\ UNCHANGED <<now, minted, recovery>>

\* AccountRecoveryService.initiate()
InitiateRecovery(u) ==
    /\ Len(recovery) < MaxRecoveries
    /\ recovery' = Append(recovery, [user |-> u, used |-> FALSE, expires |-> now + RecoveryTTL])
    /\ UNCHANGED <<now, password, epoch, minted, session, refresh>>

Consume(r) ==
    /\ ~recovery[r].used
    /\ now < recovery[r].expires
    /\ recovery' = [recovery EXCEPT ![r].used = TRUE]
    /\ UNCHANGED <<now, minted>>

ResetPassword(r, new) ==
    /\ Consume(r)
    /\ NewCredential(recovery[r].user, new)

\* The new password is refused after the token was consumed: the token is lost.
ResetRefused(r, new) ==
    /\ Consume(r)
    /\ Recent(recovery[r].user, new)
    /\ UNCHANGED <<password, epoch, session, refresh>>

TimePasses ==
    /\ now < MaxNow
    /\ now' = now + 1
    /\ UNCHANGED <<password, epoch, minted, session, refresh, recovery>>

AuthNext ==
    \/ \E u \in Accounts, p \in Passwords, remember \in BOOLEAN : Login(u, p, remember)
    \/ \E n \in Pairs : ValidateFindsExpired(n) \/ Refresh(n) \/ Logout(n)
    \/ \E u \in Accounts, current, new \in Passwords : ChangePassword(u, current, new)
    \/ \E u \in Accounts : InitiateRecovery(u)
    \/ \E r \in DOMAIN recovery, new \in Passwords : ResetPassword(r, new) \/ ResetRefused(r, new)
    \/ TimePasses

AuthSpec == AuthInit /\ [][AuthNext]_authVars

--------------------------------------------------------------------------------
(* Properties                                                                  *)

LiveTokens(s) ==
    {n \in 1..minted : refresh[n].session = s /\ ~refresh[n].used /\ ~refresh[n].revoked}

\* An active session can be prolonged with one refresh token only, the one that
\* came with its current session token, whatever was presented, replayed or
\* revoked before; a revoked session with none.
OneWayIn ==
    \A s \in Pairs :
        /\ session[s].status = "active" => LiveTokens(s) = {session[s].token}
        /\ session[s].status = "revoked" => LiveTokens(s) = {}

\* "Force re-authentication everywhere on a credential change" (manager.py): a
\* session that can be used, or could be by a refresh, was issued under the
\* user's current password, however that came to be changed.
NoneOutlivesItsPassword ==
    \A s \in Pairs :
        session[s].status = "active" => session[s].epoch = epoch[session[s].user]

\* A session that was once found to have expired, or was revoked, is never
\* active again, although refresh() does not ask whether a session has expired
\* and brings back those that nobody has looked at since they did.
EndedForGood ==
    [][\A s \in Pairs :
           /\ session[s].status \in {"expired", "revoked"} => session'[s].status # "active"
           /\ session[s].status = "revoked" => session'[s].status = "revoked"]_authVars

================================================================================
