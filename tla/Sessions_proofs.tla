----------------------------- MODULE Sessions_proofs -----------------------------
(***************************************************************************)
(* Proofs about Sessions: for any number of users, tokens and passwords    *)
(* and all lifetimes, one refresh token prolongs a session, no session     *)
(* outlives its password, and what has ended stays so.                     *)
(*                                                                         *)
(* The argument.  Every pair that was handed out belongs to a session that *)
(* was issued, and the current token of a session to that session (Linked).*)
(* With that, the tokens of different sessions are apart, and a step can   *)
(* be followed session by session.                                         *)
(***************************************************************************)
EXTENDS Sessions, SequenceTheorems, TLAPS

\* What was handed out belongs to an issued session, and nothing else is issued.
Linked ==
    /\ \A n \in 1..minted : refresh[n].session \in 1..minted
    /\ \A s \in Pairs : session[s].status # "none" =>
          /\ s \in 1..minted
          /\ session[s].token \in 1..minted
          /\ refresh[session[s].token].session = s

AuthBooks == AuthTypeOK /\ Linked

--------------------------------------------------------------------------------
(* Types                                                                       *)

\* The passwords that are remembered after a change are passwords.
LEMMA HistoryIsTyped ==
    ASSUME AuthAssumption, NEW history \in Seq(Passwords), NEW p \in Passwords
    PROVE  SubSeq(<<p>> \o history, 1, IF Len(history) < HistorySize THEN Len(history) + 1
                                        ELSE HistorySize + 1) \in Seq(Passwords)
<1> DEFINE all  == <<p>> \o history
           kept == IF Len(history) < HistorySize THEN Len(history) + 1 ELSE HistorySize + 1
<1>1. all \in Seq(Passwords) /\ Len(all) = Len(history) + 1
  OBVIOUS
<1>2. kept \in 1..Len(all)
  BY <1>1 DEF AuthAssumption
<1> HIDE DEF all, kept
<1>3. SubSeq(all, 1, kept) \in Seq(Passwords)
  BY <1>1, <1>2
<1> QED
  BY <1>3 DEF all, kept

\* Records stay records when one field is overwritten.
LEMMA RecordsAreTyped ==
    /\ \A r \in SessionRecords :
          /\ [r EXCEPT !.status = "revoked"] \in SessionRecords
          /\ [r EXCEPT !.status = "expired"] \in SessionRecords
          /\ \A t \in Pairs : [r EXCEPT !.token = t] \in SessionRecords
          /\ \A e \in Nat : [r EXCEPT !.expires = e] \in SessionRecords
    /\ \A r \in RefreshRecords :
          /\ [r EXCEPT !.used = TRUE] \in RefreshRecords
          /\ [r EXCEPT !.revoked = TRUE] \in RefreshRecords
    /\ \A r \in RecoveryRecords : [r EXCEPT !.used = TRUE] \in RecoveryRecords
<1>1. ASSUME NEW r \in SessionRecords
      PROVE  /\ [r EXCEPT !.status = "revoked"] \in SessionRecords
             /\ [r EXCEPT !.status = "expired"] \in SessionRecords
             /\ \A t \in Pairs : [r EXCEPT !.token = t] \in SessionRecords
             /\ \A e \in Nat : [r EXCEPT !.expires = e] \in SessionRecords
  BY Zenon DEF SessionRecords
<1>2. ASSUME NEW r \in RefreshRecords
      PROVE  /\ [r EXCEPT !.used = TRUE] \in RefreshRecords
             /\ [r EXCEPT !.revoked = TRUE] \in RefreshRecords
  BY DEF RefreshRecords
<1>3. ASSUME NEW r \in RecoveryRecords PROVE [r EXCEPT !.used = TRUE] \in RecoveryRecords
  BY DEF RecoveryRecords
<1> QED
  BY <1>1, <1>2, <1>3

\* Sessions and refresh tokens keep their types when some are revoked.
LEMMA RevocationIsTyped ==
    ASSUME AuthTypeOK, NEW sessions, RevokeAll(sessions)
    PROVE  /\ session' \in [Pairs -> SessionRecords]
           /\ refresh' \in [Pairs -> RefreshRecords]
<1>1. \A s \in Pairs : session'[s] \in SessionRecords
  BY RecordsAreTyped DEF RevokeAll, AuthTypeOK
<1>2. \A n \in Pairs : refresh'[n] \in RefreshRecords
  BY RecordsAreTyped DEF RevokeAll, AuthTypeOK
<1> QED
  BY <1>1, <1>2 DEF RevokeAll

\* A change of password keeps the types of what it changes.
LEMMA ChangeIsTyped ==
    ASSUME AuthAssumption, AuthTypeOK, NEW u \in Accounts, NEW p \in Passwords,
           NewCredential(u, p)
    PROVE  /\ password' \in [Accounts -> Seq(Passwords)]
           /\ epoch' \in [Accounts -> Nat]
           /\ session' \in [Pairs -> SessionRecords]
           /\ refresh' \in [Pairs -> RefreshRecords]
<1>1. password[u] \in Seq(Passwords)
  BY DEF AuthTypeOK
<1>2. password' \in [Accounts -> Seq(Passwords)]
  BY <1>1, HistoryIsTyped DEF NewCredential, AuthTypeOK
<1>3. epoch' \in [Accounts -> Nat]
  BY DEF NewCredential, AuthTypeOK
<1> QED
  BY <1>2, <1>3, RevocationIsTyped DEF NewCredential

\* Every step keeps the types.
LEMMA TypeStep ==
    ASSUME AuthAssumption, AuthTypeOK, [AuthNext]_authVars
    PROVE  AuthTypeOK'
<1> USE DEF AuthAssumption
<1>1. ASSUME NEW u \in Accounts, NEW p \in Passwords, NEW remember \in BOOLEAN,
             Login(u, p, remember)
      PROVE  AuthTypeOK'
  <2> DEFINE n == minted + 1
  <2>1. n \in Pairs /\ minted' = n
    BY <1>1 DEF Login
  <2>2. now + TTL(remember) \in Nat /\ now + RefreshTTL \in Nat
    BY DEF AuthTypeOK, TTL
  <2>3. [status |-> "active", user |-> u, remember |-> remember, token |-> n,
         expires |-> now + TTL(remember), epoch |-> epoch[u]] \in SessionRecords
    BY <2>1, <2>2 DEF AuthTypeOK, SessionRecords
  <2>4. NewRefresh(n) \in RefreshRecords
    BY <2>1, <2>2 DEF NewRefresh, RefreshRecords
  <2> QED
    BY <1>1, <2>1, <2>3, <2>4 DEF Login, AuthTypeOK, Pairs
<1>2. ASSUME NEW n \in Pairs, ValidateFindsExpired(n) PROVE AuthTypeOK'
  <2>1. refresh[n].session \in Pairs
    BY DEF AuthTypeOK, RefreshRecords
  <2> QED
    BY <1>2, <2>1, RecordsAreTyped DEF ValidateFindsExpired, AuthTypeOK
<1>3. ASSUME NEW n \in Pairs, Refresh(n) PROVE AuthTypeOK'
  <2> DEFINE s   == refresh[n].session
             new == minted + 1
  <2>1. s \in Pairs /\ new \in Pairs /\ minted' = new
    BY <1>3 DEF Refresh, AuthTypeOK, RefreshRecords
  <2>2. now + TTL(session[s].remember) \in Nat /\ now + RefreshTTL \in Nat
    BY DEF AuthTypeOK, TTL
  <2>3. session' \in [Pairs -> SessionRecords]
    <3>1. [[session[s] EXCEPT !.token = new] EXCEPT !.expires = now + TTL(session[s].remember)]
             \in SessionRecords
      BY <2>1, <2>2, RecordsAreTyped DEF AuthTypeOK
    <3>2. session' = [session EXCEPT ![s] =
             [[@ EXCEPT !.token = new] EXCEPT !.expires = now + TTL(session[s].remember)]]
      BY <1>3, <2>1 DEF Refresh, AuthTypeOK
    <3> QED
      BY <2>1, <3>1, <3>2 DEF AuthTypeOK
  <2>4. NewRefresh(s) \in RefreshRecords /\ Spent(refresh[n]) \in RefreshRecords
    <3>1. NewRefresh(s) \in RefreshRecords
      BY <2>1, <2>2 DEF NewRefresh, RefreshRecords
    <3>2. refresh[n] \in RefreshRecords
      BY DEF AuthTypeOK
    <3> QED
      BY <3>1, <3>2, RecordsAreTyped DEF Spent
  <2>5. refresh' \in [Pairs -> RefreshRecords]
    BY <1>3, <2>1, <2>4 DEF Refresh, AuthTypeOK
  <2>6. UNCHANGED <<now, password, epoch, recovery>>
    BY <1>3 DEF Refresh
  <2>7. minted' \in 0..MaxPairs
    BY <2>1 DEF Pairs
  <2> QED
    BY <2>3, <2>5, <2>6, <2>7 DEF AuthTypeOK
<1>4. ASSUME NEW s \in Pairs, Logout(s) PROVE AuthTypeOK'
  BY <1>4, RevocationIsTyped DEF Logout, AuthTypeOK
<1>5. ASSUME NEW u \in Accounts, NEW current \in Passwords, NEW new \in Passwords,
             ChangePassword(u, current, new)
      PROVE  AuthTypeOK'
  BY <1>5, ChangeIsTyped DEF ChangePassword, AuthTypeOK
<1>6. ASSUME NEW u \in Accounts, InitiateRecovery(u) PROVE AuthTypeOK'
  <2>1. [user |-> u, used |-> FALSE, expires |-> now + RecoveryTTL]
           \in RecoveryRecords
    BY DEF AuthTypeOK, RecoveryRecords
  <2> QED
    BY <1>6, <2>1 DEF InitiateRecovery, AuthTypeOK
<1>7. ASSUME NEW r \in DOMAIN recovery, Consume(r)
      PROVE  recovery' \in Seq(RecoveryRecords) /\ recovery[r] \in RecoveryRecords
  <2>1. recovery \in Seq(RecoveryRecords) /\ r \in 1..Len(recovery)
    BY <1>7 DEF AuthTypeOK
  <2>2. recovery[r] \in RecoveryRecords
    BY <2>1, ElementOfSeq
  <2>3. [recovery[r] EXCEPT !.used = TRUE] \in RecoveryRecords
    BY <2>2, RecordsAreTyped
  <2>4. recovery' = [recovery EXCEPT ![r] = [recovery[r] EXCEPT !.used = TRUE]]
    BY <1>7 DEF Consume
  <2> QED
    BY <2>1, <2>2, <2>3, <2>4, ExceptSeq
<1>8. ASSUME NEW r \in DOMAIN recovery, NEW new \in Passwords, ResetPassword(r, new)
      PROVE  AuthTypeOK'
  <2>1. recovery[r].user \in Accounts
    BY <1>7, <1>8 DEF ResetPassword, RecoveryRecords
  <2> QED
    BY <1>7, <1>8, <2>1, ChangeIsTyped DEF ResetPassword, Consume, AuthTypeOK
<1>9. ASSUME NEW r \in DOMAIN recovery, NEW new \in Passwords, ResetRefused(r, new)
      PROVE  AuthTypeOK'
  BY <1>7, <1>9 DEF ResetRefused, Consume, AuthTypeOK
<1>10. CASE TimePasses
  BY <1>10 DEF TimePasses, AuthTypeOK
<1>11. CASE UNCHANGED authVars
  BY <1>11 DEF authVars, AuthTypeOK
<1> QED
  BY <1>1, <1>2, <1>3, <1>4, <1>5, <1>6, <1>8, <1>9, <1>10, <1>11 DEF AuthNext

--------------------------------------------------------------------------------
(* The books of the tokens                                                     *)

\* The effect of a refresh, field by field.
LEMMA RefreshEffect ==
    ASSUME AuthTypeOK, NEW n \in Pairs, Refresh(n), NEW s, s = refresh[n].session,
           NEW new, new = minted + 1
    PROVE  /\ s \in Pairs /\ new \in Pairs /\ minted' = new
           /\ session[s].status = "active"
           /\ n \in 1..minted /\ ~refresh[n].used /\ ~refresh[n].revoked
           /\ session'[s].status = "active" /\ session'[s].token = new
           /\ session'[s].epoch = session[s].epoch /\ session'[s].user = session[s].user
           /\ \A t \in Pairs : t # s => session'[t] = session[t]
           /\ refresh'[new].session = s
           /\ ~refresh'[new].used /\ ~refresh'[new].revoked
           /\ refresh'[n].session = s /\ refresh'[n].used
           /\ \A m \in Pairs : m # n /\ m # new => refresh'[m] = refresh[m]
           /\ UNCHANGED epoch
<1>1. s \in Pairs
  BY DEF AuthTypeOK, RefreshRecords
<1>2. new \in Pairs /\ minted' = new /\ n \in 1..minted /\ n # new
  BY DEF Refresh, AuthTypeOK, Pairs
<1>3. session[s].status = "active" /\ ~refresh[n].used /\ ~refresh[n].revoked /\ UNCHANGED epoch
  BY DEF Refresh
<1>4. session' = [session EXCEPT ![s] =
         [[@ EXCEPT !.token = new] EXCEPT !.expires = now + TTL(session[s].remember)]]
  BY <1>1 DEF Refresh, AuthTypeOK
<1>5. session[s] \in SessionRecords
  BY <1>1 DEF AuthTypeOK
<1>6. /\ session'[s] = [[session[s] EXCEPT !.token = new]
                            EXCEPT !.expires = now + TTL(session[s].remember)]
      /\ \A t \in Pairs : t # s => session'[t] = session[t]
  BY <1>1, <1>4 DEF AuthTypeOK
<1>7. /\ session'[s].status = session[s].status /\ session'[s].token = new
      /\ session'[s].epoch = session[s].epoch /\ session'[s].user = session[s].user
  BY <1>5, <1>6 DEF SessionRecords
<1>8. refresh' = [refresh EXCEPT ![n] = [@ EXCEPT !.used = TRUE], ![new] = NewRefresh(s)]
  BY DEF Refresh, Spent
<1>9. refresh[n] \in RefreshRecords
  BY DEF AuthTypeOK
<1>10. /\ refresh'[n] = [refresh[n] EXCEPT !.used = TRUE]
       /\ refresh'[new] = NewRefresh(s)
       /\ \A m \in Pairs : m # n /\ m # new => refresh'[m] = refresh[m]
  BY <1>2, <1>8 DEF AuthTypeOK
<1>11. refresh'[n].session = s /\ refresh'[n].used
  BY <1>9, <1>10 DEF RefreshRecords
<1> QED
  BY <1>1, <1>2, <1>3, <1>6, <1>7, <1>10, <1>11 DEF NewRefresh

\* The effect of a login, field by field.
LEMMA LoginEffect ==
    ASSUME AuthTypeOK, NEW u \in Accounts, NEW p \in Passwords, NEW remember \in BOOLEAN,
           Login(u, p, remember), NEW n, n = minted + 1
    PROVE  /\ n \in Pairs /\ minted' = n
           /\ session'[n].status = "active" /\ session'[n].token = n
           /\ session'[n].user = u /\ session'[n].epoch = epoch[u]
           /\ \A t \in Pairs : t # n => session'[t] = session[t]
           /\ refresh'[n].session = n /\ ~refresh'[n].used /\ ~refresh'[n].revoked
           /\ \A m \in Pairs : m # n => refresh'[m] = refresh[m]
           /\ UNCHANGED epoch
  BY DEF Login, NewRefresh, AuthTypeOK

\* The effect of a revocation, field by field.
LEMMA RevocationEffect ==
    ASSUME AuthTypeOK, NEW sessions, RevokeAll(sessions)
    PROVE  /\ \A s \in Pairs :
                 /\ session'[s].token = session[s].token
                 /\ session'[s].user = session[s].user
                 /\ session'[s].epoch = session[s].epoch
                 /\ s \in sessions => session'[s].status = "revoked"
                 /\ s \notin sessions => session'[s] = session[s]
           /\ \A n \in Pairs :
                 /\ refresh'[n].session = refresh[n].session
                 /\ refresh'[n].used = refresh[n].used
                 /\ n <= minted /\ refresh[n].session \in sessions => refresh'[n].revoked
                 /\ ~(n <= minted /\ refresh[n].session \in sessions) => refresh'[n] = refresh[n]
<1>1. ASSUME NEW s \in Pairs
      PROVE  /\ session'[s].token = session[s].token
             /\ session'[s].user = session[s].user
             /\ session'[s].epoch = session[s].epoch
             /\ s \in sessions => session'[s].status = "revoked"
             /\ s \notin sessions => session'[s] = session[s]
  <2>1. session[s] \in SessionRecords
    BY DEF AuthTypeOK
  <2> QED
    BY <2>1 DEF RevokeAll, SessionRecords
<1>2. ASSUME NEW n \in Pairs
      PROVE  /\ refresh'[n].session = refresh[n].session
             /\ refresh'[n].used = refresh[n].used
             /\ n <= minted /\ refresh[n].session \in sessions => refresh'[n].revoked
             /\ ~(n <= minted /\ refresh[n].session \in sessions) => refresh'[n] = refresh[n]
  <2>1. refresh[n] \in RefreshRecords
    BY DEF AuthTypeOK
  <2> QED
    BY <2>1 DEF RevokeAll, RefreshRecords
<1> QED
  BY <1>1, <1>2

\* What a session that is found to have expired keeps.
LEMMA ExpiryEffect ==
    ASSUME AuthTypeOK, NEW n \in Pairs, ValidateFindsExpired(n), NEW s, s = refresh[n].session
    PROVE  /\ s \in Pairs
           /\ session[s].status = "active" /\ session'[s].status = "expired"
           /\ session'[s].token = session[s].token
           /\ \A t \in Pairs : t # s => session'[t] = session[t]
           /\ UNCHANGED <<epoch, minted, refresh>>
<1>1. s \in Pairs
  BY DEF AuthTypeOK, RefreshRecords
<1>2. session[s] \in SessionRecords
  BY <1>1 DEF AuthTypeOK
<1> QED
  BY <1>1, <1>2 DEF ValidateFindsExpired, RunOut, AuthTypeOK, SessionRecords

--------------------------------------------------------------------------------
(* What the steps do to sessions and tokens                                    *)

\* All that a step can do to sessions and tokens.
LEMMA Kinds ==
    ASSUME AuthTypeOK, [AuthNext]_authVars
    PROVE  \/ \E u \in Accounts, p \in Passwords, remember \in BOOLEAN : Login(u, p, remember)
           \/ \E n \in Pairs : ValidateFindsExpired(n)
           \/ \E n \in Pairs : Refresh(n)
           \/ \E s \in Pairs :
                 session[s].status # "none" /\ RevokeAll({s}) /\ UNCHANGED <<minted, epoch>>
           \/ \E u \in Accounts, p \in Passwords : NewCredential(u, p) /\ UNCHANGED minted
           \/ UNCHANGED <<minted, epoch, session, refresh>>
<1>1. CASE \E n \in Pairs : Logout(n)
  BY <1>1 DEF Logout
<1>2. CASE \E u \in Accounts, current, new \in Passwords : ChangePassword(u, current, new)
  BY <1>2 DEF ChangePassword
<1>3. CASE \E r \in DOMAIN recovery, new \in Passwords : ResetPassword(r, new)
  <2>1. PICK r \in DOMAIN recovery, new \in Passwords : ResetPassword(r, new)
    BY <1>3
  <2>2. recovery[r] \in RecoveryRecords
    BY ElementOfSeq DEF AuthTypeOK
  <2> QED
    BY <2>1, <2>2 DEF ResetPassword, Consume, RecoveryRecords
<1>4. CASE \E r \in DOMAIN recovery, new \in Passwords : ResetRefused(r, new)
  BY <1>4 DEF ResetRefused, Consume
<1>5. CASE \/ \E u \in Accounts : InitiateRecovery(u)
           \/ TimePasses
           \/ UNCHANGED authVars
  BY <1>5 DEF InitiateRecovery, TimePasses, authVars
<1> QED
  BY <1>1, <1>2, <1>3, <1>4, <1>5 DEF AuthNext

\* Tokens and sessions stay linked.
LEMMA LinkedStep ==
    ASSUME AuthAssumption, AuthBooks, [AuthNext]_authVars
    PROVE  Linked'
<1> USE DEF AuthBooks
<1>0. minted \in 0..MaxPairs /\ MaxPairs \in Nat
  BY DEF AuthTypeOK, AuthAssumption
<1>1. ASSUME NEW u \in Accounts, NEW p \in Passwords, NEW remember \in BOOLEAN,
             Login(u, p, remember)
      PROVE  Linked'
  <2> DEFINE n == minted + 1
  <2>1. /\ n \in Pairs /\ minted' = n
        /\ session'[n].status = "active" /\ session'[n].token = n
        /\ \A t \in Pairs : t # n => session'[t] = session[t]
        /\ refresh'[n].session = n
        /\ \A m \in Pairs : m # n => refresh'[m] = refresh[m]
    BY <1>1, LoginEffect
  <2> QED
    BY <1>0, <2>1 DEF Linked, Pairs
<1>2. ASSUME NEW n \in Pairs, ValidateFindsExpired(n) PROVE Linked'
  BY <1>2, ExpiryEffect DEF Linked
<1>3. ASSUME NEW n \in Pairs, Refresh(n) PROVE Linked'
  <2> DEFINE s   == refresh[n].session
             new == minted + 1
  <2>1. /\ s \in Pairs /\ new \in Pairs /\ minted' = new
        /\ session[s].status = "active" /\ n \in 1..minted
        /\ session'[s].token = new
        /\ \A t \in Pairs : t # s => session'[t] = session[t]
        /\ refresh'[new].session = s /\ refresh'[n].session = s
        /\ \A m \in Pairs : m # n /\ m # new => refresh'[m] = refresh[m]
    BY <1>3, RefreshEffect
  <2>2. \A m \in 1..minted : m \in Pairs /\ m # new /\ refresh'[m].session = refresh[m].session
    BY <1>0, <2>1 DEF Pairs
  <2>3. s \in 1..minted
    BY <2>1 DEF Linked
  <2>4. \A m \in 1..minted' : refresh'[m].session \in 1..minted'
    BY <1>0, <2>1, <2>2, <2>3 DEF Linked
  <2>5. ASSUME NEW t \in Pairs, session'[t].status # "none"
        PROVE  /\ t \in 1..minted'
               /\ session'[t].token \in 1..minted'
               /\ refresh'[session'[t].token].session = t
    <3>1. CASE t = s
      BY <1>0, <2>1, <2>3, <3>1
    <3>2. CASE t # s
      BY <1>0, <2>1, <2>2, <2>5, <3>2 DEF Linked
    <3> QED
      BY <3>1, <3>2
  <2> QED
    BY <2>4, <2>5 DEF Linked
<1>4. ASSUME NEW sessions, RevokeAll(sessions), UNCHANGED minted,
             \A s \in sessions : s \in Pairs => session[s].status # "none"
      PROVE  Linked'
  <2>1. \A m \in 1..minted : m \in Pairs
    BY <1>0 DEF Pairs
  <2> QED
    BY <1>4, <2>1, RevocationEffect DEF Linked
<1>5. ASSUME NEW u \in Accounts, NEW p \in Passwords, NewCredential(u, p), UNCHANGED minted
      PROVE  Linked'
  BY <1>4, <1>5 DEF NewCredential, ActiveOf
<1>6. CASE UNCHANGED <<minted, epoch, session, refresh>>
  BY <1>6 DEF Linked
<1>7. ASSUME NEW s \in Pairs, session[s].status # "none", RevokeAll({s}), UNCHANGED minted
      PROVE  Linked'
  BY <1>4, <1>7
<1> QED
  BY <1>1, <1>2, <1>3, <1>5, <1>6, <1>7, Kinds

--------------------------------------------------------------------------------
(* One refresh token for each session                                          *)

\* The refresh token n prolongs s.
Prolongs(n, s) == refresh[n].session = s /\ ~refresh[n].used /\ ~refresh[n].revoked

\* OneWayIn, token by token.
OneByOne ==
    \A s \in Pairs : \A n \in 1..minted :
        /\ session[s].status = "active" => (Prolongs(n, s) <=> n = session[s].token)
        /\ session[s].status = "revoked" => ~Prolongs(n, s)

\* Every step keeps to one token for each session.
LEMMA OneByOneStep ==
    ASSUME AuthAssumption, AuthBooks, OneByOne, [AuthNext]_authVars
    PROVE  OneByOne'
<1> USE DEF AuthBooks, Prolongs
<1>0. minted \in 0..MaxPairs /\ MaxPairs \in Nat /\ \A m \in 1..minted : m \in Pairs
  BY DEF AuthTypeOK, AuthAssumption, Pairs
<1>1. ASSUME NEW u \in Accounts, NEW p \in Passwords, NEW remember \in BOOLEAN,
             Login(u, p, remember)
      PROVE  OneByOne'
  <2> DEFINE new == minted + 1
  <2>1. /\ new \in Pairs /\ minted' = new
        /\ session'[new].status = "active" /\ session'[new].token = new
        /\ \A t \in Pairs : t # new => session'[t] = session[t]
        /\ refresh'[new].session = new /\ ~refresh'[new].used /\ ~refresh'[new].revoked
        /\ \A m \in Pairs : m # new => refresh'[m] = refresh[m]
    BY <1>1, LoginEffect
  <2>2. \A m \in 1..minted : m # new /\ refresh'[m] = refresh[m] /\ refresh[m].session # new
    BY <1>0, <2>1 DEF Linked
  <2>3. \A m \in 1..minted' : m \in 1..minted \/ m = new
    BY <1>0, <2>1
  <2>4. ASSUME NEW t \in Pairs, NEW m \in 1..minted'
        PROVE  /\ session'[t].status = "active" => (Prolongs(m, t)' <=> m = session'[t].token)
               /\ session'[t].status = "revoked" => ~Prolongs(m, t)'
    <3>1. CASE t = new
      BY <2>1, <2>2, <2>3, <3>1
    <3>2. CASE t # new /\ m = new
      <4>1. session[t].status # "none" => session[t].token # new
        BY <1>0 DEF Linked
      <4> QED
        BY <2>1, <3>2, <4>1
    <3>3. CASE t # new /\ m # new
      BY <2>1, <2>2, <2>3, <3>3 DEF OneByOne
    <3> QED
      BY <3>1, <3>2, <3>3
  <2> QED
    BY <2>4 DEF OneByOne
<1>2. ASSUME NEW n \in Pairs, ValidateFindsExpired(n) PROVE OneByOne'
  <2> DEFINE s == refresh[n].session
  <2>1. /\ s \in Pairs
        /\ session'[s].status = "expired"
        /\ \A t \in Pairs : t # s => session'[t] = session[t]
        /\ UNCHANGED <<minted, refresh>>
    BY <1>2, ExpiryEffect
  <2> QED
    BY <2>1 DEF OneByOne
<1>3. ASSUME NEW n \in Pairs, Refresh(n) PROVE OneByOne'
  <2>0. PICK s, new : s = refresh[n].session /\ new = minted + 1
    OBVIOUS
  <2>1. /\ s \in Pairs /\ new \in Pairs /\ minted' = new
        /\ session[s].status = "active"
        /\ n \in 1..minted /\ Prolongs(n, s)
        /\ session'[s].status = "active" /\ session'[s].token = new
        /\ \A t \in Pairs : t # s => session'[t] = session[t]
        /\ Prolongs(new, s)'
        /\ refresh'[n].session = s /\ refresh'[n].used
        /\ \A m \in Pairs : m # n /\ m # new => refresh'[m] = refresh[m]
    BY <1>3, <2>0, RefreshEffect
  <2>2. session[s].token = n
    BY <2>1 DEF OneByOne
  <2>3. \A m \in 1..minted' : m \in Pairs /\ (m \in 1..minted \/ m = new)
    BY <1>0, <2>0, <2>1
  <2>4. ASSUME NEW m \in 1..minted' PROVE Prolongs(m, s)' <=> m = new
    <3>1. CASE m = new
      BY <2>1, <3>1
    <3>2. CASE m = n
      BY <1>0, <2>0, <2>1, <3>2
    <3>3. CASE m # n /\ m # new
      BY <2>1, <2>2, <2>3, <3>3 DEF OneByOne
    <3> QED
      BY <3>1, <3>2, <3>3
  <2>5. ASSUME NEW t \in Pairs, t # s, NEW m \in 1..minted'
        PROVE  /\ session'[t].status = "active" => (Prolongs(m, t)' <=> m = session'[t].token)
               /\ session'[t].status = "revoked" => ~Prolongs(m, t)'
    <3>0. session[t].status # "none" => session[t].token \in 1..minted /\ session[t].token # n
      BY <2>1, <2>5 DEF Linked
    <3>1. CASE m = new \/ m = n
      <4>1. refresh'[m].session = s
        BY <2>1, <3>1
      <4>2. session[t].status # "none" => m # session[t].token
        BY <1>0, <2>0, <3>0, <3>1
      <4> QED
        BY <2>1, <2>5, <4>1, <4>2
    <3>2. CASE m # new /\ m # n
      BY <2>1, <2>3, <2>5, <3>2 DEF OneByOne
    <3> QED
      BY <3>1, <3>2
  <2> QED
    BY <2>1, <2>4, <2>5 DEF OneByOne
<1>4. ASSUME NEW sessions, RevokeAll(sessions), UNCHANGED minted PROVE OneByOne'
  <2>0. /\ \A t \in Pairs :
             /\ t \in sessions => session'[t].status = "revoked"
             /\ t \notin sessions => session'[t] = session[t]
        /\ \A m \in Pairs :
             /\ refresh'[m].session = refresh[m].session
             /\ m <= minted /\ refresh[m].session \in sessions => refresh'[m].revoked
             /\ ~(m <= minted /\ refresh[m].session \in sessions) => refresh'[m] = refresh[m]
    <3> HIDE DEF Prolongs
    <3> QED
      BY <1>4, RevocationEffect
  <2>1. ASSUME NEW t \in Pairs, NEW m \in 1..minted
        PROVE  /\ session'[t].status = "active" => (Prolongs(m, t)' <=> m = session'[t].token)
               /\ session'[t].status = "revoked" => ~Prolongs(m, t)'
    <3>0. m \in Pairs /\ m <= minted
      BY <1>0
    <3>1. CASE t \in sessions
      <4>1. session'[t].status = "revoked"
        BY <2>0, <3>1
      <4>2. refresh'[m].session = t => refresh'[m].revoked
        BY <2>0, <3>0, <3>1
      <4> QED
        BY <4>1, <4>2
    <3>2. CASE t \notin sessions
      <4>1. session'[t] = session[t]
        BY <2>0, <3>2
      <4>2. refresh'[m].session = refresh[m].session
        BY <2>0, <3>0
      <4>3. refresh[m].session = t => refresh'[m] = refresh[m]
        BY <2>0, <3>0, <3>2
      <4>4. Prolongs(m, t)' <=> Prolongs(m, t)
        BY <4>2, <4>3
      <4> QED
        BY <4>1, <4>4 DEF OneByOne
    <3> QED
      BY <3>1, <3>2
  <2> QED
    BY <1>4, <2>1 DEF OneByOne
<1>5. ASSUME NEW u \in Accounts, NEW p \in Passwords, NewCredential(u, p), UNCHANGED minted
      PROVE  OneByOne'
  BY <1>4, <1>5 DEF NewCredential
<1>6. CASE UNCHANGED <<minted, epoch, session, refresh>>
  BY <1>6 DEF OneByOne
<1> QED
  BY <1>1, <1>2, <1>3, <1>4, <1>5, <1>6, Kinds

--------------------------------------------------------------------------------
(* Passwords, and what has ended                                               *)

\* Every step leaves the active sessions with their user's current password.
LEMMA PasswordStep ==
    ASSUME AuthAssumption, AuthBooks, NoneOutlivesItsPassword, [AuthNext]_authVars
    PROVE  NoneOutlivesItsPassword'
<1> USE DEF AuthBooks
<1>1. ASSUME NEW u \in Accounts, NEW p \in Passwords, NEW remember \in BOOLEAN,
             Login(u, p, remember)
      PROVE  NoneOutlivesItsPassword'
  BY <1>1, LoginEffect DEF NoneOutlivesItsPassword
<1>2. ASSUME NEW n \in Pairs, ValidateFindsExpired(n) PROVE NoneOutlivesItsPassword'
  BY <1>2, ExpiryEffect DEF NoneOutlivesItsPassword
<1>3. ASSUME NEW n \in Pairs, Refresh(n) PROVE NoneOutlivesItsPassword'
  BY <1>3, RefreshEffect DEF NoneOutlivesItsPassword
<1>4. ASSUME NEW s \in Pairs, RevokeAll({s}), UNCHANGED epoch PROVE NoneOutlivesItsPassword'
  BY <1>4, RevocationEffect DEF NoneOutlivesItsPassword
<1>5. ASSUME NEW u \in Accounts, NEW p \in Passwords, NewCredential(u, p)
      PROVE  NoneOutlivesItsPassword'
  <2>1. /\ RevokeAll(ActiveOf(u))
        /\ epoch' = [epoch EXCEPT ![u] = @ + 1]
    BY <1>5 DEF NewCredential
  <2>2. ASSUME NEW s \in Pairs, session'[s].status = "active"
        PROVE  session'[s].epoch = epoch'[session'[s].user]
    <3>1. s \notin ActiveOf(u) /\ session'[s] = session[s]
      BY <2>1, <2>2, RevocationEffect
    <3>2. session[s].user # u
      BY <2>2, <3>1 DEF ActiveOf
    <3>3. epoch'[session[s].user] = epoch[session[s].user]
      BY <2>1, <3>2 DEF AuthTypeOK
    <3> QED
      BY <2>2, <3>1, <3>3 DEF NoneOutlivesItsPassword
  <2> QED
    BY <2>2 DEF NoneOutlivesItsPassword
<1>6. CASE UNCHANGED <<minted, epoch, session, refresh>>
  BY <1>6 DEF NoneOutlivesItsPassword
<1> QED
  BY <1>1, <1>2, <1>3, <1>4, <1>5, <1>6, Kinds

\* No step brings back a session that has ended.
LEMMA EndStep ==
    ASSUME AuthAssumption, AuthBooks, [AuthNext]_authVars, NEW s \in Pairs
    PROVE  /\ session[s].status \in {"expired", "revoked"} => session'[s].status # "active"
           /\ session[s].status = "revoked" => session'[s].status = "revoked"
<1> USE DEF AuthBooks
<1>1. ASSUME NEW u \in Accounts, NEW p \in Passwords, NEW remember \in BOOLEAN,
             Login(u, p, remember), session[s].status # "none"
      PROVE  session'[s] = session[s]
  <2>1. s \in 1..minted /\ minted \in Nat
    BY <1>1 DEF Linked, AuthTypeOK
  <2>2. s # minted + 1
    BY <2>1
  <2> QED
    BY <1>1, <2>2, LoginEffect
<1>2. ASSUME NEW n \in Pairs, ValidateFindsExpired(n), session[s].status # "active"
      PROVE  session'[s] = session[s]
  BY <1>2, ExpiryEffect
<1>3. ASSUME NEW n \in Pairs, Refresh(n), session[s].status # "active"
      PROVE  session'[s] = session[s]
  BY <1>3, RefreshEffect
<1>4. ASSUME NEW sessions, RevokeAll(sessions)
      PROVE  session'[s] = session[s] \/ session'[s].status = "revoked"
  BY <1>4, RevocationEffect
<1> QED
  BY <1>1, <1>2, <1>3, <1>4, Kinds DEF NewCredential

--------------------------------------------------------------------------------
(* The theorems                                                                *)

\* The types and the books hold throughout.
LEMMA BooksHold == ASSUME AuthAssumption PROVE AuthSpec => []AuthBooks
<1>1. AuthInit => AuthBooks
  <2> SUFFICES ASSUME AuthInit PROVE AuthBooks
    OBVIOUS
  <2>1. <<FirstPassword>> \in Seq(Passwords) /\ <<>> \in Seq(RecoveryRecords)
    BY DEF AuthAssumption
  <2>2. AuthTypeOK
    BY <2>1 DEF AuthInit, AuthTypeOK, AuthAssumption, Pairs, SessionRecords, RefreshRecords
  <2>3. Linked
    BY DEF AuthInit, Linked
  <2> QED
    BY <2>2, <2>3 DEF AuthBooks
<1>2. AuthBooks /\ [AuthNext]_authVars => AuthBooks'
  BY TypeStep, LinkedStep DEF AuthBooks
<1> QED
  BY <1>1, <1>2, PTL DEF AuthSpec

\* The types hold for any number of users, tokens and passwords.
THEOREM TypeCorrect == ASSUME AuthAssumption PROVE AuthSpec => []AuthTypeOK
<1>1. AuthBooks => AuthTypeOK
  BY DEF AuthBooks
<1> QED
  BY <1>1, BooksHold, PTL

\* One refresh token prolongs an active session, none a revoked one, for any
\* number of users and tokens and all lifetimes.
THEOREM OneTokenEach == ASSUME AuthAssumption PROVE AuthSpec => []OneWayIn
<1>1. AuthInit => OneByOne
  BY DEF AuthInit, OneByOne
<1>2. AuthBooks /\ OneByOne /\ [AuthNext]_authVars => OneByOne'
  BY OneByOneStep
<1>3. AuthBooks /\ OneByOne => OneWayIn
  <2> SUFFICES ASSUME AuthBooks, OneByOne, NEW s \in Pairs
               PROVE  /\ session[s].status = "active" => LiveTokens(s) = {session[s].token}
                      /\ session[s].status = "revoked" => LiveTokens(s) = {}
    BY DEF OneWayIn
  <2>1. session[s].status = "active" => session[s].token \in 1..minted
    BY DEF AuthBooks, Linked
  <2> QED
    BY <2>1 DEF OneByOne, LiveTokens, Prolongs
<1> QED
  BY <1>1, <1>2, <1>3, BooksHold, PTL DEF AuthSpec

\* No active session is older than its user's password, for any number of users
\* and through any changes and resets.
THEOREM PasswordsEndSessions == ASSUME AuthAssumption PROVE AuthSpec => []NoneOutlivesItsPassword
<1>1. AuthInit => NoneOutlivesItsPassword
  BY DEF AuthInit, NoneOutlivesItsPassword
<1>2. AuthBooks /\ NoneOutlivesItsPassword /\ [AuthNext]_authVars => NoneOutlivesItsPassword'
  BY PasswordStep
<1> QED
  BY <1>1, <1>2, BooksHold, PTL DEF AuthSpec

\* No refresh, login or late validation brings back a session that was revoked
\* or found to have expired.
THEOREM EndsAreFinal == ASSUME AuthAssumption PROVE AuthSpec => EndedForGood
<1>1. AuthBooks /\ [AuthNext]_authVars =>
        [\A s \in Pairs :
           /\ session[s].status \in {"expired", "revoked"} => session'[s].status # "active"
           /\ session[s].status = "revoked" => session'[s].status = "revoked"]_authVars
  BY EndStep
<1> QED
  BY <1>1, BooksHold, PTL DEF AuthSpec, EndedForGood

================================================================================
