--------------------------- MODULE AccountsProofs ---------------------------
(***************************************************************************)
(* Proofs about Accounts for every set of accounts, passwords, invites and *)
(* requests and any number of sessions.                                    *)
(***************************************************************************)
EXTENDS AccountPages, TLAPS

-----------------------------------------------------------------------------
(* Tables.                                                                 *)

\* A table is a function and nothing else.
IsTable(t) == t = [k \in DOMAIN t |-> t[k]]

-----------------------------------------------------------------------------
(* The invariant.                                                          *)

AccountRow == [password: Passwords, temporary: BOOLEAN, admin: BOOLEAN]

AccountsOK ==
    /\ First \in DOMAIN accounts /\ DOMAIN accounts \subseteq Users
    /\ accounts \in [DOMAIN accounts -> AccountRow]

SessionRow(users) == [user: users, expired: BOOLEAN, opened: Passwords \cup {NoPassword}]

SessionsOK ==
    /\ issued \in Nat /\ issued <= MaxSessions
    /\ DOMAIN sessions \subseteq 1..issued
    /\ sessions \in [DOMAIN sessions -> SessionRow(DOMAIN accounts)]

\* An invite is used by an account there is, so never by one to come.
InvitesOK ==
    /\ DOMAIN invites \subseteq Invites
    /\ invites \in [DOMAIN invites ->
                       [by: DOMAIN accounts \cup {Nobody}, expired: BOOLEAN]]

\* A request that is about to store a password, or to open a session, has one.
RequestOK(q, users) ==
    /\ q \in RequestState
    /\ q # Idle =>
          /\ q.user \in users
          /\ q.op # "reset" /\ q.at \in {"checked", "changed", "signed out"}
                => q.password \in Passwords

RequestsOK ==
    /\ requests \in [Requests -> RequestState]
    /\ \A r \in Requests : RequestOK(requests[r], DOMAIN accounts)

\* Why a session may be open under a password that is no longer its account's.
Fading(s) ==
    \/ s.opened = accounts[s.user].password
    \/ s.opened = NoPassword
    \/ s.user \in cut
    \/ BeingChanged(s.user)

Inv ==
    /\ AccountsOK /\ SessionsOK /\ InvitesOK /\ RequestsOK
    /\ cut \subseteq DOMAIN accounts
    /\ InvitesAreSpentOnce
    /\ \A t \in DOMAIN sessions : Fading(sessions[t])

LEMMA InvInit == Init => Inv
<1> SUFFICES ASSUME Init
             PROVE  Inv
  OBVIOUS
<1>1. PICK p \in Passwords :
         accounts = [u \in {First} |-> [password |-> p, temporary |-> FALSE, admin |-> TRUE]]
  BY DEF Init
<1>2. DOMAIN accounts = {First} /\ AccountsOK
  BY <1>1, UsersAssumption DEF AccountsOK, AccountRow
<1>3. DOMAIN sessions = {} /\ SessionsOK
  BY BoundsAssumption DEF Init, SessionsOK, EmptyTable
<1>4. DOMAIN invites = {} /\ InvitesOK
  BY DEF Init, InvitesOK, EmptyTable
<1>5. RequestsOK
  BY DEF Init, RequestsOK, RequestOK, RequestState
<1>6. InvitesAreSpentOnce
  BY <1>2, <1>4 DEF InvitesAreSpentOnce
<1> QED
  BY <1>2, <1>3, <1>4, <1>5, <1>6 DEF Inv, Init

-----------------------------------------------------------------------------
(* One conjunct at a time: what keeps it.                                  *)

\* Accounts are never deleted, and keep what is not written.
SameAccounts ==
    /\ DOMAIN accounts' = DOMAIN accounts
    /\ \A u \in DOMAIN accounts : accounts'[u].password = accounts[u].password

LEMMA RequestsKept ==
    ASSUME RequestsOK, NEW r \in Requests, NEW q, RequestOK(q, DOMAIN accounts'),
           requests' = [requests EXCEPT ![r] = q], DOMAIN accounts \subseteq DOMAIN accounts'
    PROVE  /\ RequestsOK'
           /\ requests'[r] = q
           /\ \A s \in Requests : s # r => requests'[s] = requests[s]
<1>1. q \in RequestState
  BY DEF RequestOK
<1>2. requests' \in [Requests -> RequestState]
  BY <1>1 DEF RequestsOK
<1>3. requests'[r] = q /\ \A s \in Requests : s # r => requests'[s] = requests[s]
  BY DEF RequestsOK
<1>4. ASSUME NEW s \in Requests
      PROVE  RequestOK(requests'[s], DOMAIN accounts')
  <2>1. CASE s = r
    BY <1>3, <2>1
  <2>2. CASE s # r
    BY <1>3, <2>2 DEF RequestsOK, RequestOK
  <2> QED
    BY <2>1, <2>2
<1> QED
  BY <1>2, <1>3, <1>4 DEF RequestsOK

\* Ending and going on keep a request what it is.
LEMMA EndsKeeps ==
    ASSUME RequestsOK, NEW r \in Requests, Ends(r), DOMAIN accounts \subseteq DOMAIN accounts'
    PROVE  /\ RequestsOK'
           /\ requests'[r] = Idle
           /\ \A s \in Requests : s # r => requests'[s] = requests[s]
<1>1. RequestOK(Idle, DOMAIN accounts')
  BY DEF RequestOK, RequestState
<1> QED
  BY <1>1, RequestsKept DEF Ends

LEMMA GoesOnKeeps ==
    ASSUME RequestsOK, NEW r \in Requests, ~Free(r), NEW at, GoesOn(r, at),
           at = "handle" \/ (at = "signed out" /\ requests[r].at = "changed"),
           DOMAIN accounts \subseteq DOMAIN accounts'
    PROVE  /\ RequestsOK'
           /\ requests'[r].at = at
           /\ \A s \in Requests : s # r => requests'[s] = requests[s]
<1> DEFINE q == [requests[r] EXCEPT !.at = at]
<1>1. requests[r] \in RequestState /\ requests[r] # Idle /\ RequestOK(requests[r], DOMAIN accounts)
  BY DEF RequestsOK, Free
<1>2. q \in RequestState /\ q # Idle /\ q.at = at /\ q.user = requests[r].user
      /\ q.op = requests[r].op /\ q.password = requests[r].password
  BY <1>1 DEF RequestState, Idle
<1>3. RequestOK(q, DOMAIN accounts')
  BY <1>1, <1>2 DEF RequestOK
<1>4. requests' = [requests EXCEPT ![r] = q]
  BY DEF GoesOn
<1> HIDE DEF q
<1> QED
  BY <1>2, <1>3, <1>4, RequestsKept

\* The one transaction that spends an invite, and the statements that do not.
LEMMA InvitesKept ==
    ASSUME InvitesOK, InvitesAreSpentOnce, UNCHANGED invites, DOMAIN accounts' = DOMAIN accounts
    PROVE  InvitesOK' /\ InvitesAreSpentOnce'
  BY DEF InvitesOK, InvitesAreSpentOnce

\* A request that has not changed a password explains nothing.
LEMMA ChangingKept ==
    ASSUME NEW r \in Requests, \A s \in Requests : s # r => requests'[s] = requests[s],
           Free(r) \/ requests[r].at # "changed", NEW u
    PROVE  BeingChanged(u) => BeingChanged(u)'
  BY DEF BeingChanged, Free

\* What a step does to sessions that are there already, and to their accounts.
SessionsKeepTheirAccount ==
    \A t \in DOMAIN sessions' :
        t \in DOMAIN sessions => /\ sessions'[t].user = sessions[t].user
                                 /\ sessions'[t].opened = sessions[t].opened

\* A step in which no password changes and no change is forgotten leaves every
\* session as well explained as it was.
LEMMA AllFadingKept ==
    ASSUME Inv, SessionsKeepTheirAccount,
           \A u \in DOMAIN accounts : accounts'[u].password = accounts[u].password,
           cut \subseteq cut',
           \A u : BeingChanged(u) => u \in cut' \/ BeingChanged(u)',
           \A t \in DOMAIN sessions' : t \notin DOMAIN sessions => Fading(sessions[t])'
    PROVE  \A t \in DOMAIN sessions' : Fading(sessions[t])'
<1> SUFFICES ASSUME NEW t \in DOMAIN sessions', t \in DOMAIN sessions
             PROVE  Fading(sessions[t])'
  OBVIOUS
<1>1. Fading(sessions[t]) /\ sessions[t].user \in DOMAIN accounts
  BY DEF Inv, SessionsOK, SessionRow
<1>2. /\ sessions'[t].user = sessions[t].user
      /\ sessions'[t].opened = sessions[t].opened
  BY DEF SessionsKeepTheirAccount
<1> QED
  BY <1>1, <1>2 DEF Fading

\* A step that only moves one request on, and changes no password.
LEMMA OnlyRequests ==
    ASSUME Inv, NEW r \in Requests, RequestsOK',
           \A s \in Requests : s # r => requests'[s] = requests[s],
           Free(r) \/ requests[r].at # "changed",
           UNCHANGED <<accounts, sessions, issued, invites, cut>>
    PROVE  Inv' /\ NoSessionReturns
<1>1. \A u : BeingChanged(u) => BeingChanged(u)'
  BY ChangingKept
<1>2. \A t \in DOMAIN sessions' : Fading(sessions[t])'
  BY <1>1, AllFadingKept DEF SessionsKeepTheirAccount
<1>3. AccountsOK' /\ SessionsOK' /\ InvitesOK' /\ cut' \subseteq DOMAIN accounts' /\ InvitesAreSpentOnce'
  BY DEF Inv, AccountsOK, SessionsOK, InvitesOK, InvitesAreSpentOnce
<1> QED
  BY <1>2, <1>3 DEF Inv, NoSessionReturns

\* A session that is opened is the next one, and says whether it came too late.
LEMMA CreateSessionKeeps ==
    ASSUME Inv, NEW u \in DOMAIN accounts, NEW password \in Passwords,
           CreateSession(u, password), UNCHANGED accounts
    PROVE  /\ SessionsOK'
           /\ SessionsKeepTheirAccount
           /\ \A t \in DOMAIN sessions' : t \notin DOMAIN sessions => Fading(sessions[t])'
           /\ NoSessionReturns
<1> DEFINE row == [user |-> u, expired |-> FALSE,
                   opened |-> IF password = accounts[u].password THEN password ELSE NoPassword]
<1>1. issued \in Nat /\ issued < MaxSessions /\ DOMAIN sessions \subseteq 1..issued
      /\ sessions \in [DOMAIN sessions -> SessionRow(DOMAIN accounts)]
  BY DEF Inv, SessionsOK, CreateSession
<1>2. issued' = issued + 1 /\ sessions' = Put(sessions, issued + 1, row)
  BY DEF CreateSession
<1>3. row \in SessionRow(DOMAIN accounts)
  BY DEF SessionRow
<1>4. row.user = u /\ row.opened \in {accounts[u].password, NoPassword}
  OBVIOUS
<1> HIDE DEF row
<1>5. /\ DOMAIN sessions' = DOMAIN sessions \cup {issued + 1}
      /\ sessions'[issued + 1] = row
      /\ \A t \in DOMAIN sessions : sessions'[t] = sessions[t]
      /\ IsTable(sessions')
  <2>1. issued + 1 \notin DOMAIN sessions
    BY <1>1
  <2> QED
    BY <1>2, <2>1 DEF Put, IsTable
<1>6. SessionsOK'
  <2>1. issued' \in Nat /\ issued' <= MaxSessions /\ DOMAIN sessions' \subseteq 1..issued'
    BY <1>1, <1>2, <1>5, BoundsAssumption
  <2>2. \A t \in DOMAIN sessions' : sessions'[t] \in SessionRow(DOMAIN accounts')
    BY <1>1, <1>3, <1>5
  <2> QED
    BY <1>5, <2>1, <2>2 DEF SessionsOK, IsTable
<1>7. ASSUME NEW t, t = issued + 1
      PROVE  Fading(sessions[t])'
  <2>1. sessions'[t] = row
    BY <1>5, <1>7
  <2>2. row.opened = accounts'[row.user].password \/ row.opened = NoPassword
    BY <1>4
  <2> QED
    BY <2>1, <2>2 DEF Fading
<1>8. NoSessionReturns
  BY <1>1, <1>5 DEF NoSessionReturns
<1> QED
  BY <1>2, <1>5, <1>6, <1>7, <1>8 DEF SessionsKeepTheirAccount

\* Deleting sessions keeps the others as they are.
LEMMA DropKeeps ==
    ASSUME Inv, NEW K, sessions' = Drop(sessions, K), UNCHANGED issued,
           DOMAIN accounts' = DOMAIN accounts
    PROVE  /\ SessionsOK'
           /\ DOMAIN sessions' = DOMAIN sessions \ K
           /\ SessionsKeepTheirAccount
           /\ NoSessionReturns
<1>1. /\ DOMAIN sessions' = DOMAIN sessions \ K
      /\ \A t \in DOMAIN sessions' : sessions'[t] = sessions[t]
      /\ IsTable(sessions')
  BY DEF Drop, Restrict, IsTable
<1> QED
  BY <1>1 DEF Inv, SessionsOK, SessionsKeepTheirAccount, NoSessionReturns, IsTable

-----------------------------------------------------------------------------
(* The steps.                                                              *)

Kept == Inv' /\ NoSessionReturns

\* What a request that is under way has in hand.
LEMMA InHand ==
    ASSUME Inv, NEW r \in Requests, ~Free(r)
    PROVE  /\ requests[r] \in RequestState /\ requests[r].user \in DOMAIN accounts
           /\ requests[r].op # "reset" /\ requests[r].at \in {"checked", "changed", "signed out"}
                 => requests[r].password \in Passwords
  BY DEF Inv, RequestsOK, RequestOK, Free

\* What a new request has in hand.
LEMMA WorkingTyped ==
    ASSUME NEW op \in {"sign in", "reset"} \cup Served,
           NEW at \in {"checked", "touch", "handle", "changed"},
           NEW u \in Users, NEW password \in Passwords \cup {NoPassword},
           op # "reset" /\ at \in {"checked", "changed"} => password \in Passwords,
           NEW token \in 0..MaxSessions, NEW users, u \in users
    PROVE  RequestOK([op |-> op, at |-> at, user |-> u, password |-> password,
                      token |-> token], users)
<1> DEFINE q == [op |-> op, at |-> at, user |-> u, password |-> password, token |-> token]
<1>1. q \in RequestState
  BY DEF RequestState
<1>2. q.op = op /\ q.user = u /\ q.at = at /\ q.password = password
  OBVIOUS
<1> HIDE DEF q
<1>3. RequestOK(q, users)
  BY <1>1, <1>2 DEF RequestOK
<1> QED
  BY <1>3 DEF q

LEMMA StepSignIn ==
    ASSUME Inv, NEW r \in Requests, NEW u \in Users, SignIn(r, u)
    PROVE  Kept
<1>1. u \in DOMAIN accounts /\ accounts[u].password \in Passwords
  BY DEF SignIn, Inv, AccountsOK, AccountRow
<1> DEFINE q == Working("sign in", "checked", u, accounts[u].password)
<1>2. RequestOK(q, DOMAIN accounts')
  <2>1. 0 \in 0..MaxSessions
    BY BoundsAssumption
  <2>2. u \in DOMAIN accounts'
    BY <1>1 DEF SignIn
  <2>3. q = [op |-> "sign in", at |-> "checked", user |-> u, password |-> accounts[u].password,
             token |-> 0]
    BY DEF Working
  <2> HIDE DEF q
  <2> QED
    BY <1>1, <2>1, <2>2, <2>3, WorkingTyped
<1>3. requests' = [requests EXCEPT ![r] = q] /\ Free(r)
  BY DEF SignIn
<1> HIDE DEF q
<1>4. RequestsOK' /\ \A s \in Requests : s # r => requests'[s] = requests[s]
  BY <1>2, <1>3, RequestsKept DEF SignIn, Inv
<1> QED
  BY <1>3, <1>4, OnlyRequests DEF SignIn, Kept

LEMMA StepAuthenticate ==
    ASSUME Inv, NEW r \in Requests, NEW t \in 1..issued, NEW op \in Served, Authenticate(r, t, op)
    PROVE  Kept
<1>1. PICK at \in Steps(op) : requests' = [requests EXCEPT ![r] =
         [Working(op, at, sessions[t].user, NoPassword) EXCEPT !.token = IF Needed(op, at) THEN t ELSE 0]]
  BY DEF Authenticate
<1> DEFINE token == IF Needed(op, at) THEN t ELSE 0
           q == [Working(op, at, sessions[t].user, NoPassword) EXCEPT !.token = token]
<1>2. RequestOK(q, DOMAIN accounts')
  <2>1. sessions[t].user \in DOMAIN accounts /\ sessions[t].user \in Users
    BY DEF Authenticate, Inv, SessionsOK, SessionRow, AccountsOK
  <2>2. token \in 0..MaxSessions /\ at \in {"touch", "handle"}
    BY BoundsAssumption DEF Inv, SessionsOK, Steps
  <2>3. sessions[t].user \in DOMAIN accounts'
    BY <2>1 DEF Authenticate
  <2>4. q = [op |-> op, at |-> at, user |-> sessions[t].user, password |-> NoPassword,
             token |-> token]
    BY DEF Working
  <2> HIDE DEF q, token
  <2> QED
    BY <2>1, <2>2, <2>3, <2>4, WorkingTyped
<1>3. requests' = [requests EXCEPT ![r] = q] /\ Free(r)
  BY <1>1 DEF Authenticate
<1> HIDE DEF q
<1>4. RequestsOK' /\ \A s \in Requests : s # r => requests'[s] = requests[s]
  BY <1>2, <1>3, RequestsKept DEF Authenticate, Inv
<1> QED
  BY <1>3, <1>4, OnlyRequests DEF Authenticate, Kept

LEMMA StepSignedIn ==
    ASSUME Inv, NEW r \in Requests, SignedIn(r) \/ SignBackIn(r)
    PROVE  Kept
<1>1. ~Free(r) /\ requests[r].op # "reset" /\ requests[r].at \in {"checked", "signed out"}
  BY DEF SignedIn, SignBackIn, At
<1>2. /\ CreateSession(requests[r].user, requests[r].password) /\ Ends(r)
      /\ UNCHANGED <<accounts, invites, cut>>
  BY DEF SignedIn, SignBackIn
<1>3. requests[r].user \in DOMAIN accounts /\ requests[r].password \in Passwords
  BY <1>1, InHand
<1>4. /\ SessionsOK' /\ SessionsKeepTheirAccount
      /\ \A t \in DOMAIN sessions' : t \notin DOMAIN sessions => Fading(sessions[t])'
      /\ NoSessionReturns
  BY <1>2, <1>3, CreateSessionKeeps
<1>5. RequestsOK' /\ \A s \in Requests : s # r => requests'[s] = requests[s]
  BY <1>2, EndsKeeps DEF Inv
<1>6. \A u : BeingChanged(u) => BeingChanged(u)'
  BY <1>1, <1>5, ChangingKept
<1>7. \A t \in DOMAIN sessions' : Fading(sessions[t])'
  BY <1>2, <1>4, <1>6, AllFadingKept
<1>8. AccountsOK' /\ InvitesOK' /\ cut' \subseteq DOMAIN accounts' /\ InvitesAreSpentOnce'
  BY <1>2 DEF Inv, AccountsOK, InvitesOK, InvitesAreSpentOnce
<1> QED
  BY <1>4, <1>5, <1>7, <1>8 DEF Inv, Kept

\* A new account, the end of its invite, and no session yet.
LEMMA StepRedeemInvite ==
    ASSUME Inv, NEW r \in Requests, NEW i \in Invites, NEW u \in Users, NEW p \in Passwords,
           RedeemInvite(r, i, u, p)
    PROVE  Kept
<1> DEFINE row == [password |-> p, temporary |-> FALSE, admin |-> FALSE]
           q == Working("sign in", "checked", u, p)
<1>1. /\ i \in DOMAIN invites /\ invites[i].by = Nobody /\ u \notin DOMAIN accounts
      /\ accounts' = Put(accounts, u, row)
      /\ invites' = [invites EXCEPT ![i].by = u]
      /\ Free(r) /\ requests' = [requests EXCEPT ![r] = q]
      /\ UNCHANGED <<sessions, issued, cut>>
  BY DEF RedeemInvite, Usable
<1>2. row \in AccountRow
  BY DEF AccountRow
<1> HIDE DEF row, q
<1>3. /\ DOMAIN accounts' = DOMAIN accounts \cup {u}
      /\ accounts'[u] = row
      /\ \A v \in DOMAIN accounts : accounts'[v] = accounts[v]
      /\ IsTable(accounts')
  BY <1>1 DEF Put, IsTable
<1>4. AccountsOK'
  BY <1>2, <1>3 DEF Inv, AccountsOK, IsTable
<1>5. /\ DOMAIN invites' = DOMAIN invites
      /\ invites'[i].by = u
      /\ \A j \in DOMAIN invites : j # i => invites'[j].by = invites[j].by
      /\ InvitesOK'
  BY <1>1, <1>3 DEF Inv, InvitesOK
<1>6. InvitesAreSpentOnce'
  <2>1. \A j \in DOMAIN invites : invites[j].by # u
    BY <1>1, UsersAssumption DEF Inv, InvitesOK
  <2>2. u # Nobody
    BY UsersAssumption
  <2>3. \A v \in DOMAIN accounts \ {First} : \E j \in DOMAIN invites : j # i /\ invites[j].by = v
    BY <1>1, UsersAssumption DEF Inv, InvitesAreSpentOnce, AccountsOK
  <2>4. \A v \in DOMAIN accounts' \ {First} : \E j \in DOMAIN invites' : invites'[j].by = v
    BY <1>1, <1>3, <1>5, <2>3
  <2>5. ASSUME NEW j \in DOMAIN invites', NEW k \in DOMAIN invites',
               invites'[j].by = invites'[k].by, invites'[j].by # Nobody
        PROVE  j = k
    BY <1>1, <1>5, <2>1, <2>5 DEF Inv, InvitesAreSpentOnce
  <2> QED
    BY <2>4, <2>5 DEF InvitesAreSpentOnce
<1>7. SessionsOK' /\ cut' \subseteq DOMAIN accounts' /\ SessionsKeepTheirAccount /\ NoSessionReturns
  BY <1>1, <1>3 DEF Inv, SessionsOK, SessionRow, SessionsKeepTheirAccount, NoSessionReturns
<1>8. RequestsOK' /\ \A s \in Requests : s # r => requests'[s] = requests[s]
  <2>1. 0 \in 0..MaxSessions /\ u \in DOMAIN accounts'
    BY <1>3, BoundsAssumption
  <2>2. q = [op |-> "sign in", at |-> "checked", user |-> u, password |-> p, token |-> 0]
    BY DEF Working, q
  <2>3. RequestOK(q, DOMAIN accounts')
    BY <2>1, <2>2, WorkingTyped
  <2> QED
    BY <1>1, <1>3, <2>3, RequestsKept DEF Inv
<1>9. \A v : BeingChanged(v) => BeingChanged(v)'
  BY <1>1, <1>8, ChangingKept
<1>10. \A t \in DOMAIN sessions' : Fading(sessions[t])'
  BY <1>1, <1>3, <1>7, <1>9, AllFadingKept
<1> QED
  BY <1>4, <1>5, <1>6, <1>7, <1>8, <1>10 DEF Inv, Kept

LEMMA StepRenew ==
    ASSUME Inv, NEW r \in Requests, Renew(r)
    PROVE  Kept
<1>1. /\ ~Free(r) /\ requests[r].at = "touch" /\ TouchSession(requests[r].token, requests[r].user)
      /\ \/ Ends(r) \/ GoesOn(r, "handle")
         \/ requests' = [requests EXCEPT ![r].at = "handle", ![r].token = 0]
      /\ UNCHANGED <<accounts, issued, invites, cut>>
  BY DEF Renew
<1>2. RequestsOK' /\ \A s \in Requests : s # r => requests'[s] = requests[s]
  <2>1. CASE Ends(r)
    BY <1>1, <2>1, EndsKeeps DEF Inv
  <2>2. CASE GoesOn(r, "handle")
    BY <1>1, <2>2, GoesOnKeeps DEF Inv
  <2>3. CASE requests' = [requests EXCEPT ![r].at = "handle", ![r].token = 0]
    <3> DEFINE q == [requests[r] EXCEPT !.at = "handle", !.token = 0]
    <3>1. requests[r] \in RequestState /\ requests[r] # Idle /\ requests[r].user \in DOMAIN accounts
      BY <1>1, InHand DEF Free
    <3>2. q \in RequestState /\ q.at = "handle" /\ q.user = requests[r].user
      <4>1. requests[r] \in [op: {"sign in", "reset"} \cup Served,
                              at: {"checked", "touch", "handle", "changed", "signed out"},
                              user: Users, password: Passwords \cup {NoPassword},
                              token: 0..MaxSessions]
        BY <3>1 DEF RequestState
      <4>2. 0 \in 0..MaxSessions
        BY BoundsAssumption
      <4> QED
        BY <4>1, <4>2 DEF RequestState
    <3>3. RequestOK(q, DOMAIN accounts')
      BY <1>1, <3>1, <3>2 DEF RequestOK
    <3>4. requests' = [requests EXCEPT ![r] = q]
      BY <2>3
    <3> HIDE DEF q
    <3> QED
      BY <1>1, <3>3, <3>4, RequestsKept DEF Inv
  <2> QED
    BY <1>1, <2>1, <2>2, <2>3
<1>3. /\ DOMAIN sessions' = DOMAIN sessions
      /\ SessionsOK' /\ SessionsKeepTheirAccount
  <2>1. /\ DOMAIN sessions' = DOMAIN sessions
        /\ \A t \in DOMAIN sessions : /\ sessions'[t].user = sessions[t].user
                                     /\ sessions'[t].opened = sessions[t].opened
    BY <1>1 DEF TouchSession, Inv, SessionsOK, SessionRow
  <2>2. sessions' \in [DOMAIN sessions -> SessionRow(DOMAIN accounts)]
    BY <1>1 DEF TouchSession, Inv, SessionsOK, SessionRow
  <2>3. SessionsOK'
    BY <1>1, <2>1, <2>2 DEF Inv, SessionsOK
  <2> QED
    BY <2>1, <2>3 DEF SessionsKeepTheirAccount
<1>4. \A v : BeingChanged(v) => BeingChanged(v)'
  BY <1>1, <1>2, ChangingKept
<1>5. \A t \in DOMAIN sessions' : Fading(sessions[t])'
  BY <1>1, <1>3, <1>4, AllFadingKept
<1>6. AccountsOK' /\ InvitesOK' /\ cut' \subseteq DOMAIN accounts' /\ InvitesAreSpentOnce'
  BY <1>1 DEF Inv, AccountsOK, InvitesOK, InvitesAreSpentOnce
<1> QED
  BY <1>2, <1>3, <1>5, <1>6 DEF Inv, Kept, NoSessionReturns

LEMMA StepLogOut ==
    ASSUME Inv, NEW r \in Requests, LogOut(r)
    PROVE  Kept
<1>1. /\ ~Free(r) /\ requests[r].at = "handle" /\ sessions' = Drop(sessions, {requests[r].token})
      /\ Ends(r) /\ UNCHANGED <<accounts, issued, invites, cut>>
  BY DEF LogOut, At
<1>2. RequestsOK' /\ \A s \in Requests : s # r => requests'[s] = requests[s]
  BY <1>1, EndsKeeps DEF Inv
<1>3. SessionsOK' /\ SessionsKeepTheirAccount /\ NoSessionReturns
      /\ DOMAIN sessions' \subseteq DOMAIN sessions
  BY <1>1, DropKeeps
<1>4. \A v : BeingChanged(v) => BeingChanged(v)'
  BY <1>1, <1>2, ChangingKept
<1>5. \A t \in DOMAIN sessions' : Fading(sessions[t])'
  BY <1>1, <1>3, <1>4, AllFadingKept
<1>6. AccountsOK' /\ InvitesOK' /\ cut' \subseteq DOMAIN accounts' /\ InvitesAreSpentOnce'
  BY <1>1 DEF Inv, AccountsOK, InvitesOK, InvitesAreSpentOnce
<1> QED
  BY <1>2, <1>3, <1>5, <1>6 DEF Inv, Kept

LEMMA StepSetAdmin ==
    ASSUME Inv, NEW r \in Requests, NEW u \in Users, NEW b \in BOOLEAN, SetAdmin(r, u, b)
    PROVE  Kept
<1>1. /\ ~Free(r) /\ requests[r].at = "handle" /\ u \in DOMAIN accounts
      /\ accounts' = [accounts EXCEPT ![u].admin = b]
      /\ Ends(r) /\ UNCHANGED <<sessions, issued, invites, cut>>
  BY DEF SetAdmin, At
<1>2. AccountsOK' /\ SameAccounts
  BY <1>1 DEF Inv, AccountsOK, AccountRow, SameAccounts
<1>3. RequestsOK' /\ \A s \in Requests : s # r => requests'[s] = requests[s]
  BY <1>1, <1>2, EndsKeeps DEF Inv, SameAccounts
<1>4. \A v : BeingChanged(v) => BeingChanged(v)'
  BY <1>1, <1>3, ChangingKept
<1>5. SessionsKeepTheirAccount
  BY <1>1 DEF SessionsKeepTheirAccount
<1>6. \A t \in DOMAIN sessions' : Fading(sessions[t])'
  BY <1>1, <1>2, <1>4, <1>5, AllFadingKept DEF SameAccounts
<1>7. SessionsOK' /\ InvitesOK' /\ cut' \subseteq DOMAIN accounts' /\ InvitesAreSpentOnce'
  BY <1>1, <1>2, InvitesKept DEF Inv, SessionsOK, SameAccounts
<1> QED
  BY <1>1, <1>2, <1>3, <1>6, <1>7 DEF Inv, Kept, NoSessionReturns

\* A step that moves one request on and touches the table of invites only.
LEMMA OnlyInvites ==
    ASSUME Inv, NEW r \in Requests, Ends(r), requests[r].at # "changed",
           InvitesOK', InvitesAreSpentOnce',
           UNCHANGED <<accounts, sessions, issued, cut>>
    PROVE  Kept
<1>1. RequestsOK' /\ \A s \in Requests : s # r => requests'[s] = requests[s]
  BY EndsKeeps DEF Inv
<1>2. \A v : BeingChanged(v) => BeingChanged(v)'
  BY <1>1, ChangingKept
<1>3. \A t \in DOMAIN sessions' : Fading(sessions[t])'
  BY <1>2, AllFadingKept DEF SessionsKeepTheirAccount
<1>4. AccountsOK' /\ SessionsOK' /\ cut' \subseteq DOMAIN accounts'
  BY DEF Inv, AccountsOK, SessionsOK
<1> QED
  BY <1>1, <1>3, <1>4 DEF Inv, Kept, NoSessionReturns

LEMMA StepCreateInvite ==
    ASSUME Inv, NEW r \in Requests, NEW i \in Invites, CreateInvite(r, i)
    PROVE  Kept
<1> DEFINE row == [by |-> Nobody, expired |-> FALSE]
<1>1. /\ i \notin DOMAIN invites /\ invites' = Put(invites, i, row)
      /\ requests[r].at = "handle" /\ Ends(r) /\ UNCHANGED <<accounts, sessions, issued, cut>>
  BY DEF CreateInvite, At
<1>2. row.by = Nobody /\ row \in [by: DOMAIN accounts \cup {Nobody}, expired: BOOLEAN]
  OBVIOUS
<1> HIDE DEF row
<1>3. /\ DOMAIN invites' = DOMAIN invites \cup {i}
      /\ invites'[i] = row
      /\ \A j \in DOMAIN invites : invites'[j] = invites[j]
      /\ IsTable(invites')
  BY <1>1 DEF Put, IsTable
<1>4. InvitesOK'
  BY <1>1, <1>2, <1>3 DEF Inv, InvitesOK, IsTable
<1>5. InvitesAreSpentOnce'
  BY <1>1, <1>2, <1>3 DEF Inv, InvitesAreSpentOnce
<1> QED
  BY <1>1, <1>4, <1>5, OnlyInvites

\* Only an invite nobody used is ever deleted.
LEMMA StepDeleteInvite ==
    ASSUME Inv, NEW r \in Requests, NEW i \in Invites, DeleteInvite(r, i)
    PROVE  Kept
<1> DEFINE K == {j \in {i} \cap DOMAIN invites : invites[j].by = Nobody}
<1>1. /\ invites' = Drop(invites, K) /\ requests[r].at = "handle" /\ Ends(r)
      /\ UNCHANGED <<accounts, sessions, issued, cut>>
  BY DEF DeleteInvite, At
<1>2. /\ DOMAIN invites' = DOMAIN invites \ K
      /\ \A j \in DOMAIN invites' : invites'[j] = invites[j]
      /\ IsTable(invites')
  BY <1>1 DEF Drop, Restrict, IsTable
<1>3. \A j \in K : invites[j].by = Nobody
  OBVIOUS
<1> HIDE DEF K
<1>4. InvitesOK'
  BY <1>1, <1>2 DEF Inv, InvitesOK, IsTable
<1>5. InvitesAreSpentOnce'
  <2>1. \A u \in DOMAIN accounts : u # Nobody
    BY UsersAssumption DEF Inv, AccountsOK
  <2>2. \A u \in DOMAIN accounts \ {First} : \E j \in DOMAIN invites' : invites'[j].by = u
    BY <1>2, <1>3, <2>1 DEF Inv, InvitesAreSpentOnce
  <2>3. \A j, k \in DOMAIN invites' :
           invites'[j].by = invites'[k].by /\ invites'[j].by # Nobody => j = k
    BY <1>2 DEF Inv, InvitesAreSpentOnce
  <2> QED
    BY <1>1, <2>2, <2>3 DEF InvitesAreSpentOnce
<1> QED
  BY <1>1, <1>4, <1>5, OnlyInvites

LEMMA StepInviteExpires ==
    ASSUME Inv, NEW i \in Invites, InviteExpires(i)
    PROVE  Kept
<1>1. /\ DOMAIN invites' = DOMAIN invites
      /\ \A j \in DOMAIN invites : invites'[j].by = invites[j].by
      /\ InvitesOK'
  BY DEF InviteExpires, Usable, Inv, InvitesOK
<1>2. InvitesAreSpentOnce'
  BY <1>1 DEF InviteExpires, Inv, InvitesAreSpentOnce
<1>3. \A v : BeingChanged(v) => BeingChanged(v)'
  BY DEF InviteExpires, BeingChanged, Free
<1>4. \A t \in DOMAIN sessions' : Fading(sessions[t])'
  BY <1>3, AllFadingKept DEF InviteExpires, SessionsKeepTheirAccount
<1>5. AccountsOK' /\ SessionsOK' /\ RequestsOK' /\ cut' \subseteq DOMAIN accounts'
  BY DEF InviteExpires, Inv, AccountsOK, SessionsOK, RequestsOK
<1> QED
  BY <1>1, <1>2, <1>4, <1>5 DEF Inv, Kept, NoSessionReturns, InviteExpires

\* A password that is stored has its request to explain what is still open.
LEMMA PasswordStored ==
    ASSUME Inv, NEW r \in Requests, NEW u \in DOMAIN accounts, NEW p \in Passwords,
           NEW b \in BOOLEAN, SetPassword(u, p, b),
           NEW q, RequestOK(q, DOMAIN accounts), q # Idle, q.at = "changed", q.user = u,
           requests' = [requests EXCEPT ![r] = q],
           Free(r) \/ requests[r].at # "changed",
           UNCHANGED <<sessions, issued, invites, cut>>
    PROVE  Kept
<1>1. /\ DOMAIN accounts' = DOMAIN accounts
      /\ AccountsOK'
      /\ \A v \in DOMAIN accounts : v # u => accounts'[v] = accounts[v]
  BY DEF SetPassword, Inv, AccountsOK, AccountRow
<1>2. /\ RequestsOK' /\ requests'[r] = q
      /\ \A s \in Requests : s # r => requests'[s] = requests[s]
  BY <1>1, RequestsKept DEF Inv
<1>3. \A v : BeingChanged(v) => BeingChanged(v)'
  BY <1>2, ChangingKept
<1>4. BeingChanged(u)'
  BY <1>2 DEF BeingChanged, Free
<1>5. ASSUME NEW t \in DOMAIN sessions'
      PROVE  Fading(sessions[t])'
  <2>1. Fading(sessions[t]) /\ sessions[t].user \in DOMAIN accounts
    BY <1>5 DEF Inv, SessionsOK, SessionRow
  <2>2. CASE sessions[t].user = u
    BY <1>4, <2>2 DEF Fading
  <2>3. CASE sessions[t].user # u
    BY <1>1, <1>3, <2>1, <2>3 DEF Fading
  <2> QED
    BY <2>2, <2>3
<1>6. SessionsOK' /\ InvitesOK' /\ cut' \subseteq DOMAIN accounts' /\ InvitesAreSpentOnce'
  BY <1>1, InvitesKept DEF Inv, SessionsOK
<1> QED
  BY <1>1, <1>2, <1>5, <1>6 DEF Inv, Kept, NoSessionReturns

LEMMA StepChangePassword ==
    ASSUME Inv, NEW r \in Requests, NEW p \in Passwords, ChangePassword(r, p)
    PROVE  Kept
<1> DEFINE q == [[requests[r] EXCEPT !.at = "changed"] EXCEPT !.password = p]
<1>1. /\ ~Free(r) /\ requests[r].at = "handle" /\ SetPassword(requests[r].user, p, FALSE)
      /\ requests' = [requests EXCEPT ![r].at = "changed", ![r].password = p]
      /\ UNCHANGED <<sessions, issued, invites, cut>>
  BY DEF ChangePassword, At
<1>2. requests[r] \in RequestState /\ requests[r] # Idle /\ requests[r].user \in DOMAIN accounts
  BY <1>1, InHand DEF Free
<1>3. /\ q \in RequestState /\ q # Idle /\ q.at = "changed" /\ q.user = requests[r].user
      /\ q.password = p
  BY <1>2 DEF RequestState, Idle
<1>4. RequestOK(q, DOMAIN accounts)
  BY <1>2, <1>3 DEF RequestOK
<1>5. requests' = [requests EXCEPT ![r] = q]
  BY <1>1 DEF Inv, RequestsOK
<1> HIDE DEF q
<1> QED
  BY <1>1, <1>2, <1>3, <1>4, <1>5, PasswordStored

LEMMA StepResetPassword ==
    ASSUME Inv, NEW r \in Requests, NEW u \in Users, NEW p \in Passwords, NEW b \in BOOLEAN,
           ResetPassword(r, u, p, b)
    PROVE  Kept
<1> DEFINE q == Working("reset", "changed", u, NoPassword)
<1>1. q = [op |-> "reset", at |-> "changed", user |-> u, password |-> NoPassword, token |-> 0]
  BY DEF Working
<1>2. /\ Free(r) /\ u \in DOMAIN accounts /\ SetPassword(u, p, b)
      /\ requests' = [requests EXCEPT ![r] = q]
      /\ UNCHANGED <<sessions, issued, invites, cut>>
  BY DEF ResetPassword
<1> HIDE DEF q
<1>3. RequestOK(q, DOMAIN accounts)
  <2>1. 0 \in 0..MaxSessions
    BY BoundsAssumption
  <2> QED
    BY <1>1, <1>2, <2>1, WorkingTyped
<1>4. q # Idle /\ q.at = "changed" /\ q.user = u
  BY <1>1 DEF Idle
<1> QED
  BY <1>2, <1>3, <1>4, PasswordStored

\* What ends the sessions of an account may forget that its password was changed.
LEMMA StepSignOutEverywhere ==
    ASSUME Inv, NEW r \in Requests, SignOutEverywhere(r)
    PROVE  Kept
<1> DEFINE u == requests[r].user
           K == {t \in DOMAIN sessions : sessions[t].user = u}
<1>1. /\ ~Free(r) /\ requests[r].at = "changed"
      /\ sessions' = Drop(sessions, K) /\ cut' = cut \ {u}
      /\ Ends(r) \/ GoesOn(r, "signed out")
      /\ UNCHANGED <<accounts, issued, invites>>
  BY DEF SignOutEverywhere, At, DeleteUserSessions
<1>2. RequestsOK' /\ \A s \in Requests : s # r => requests'[s] = requests[s]
  BY <1>1, EndsKeeps, GoesOnKeeps DEF Inv
<1>3. /\ SessionsOK' /\ SessionsKeepTheirAccount /\ NoSessionReturns
      /\ DOMAIN sessions' = DOMAIN sessions \ K
  BY <1>1, DropKeeps
<1>4. ASSUME NEW t \in DOMAIN sessions'
      PROVE  Fading(sessions[t])'
  <2>1. t \in DOMAIN sessions /\ sessions[t].user # u
    BY <1>3, <1>4
  <2>2. Fading(sessions[t])
    BY <2>1 DEF Inv
  <2>3. /\ sessions'[t].user = sessions[t].user /\ sessions'[t].opened = sessions[t].opened
    BY <1>4, <2>1, <1>3 DEF SessionsKeepTheirAccount
  <2>4. BeingChanged(sessions[t].user) =>
           \E s \in Requests : s # r /\ ~Free(s) /\ requests[s].at = "changed"
                                     /\ requests[s].user = sessions[t].user
    BY <2>1 DEF BeingChanged
  <2>5. BeingChanged(sessions[t].user) =>
           \E s \in Requests : requests'[s] # Idle /\ requests'[s].at = "changed"
                                     /\ requests'[s].user = sessions[t].user
    BY <1>2, <2>4 DEF Free
  <2> HIDE DEF u
  <2> QED
    BY <1>1, <2>1, <2>2, <2>3, <2>5 DEF Fading, BeingChanged, Free
<1>5. AccountsOK' /\ InvitesOK' /\ cut' \subseteq DOMAIN accounts' /\ InvitesAreSpentOnce'
  BY <1>1 DEF Inv, AccountsOK, InvitesOK, InvitesAreSpentOnce
<1> QED
  BY <1>2, <1>3, <1>4, <1>5 DEF Inv, Kept

\* A change that ends half-way is remembered.
LEMMA StepFail ==
    ASSUME Inv, NEW r \in Requests, Fail(r)
    PROVE  Kept
<1>1. /\ ~Free(r) /\ Ends(r) /\ UNCHANGED <<accounts, sessions, issued, invites>>
      /\ cut' = IF requests[r].at = "changed" THEN cut \cup {requests[r].user} ELSE cut
  BY DEF Fail
<1>2. RequestsOK' /\ \A s \in Requests : s # r => requests'[s] = requests[s]
  BY <1>1, EndsKeeps DEF Inv
<1>3. cut \subseteq cut' /\ cut' \subseteq DOMAIN accounts'
  BY <1>1, InHand DEF Inv
<1>4. ASSUME NEW v, BeingChanged(v)
      PROVE  v \in cut' \/ BeingChanged(v)'
  <2>1. PICK s \in Requests : ~Free(s) /\ requests[s].at = "changed" /\ requests[s].user = v
    BY <1>4 DEF BeingChanged
  <2>2. CASE s = r
    BY <1>1, <2>1, <2>2
  <2>3. CASE s # r
    BY <1>2, <2>1, <2>3 DEF BeingChanged, Free
  <2> QED
    BY <2>2, <2>3
<1>5. \A t \in DOMAIN sessions' : Fading(sessions[t])'
  BY <1>1, <1>3, <1>4, AllFadingKept DEF SessionsKeepTheirAccount
<1>6. AccountsOK' /\ SessionsOK' /\ InvitesOK' /\ InvitesAreSpentOnce'
  BY <1>1, InvitesKept DEF Inv, AccountsOK, SessionsOK
<1> QED
  BY <1>1, <1>2, <1>3, <1>5, <1>6 DEF Inv, Kept, NoSessionReturns

\* Time and the janitor.
LEMMA StepSessions ==
    ASSUME Inv, DeleteExpiredSessions \/ (\E t \in 1..issued : SessionExpires(t))
    PROVE  Kept
<1>1. UNCHANGED <<accounts, issued, invites, requests, cut>>
  BY DEF DeleteExpiredSessions, SessionExpires
<1>2. /\ SessionsOK' /\ SessionsKeepTheirAccount /\ NoSessionReturns
      /\ DOMAIN sessions' \subseteq DOMAIN sessions
  <2>1. CASE DeleteExpiredSessions
    BY <1>1, <2>1, DropKeeps DEF DeleteExpiredSessions
  <2>2. ASSUME NEW t \in 1..issued, SessionExpires(t)
        PROVE  /\ SessionsOK' /\ SessionsKeepTheirAccount /\ NoSessionReturns
               /\ DOMAIN sessions' \subseteq DOMAIN sessions
    <3>1. /\ t \in DOMAIN sessions /\ sessions' = [sessions EXCEPT ![t].expired = TRUE]
          /\ DOMAIN sessions \subseteq 1..issued
          /\ sessions \in [DOMAIN sessions -> SessionRow(DOMAIN accounts)]
      BY <2>2 DEF SessionExpires, Inv, SessionsOK
    <3>2. DOMAIN sessions' = DOMAIN sessions
      BY <3>1
    <3>3. sessions' \in [DOMAIN sessions -> SessionRow(DOMAIN accounts)]
      BY <3>1 DEF SessionRow
    <3>4. SessionsOK' /\ NoSessionReturns
      BY <1>1, <3>2, <3>3 DEF Inv, SessionsOK, NoSessionReturns
    <3>5. SessionsKeepTheirAccount
      BY <3>1 DEF SessionRow, SessionsKeepTheirAccount
    <3> QED
      BY <3>2, <3>4, <3>5
  <2> QED
    BY <2>1, <2>2
<1>3. \A v : BeingChanged(v) => BeingChanged(v)'
  BY <1>1 DEF BeingChanged, Free
<1>4. \A t \in DOMAIN sessions' : Fading(sessions[t])'
  BY <1>1, <1>2, <1>3, AllFadingKept
<1>5. AccountsOK' /\ InvitesOK' /\ RequestsOK' /\ cut' \subseteq DOMAIN accounts'
      /\ InvitesAreSpentOnce'
  BY <1>1 DEF Inv, AccountsOK, InvitesOK, RequestsOK, InvitesAreSpentOnce
<1> QED
  BY <1>2, <1>4, <1>5 DEF Inv, Kept

-----------------------------------------------------------------------------
(* Theorems.                                                               *)

LEMMA InvNext ==
    ASSUME Inv, [Next]_vars
    PROVE  Inv' /\ [NoSessionReturns]_vars
<1>1. ASSUME NEW r \in Requests, Anonymous(r)
      PROVE  Kept
  BY <1>1, StepSignIn, StepSignedIn, StepRedeemInvite DEF Anonymous
<1>2. ASSUME NEW r \in Requests, WithSession(r)
      PROVE  Kept
  BY <1>2, StepAuthenticate, StepRenew, StepLogOut, StepSetAdmin, StepCreateInvite,
     StepDeleteInvite, StepChangePassword, StepSignOutEverywhere, StepSignedIn DEF WithSession
<1>3. CASE Next
  BY <1>1, <1>2, <1>3, StepFail, StepResetPassword, StepSessions, StepInviteExpires, Zenon
     DEF Next, Kept
<1>4. CASE UNCHANGED vars
  <2>1. \A v : BeingChanged(v) => BeingChanged(v)'
    BY <1>4 DEF vars, BeingChanged, Free
  <2>2. \A t \in DOMAIN sessions' : Fading(sessions[t])'
    BY <1>4, <2>1, AllFadingKept DEF vars, SessionsKeepTheirAccount
  <2> QED
    BY <1>4, <2>2
       DEF vars, Inv, AccountsOK, SessionsOK, InvitesOK, RequestsOK, InvitesAreSpentOnce
<1> QED
  BY <1>3, <1>4 DEF Kept

\* The invariant holds in every state of every behaviour.
THEOREM InvHolds == Spec => []Inv
  BY InvInit, InvNext, PTL DEF Spec

\* Every row and request has its type and refers to rows that exist, for any
\* number of accounts, invites, sessions and requests under way.
THEOREM TypesHold == Spec => []TypeOK
<1>1. Inv => TypeOK
  <2> SUFFICES ASSUME Inv
               PROVE  TypeOK
    OBVIOUS
  <2>1. /\ First \in DOMAIN accounts /\ DOMAIN accounts \subseteq Users
        /\ accounts \in [DOMAIN accounts -> [password: Passwords, temporary: BOOLEAN, admin: BOOLEAN]]
    BY DEF Inv, AccountsOK, AccountRow
  <2>2. /\ issued \in 0..MaxSessions /\ DOMAIN sessions \subseteq 1..issued
        /\ sessions \in [DOMAIN sessions -> [user: DOMAIN accounts, expired: BOOLEAN,
                                             opened: Passwords \cup {NoPassword}]]
    BY BoundsAssumption DEF Inv, SessionsOK, SessionRow
  <2>3. /\ DOMAIN invites \subseteq Invites
        /\ invites \in [DOMAIN invites -> [by: Users \cup {Nobody}, expired: BOOLEAN]]
    BY <2>1 DEF Inv, InvitesOK
  <2>4. /\ requests \in [Requests -> RequestState]
        /\ \A r \in Requests : ~Free(r) => requests[r].user \in DOMAIN accounts
    BY DEF Inv, RequestsOK, RequestOK, Free
  <2> QED
    BY <2>1, <2>2, <2>3, <2>4 DEF TypeOK, Inv
<1> QED
  BY <1>1, InvHolds, PTL

\* Every account but the first has an invite of its own, whatever registrations
\* and revocations meet.
THEOREM InvitesSpentOnce == Spec => []InvitesAreSpentOnce
<1>1. Inv => InvitesAreSpentOnce
  BY DEF Inv
<1> QED
  BY <1>1, InvHolds, PTL

\* A session that has ended never comes back.
THEOREM SignedOutForGood == Spec => SignedOutStaysOut
  BY InvHolds, InvNext, PTL DEF Spec, SignedOutStaysOut

\* No session outlives a password change, but for a change cut off half-way and a
\* sign-in it overtook.
THEOREM PasswordsFade == Spec => []OldPasswordsFade
<1>1. Inv => OldPasswordsFade
  BY DEF Inv, Fading, OldPasswordsFade
<1> QED
  BY <1>1, InvHolds, PTL

-----------------------------------------------------------------------------
(* The pages about accounts.                                               *)

\* What a control that somebody reads can be.
Offered(u, c) ==
    \/ c.op = "section" /\ c.section \in c.of
    \/ \E p \in {"home", "claims", "account", "help"} : c = Link(p) /\ (u # Nobody \/ p = "help")
    \/ c = Link("admin") /\ IsAdmin(u)
    \/ c = Link("login") /\ u = Nobody
    \/ c = [op |-> "sign in"] /\ u = Nobody
    \/ \E i \in Invites : c = [op |-> "register", invite |-> i] /\ u = Nobody /\ Usable(i)
    \/ c.op \in {"log out", "theme", "profile"} /\ u # Nobody
    \/ c = [op |-> "password", current |-> ~Temporary(u)] /\ u # Nobody
    \/ /\ IsAdmin(u) /\ ~Temporary(u)
       /\ \/ c.op \in {"create invite", "person"}
          \/ \E i \in DOMAIN invites :
                c = [op |-> "revoke invite", invite |-> i] /\ invites[i].by = Nobody
          \/ \E v \in DOMAIN accounts :
                c = [op |-> "set admin", user |-> v, admin |-> ~accounts[v].admin]

LEMMA LayoutOffers ==
    ASSUME NEW u \in Readers, NEW content, \A c \in content : Offered(u, c)
    PROVE  \A c \in Layout(u, content) : Offered(u, c)
<1>1. ASSUME NEW c \in Topbar(u), u # Nobody PROVE Offered(u, c)
  <2>1. CASE c = [op |-> "log out"]
    BY <1>1, <2>1 DEF Offered
  <2>2. CASE c \in {Link(p) : p \in {"home", "claims", "account", "help"}}
    BY <1>1, <2>2 DEF Offered
  <2>3. CASE c = Link("admin") /\ IsAdmin(u)
    BY <2>3 DEF Offered
  <2> QED
    BY <2>1, <2>2, <2>3 DEF Topbar
<1> QED
  BY <1>1 DEF Layout

LEMMA HelpOffers ==
    ASSUME NEW u \in Readers, NEW fetch \in BOOLEAN
    PROVE  \A c \in Help(u, fetch) : Offered(u, c)
<1>1. HelpContents(u, fetch) \subseteq HelpSections(u, fetch)
  BY DEF HelpContents, HelpSections
<1> DEFINE sections == {[op |-> "section", section |-> s, of |-> HelpSections(u, fetch)] :
                           s \in HelpContents(u, fetch)}
<1>2. ASSUME NEW c \in sections PROVE Offered(u, c)
  <2>1. c.op = "section" /\ c.section \in c.of
    BY <1>1
  <2> QED
    BY <2>1 DEF Offered
<1> HIDE DEF sections
<1>3. Offered(u, Link(IF u = Nobody THEN "login" ELSE "home"))
  BY DEF Offered
<1>4. \A c \in sections \cup {Link(IF u = Nobody THEN "login" ELSE "home")} : Offered(u, c)
  BY <1>2, <1>3
<1> QED
  BY <1>4, LayoutOffers DEF Help, sections

\* Every control of every page, whoever reads it.
LEMMA PagesOffer ==
    ASSUME NEW u \in Readers, NEW fetch \in BOOLEAN, NEW c \in Shown(u, fetch)
    PROVE  Offered(u, c)
<1>1. CASE c \in Help(u, fetch)
  BY <1>1, HelpOffers
<1>2. CASE u = Nobody /\ c \in Login \cup BareErrorPage
  BY <1>2 DEF Login, BareErrorPage, Bare, Offered
<1>3. ASSUME u = Nobody, NEW i \in Invites, c \in RegisterForm(i) PROVE Offered(u, c)
  BY <1>3 DEF RegisterForm, Register, BareErrorPage, Bare, Offered
<1>4. CASE u # Nobody /\ c \in Account(u)
  <2> DEFINE content == Appearance \cup {[op |-> "profile"],
                                         [op |-> "password", current |-> ~Temporary(u)]}
  <2>1. ASSUME NEW d \in content PROVE Offered(u, d)
    <3>1. CASE d = [op |-> "password", current |-> ~Temporary(u)]
      BY <1>4, <3>1 DEF Offered
    <3>2. CASE d \in {[op |-> "theme"], [op |-> "profile"]}
      <4>1. d.op = "theme" \/ d.op = "profile"
        BY <3>2
      <4> QED
        BY <1>4, <4>1 DEF Offered
    <3> QED
      BY <3>1, <3>2 DEF Appearance
  <2> HIDE DEF content
  <2> QED
    BY <1>4, <2>1, LayoutOffers DEF Account, content
<1>5. CASE u # Nobody /\ c \in ErrorPage(u)
  <2>1. \A d \in {Link("home")} : Offered(u, d)
    BY <1>5 DEF Offered
  <2> QED
    BY <1>5, <2>1, LayoutOffers DEF ErrorPage
<1>6. CASE IsAdmin(u) /\ ~Temporary(u) /\ c \in Admin(u)
  <2> DEFINE content == CreateInviteForm \cup RevokeForms \cup PeopleRows
  <2>1. ASSUME NEW d \in RevokeForms PROVE Offered(u, d)
    BY <1>6, <2>1 DEF RevokeForms, Offered
  <2>2. ASSUME NEW d \in PeopleRows PROVE Offered(u, d)
    <3>1. CASE d \in {[op |-> "set admin", user |-> v, admin |-> ~accounts[v].admin] :
                       v \in DOMAIN accounts}
      BY <1>6, <3>1 DEF Offered
    <3>2. CASE d \in {[op |-> "person", user |-> v] : v \in DOMAIN accounts}
      <4>1. d.op = "person"
        BY <3>2
      <4> QED
        BY <1>6, <4>1 DEF Offered
    <3> QED
      BY <2>2, <3>1, <3>2 DEF PeopleRows
  <2>3. ASSUME NEW d \in CreateInviteForm PROVE Offered(u, d)
    <3>1. d.op = "create invite"
      <4>1. d = [op |-> "create invite"]
        BY <2>3 DEF CreateInviteForm
      <4> QED
        BY <4>1
    <3> QED
      BY <1>6, <3>1 DEF Offered
  <2>4. \A d \in content : Offered(u, d)
    BY <2>1, <2>2, <2>3
  <2> HIDE DEF content
  <2> QED
    BY <1>6, <2>4, LayoutOffers DEF Admin, content
<1> QED
  BY <1>1, <1>2, <1>3, <1>4, <1>5, <1>6 DEF Shown

\* Someone who is there, and whether they may.
LEMMA ReaderIs ==
    ASSUME Inv, NEW u \in Readers
    PROVE  /\ Nobody \notin DOMAIN accounts
           /\ u # Nobody => /\ u \in DOMAIN accounts
                            /\ accounts[u].temporary \in BOOLEAN /\ accounts[u].admin \in BOOLEAN
  BY UsersAssumption DEF Inv, AccountsOK, AccountRow, Readers

\* Controls are told apart by what they do.
LEMMA ByName ==
    ASSUME NEW c
    PROVE  /\ c.op # "link" => \A p : c # Link(p)
           /\ c.op \notin {"link", "sign in", "register"} => c \notin AnonymousOnly
           /\ \A p : Link(p).op = "link" /\ Link(p).page = p
           /\ \A p : p # "login" => Link(p) \notin AnonymousOnly
<1>1. \A p : Link(p).op = "link" /\ Link(p).page = p
  BY DEF Link
<1>2. ASSUME NEW d \in AnonymousOnly
      PROVE  d.op = "sign in" \/ d = Link("login") \/ d.op = "register"
  <2>1. d = [op |-> "sign in"] \/ d = Link("login")
        \/ \E i \in Invites : d = [op |-> "register", invite |-> i]
    BY <1>2 DEF AnonymousOnly
  <2>2. CASE d = [op |-> "sign in"]
    BY <2>2
  <2>3. CASE \E i \in Invites : d = [op |-> "register", invite |-> i]
    BY <2>3
  <2> QED
    BY <2>1, <2>2, <2>3
<1>3. c.op # "link" => \A p : c # Link(p)
  BY <1>1
<1>4. c.op \notin {"link", "sign in", "register"} => c \notin AnonymousOnly
  <2>1. c.op # "link" => c # Link("login")
    BY <1>3
  <2> QED
    BY <1>2, <2>1
<1>5. ASSUME NEW p, p # "login" PROVE Link(p) \notin AnonymousOnly
  <2>1. Link(p) # Link("login")
    BY <1>1, <1>5
  <2>2. Link(p).op # "sign in" /\ Link(p).op # "register"
    BY <1>1
  <2> QED
    BY <1>2, <2>1, <2>2
<1> QED
  BY <1>1, <1>3, <1>4, <1>5

\* What the server makes of a request that is let through.
LEMMA LetThrough ==
    ASSUME NEW u, u # Nobody, NEW c, c.op # "section", c # Link("help"), c \notin AnonymousOnly
    PROVE  /\ ~RequireUser(accounts[u], Path(c)) => Answer(u, c) = "account"
           /\ RequireUser(accounts[u], Path(c)) /\ RequireAdmin(accounts[u], Path(c)) =>
                 Answer(u, c) = IF Handled(u, c) THEN "done" ELSE "refused"
  BY DEF Answer


LEMMA HandledIs ==
    ASSUME NEW u, NEW c
    PROVE  /\ c.op \notin {"revoke invite", "set admin", "password"} => Handled(u, c)
           /\ c.op = "revoke invite" => Handled(u, c) = (Usable(c.invite) \/ invites[c.invite].expired)
           /\ c.op = "set admin" => Handled(u, c) = MaySetAdmin(u, c.user, c.admin)
           /\ c.op = "password" => Handled(u, c) = (c.current \/ Temporary(u))
  BY DEF Handled

\* The two answers a page's controls get from the routes that want a user.
LEMMA WithAccount ==
    ASSUME Inv, NEW u \in Readers, u # Nobody, NEW c,
           c.op # "section", c # Link("help"), c \notin AnonymousOnly
    PROVE  /\ Path(c) \in AccountPaths /\ Handled(u, c) => Answer(u, c) = "done"
           /\ ~Temporary(u) /\ Path(c) # "admin" /\ Handled(u, c) => Answer(u, c) = "done"
           /\ ~Temporary(u) /\ IsAdmin(u) /\ Handled(u, c) => Answer(u, c) = "done"
           /\ ~Temporary(u) /\ IsAdmin(u) /\ ~Handled(u, c) => Answer(u, c) = "refused"
           /\ Temporary(u) /\ Path(c) \notin AccountPaths => Answer(u, c) = "account"
<1>1. Path(c) \in AccountPaths => RequireUser(accounts[u], Path(c)) /\ Path(c) # "admin"
  BY DEF RequireUser, AccountPaths
<1>2. ~Temporary(u) => RequireUser(accounts[u], Path(c))
  BY DEF RequireUser, Temporary
<1>3. Path(c) # "admin" \/ IsAdmin(u) => RequireAdmin(accounts[u], Path(c))
  BY DEF RequireAdmin, IsAdmin
<1>4. Temporary(u) /\ Path(c) \notin AccountPaths => ~RequireUser(accounts[u], Path(c))
  BY DEF RequireUser, Temporary
<1> QED
  BY <1>1, <1>2, <1>3, <1>4, LetThrough

LEMMA OfferedWorks ==
    ASSUME Inv, NEW u \in Readers, NEW c, Offered(u, c)
    PROVE  \/ Answer(u, c) = "done"
           \/ Temporary(u) /\ c.op = "link" /\ Answer(u, c) = "account"
           \/ c.op = "set admin" /\ c.user = u /\ ~c.admin /\ Answer(u, c) = "refused"
<1> DEFINE Goal == \/ Answer(u, c) = "done"
                   \/ Temporary(u) /\ c.op = "link" /\ Answer(u, c) = "account"
                   \/ c.op = "set admin" /\ c.user = u /\ ~c.admin /\ Answer(u, c) = "refused"
<1> SUFFICES Goal
  OBVIOUS
<1> HIDE DEF Goal
<1>1. CASE c.op = "section" /\ c.section \in c.of
  <2>1. c # Link("help") /\ c \notin AnonymousOnly
    BY <1>1, ByName
  <2> QED
    BY <1>1, <2>1 DEF Answer, Goal
<1>2. ASSUME NEW p \in {"home", "claims", "account", "admin"}, c = Link(p), u # Nobody,
             p = "admin" => IsAdmin(u)
      PROVE  Goal
  <2>1. c.op = "link" /\ c.page = p
    BY <1>2 DEF Link
  <2>2. c.op # "section" /\ c # Link("help") /\ c \notin AnonymousOnly
    <3>1. p # "help" /\ p # "login" /\ p = c.page
      BY <1>2, <2>1
    <3>2. c # Link("help")
      BY <2>1, <3>1, ByName
    <3>3. c \notin AnonymousOnly
      BY <1>2, <3>1, ByName
    <3> QED
      BY <2>1, <3>2, <3>3
  <2>3. Handled(u, c)
    BY <2>1, HandledIs
  <2>4. p = "account" => Path(c) \in AccountPaths
    <3>1. p = "account" => Path(c) = "account"
      <4>1. p = "account" => c # Link("admin")
        BY <1>2, ByName
      <4> QED
        BY <1>2, <2>1, <4>1 DEF Path
    <3> QED
      BY <3>1 DEF AccountPaths
  <2>5. p # "account" => c # Link("account")
    BY <2>1 DEF Link
  <2>6. p # "account" /\ p # "admin" => c # Link("admin")
    BY <2>1 DEF Link
  <2>7. p # "account" => Path(c) = IF p = "admin" THEN "admin" ELSE "browse"
    BY <1>2, <2>1, <2>5, <2>6 DEF Path
  <2>8. CASE p = "account"
    BY <1>2, <2>2, <2>3, <2>4, <2>8, WithAccount DEF Goal
  <2>9. CASE p # "account" /\ Temporary(u)
    <3>1. Path(c) \notin AccountPaths
      BY <2>7, <2>9 DEF AccountPaths
    <3> QED
      BY <1>2, <2>1, <2>2, <2>9, <3>1, WithAccount DEF Goal
  <2>10. CASE p # "account" /\ ~Temporary(u)
    <3>1. Path(c) # "admin" \/ IsAdmin(u)
      BY <1>2, <2>7, <2>10
    <3> QED
      BY <1>2, <2>2, <2>3, <2>10, <3>1, WithAccount DEF Goal
  <2> QED
    BY <2>8, <2>9, <2>10
<1>3. CASE c = Link("help")
  <2>1. c.op = "link" /\ c \notin AnonymousOnly
    BY <1>3, ByName
  <2> QED
    BY <1>3, <2>1 DEF Answer, Goal
<1>4. CASE u = Nobody /\ (c = Link("login") \/ c = [op |-> "sign in"])
  <2>1. c.op # "section" /\ c.op # "register" /\ c # Link("help")
    <3>1. CASE c = Link("login")
      BY <3>1, ByName
    <3>2. CASE c = [op |-> "sign in"]
      <4>1. c.op = "sign in"
        BY <3>2
      <4> QED
        BY <4>1, ByName
    <3> QED
      BY <1>4, <3>1, <3>2
  <2>2. c \in AnonymousOnly
    BY <1>4 DEF AnonymousOnly
  <2> QED
    BY <1>4, <2>1, <2>2 DEF Answer, Goal
<1>5. ASSUME NEW i \in Invites, c = [op |-> "register", invite |-> i], u = Nobody, Usable(i)
      PROVE  Goal
  <2>1. c.op # "section" /\ c # Link("help") /\ c \in AnonymousOnly /\ Usable(c.invite)
    BY <1>5 DEF Link, AnonymousOnly
  <2> QED
    BY <1>5, <2>1 DEF Answer, Goal
<1>6. CASE c.op \in {"log out", "theme", "profile", "password"} /\ u # Nobody
           /\ (c.op = "password" => c.current = ~Temporary(u))
  <2>1. c.op # "section" /\ c # Link("help") /\ c \notin AnonymousOnly
    BY <1>6, ByName
  <2>2. Handled(u, c)
    BY <1>6, HandledIs
  <2>3. Path(c) \in AccountPaths
    <3>1. c # Link("account") /\ c # Link("admin")
      BY <1>6, ByName
    <3>2. c.op \in {"password", "log out"} => Path(c) = c.op
      BY <3>1 DEF Path
    <3>3. c.op \in {"profile", "theme"} => Path(c) = "account"
      BY <3>1 DEF Path
    <3> QED
      BY <1>6, <3>2, <3>3 DEF AccountPaths
  <2> QED
    BY <1>6, <2>1, <2>2, <2>3, WithAccount DEF Goal
<1> DEFINE Named == c.op \notin {"section", "link", "sign in", "register"}
           Own   == c.op = "set admin" /\ c.user = u /\ ~c.admin
<1>7. IsAdmin(u) /\ ~Temporary(u) /\ Named /\ (Handled(u, c) \/ Own) => Goal
  <2> SUFFICES ASSUME IsAdmin(u), ~Temporary(u), Named, Handled(u, c) \/ Own
               PROVE  Goal
    OBVIOUS
  <2>1. c.op # "section" /\ c # Link("help") /\ c \notin AnonymousOnly
    BY ByName
  <2>2. u # Nobody
    BY DEF IsAdmin
  <2> QED
    BY <2>1, <2>2, WithAccount DEF Goal
<1>8. CASE IsAdmin(u) /\ ~Temporary(u) /\ c.op \in {"create invite", "person"}
  <2>1. Handled(u, c)
    BY <1>8, HandledIs
  <2>2. Named
    BY <1>8
  <2> QED
    <3> HIDE DEF Named
    <3> QED
      BY <1>7, <1>8, <2>1, <2>2
<1>9. ASSUME IsAdmin(u), ~Temporary(u), NEW i \in DOMAIN invites,
             c = [op |-> "revoke invite", invite |-> i], invites[i].by = Nobody
      PROVE  Goal
  <2>1. c.op = "revoke invite" /\ c.invite = i
    BY <1>9
  <2>2. Usable(i) \/ invites[i].expired
    BY <1>9 DEF Usable
  <2>3. Handled(u, c)
    BY <2>1, <2>2, HandledIs
  <2>4. Named
    BY <2>1
  <2> QED
    <3> HIDE DEF Named
    <3> QED
      BY <1>7, <1>9, <2>3, <2>4
<1>10. ASSUME IsAdmin(u), ~Temporary(u), NEW v \in DOMAIN accounts,
              c = [op |-> "set admin", user |-> v, admin |-> ~accounts[v].admin]
       PROVE  Goal
  <2>1. c.op = "set admin" /\ c.user = v /\ c.admin = ~accounts[v].admin
    BY <1>10
  <2>2. Handled(u, c) = MaySetAdmin(u, c.user, c.admin)
    BY <2>1, HandledIs
  <2>3. Handled(u, c) \/ Own
    BY <2>1, <2>2 DEF MaySetAdmin
  <2>4. Named
    BY <2>1
  <2> QED
    <3> HIDE DEF Named, Own
    <3> QED
      BY <1>7, <1>10, <2>3, <2>4
<1>11. CASE c = [op |-> "password", current |-> ~Temporary(u)] /\ u # Nobody
  <2>1. c.op = "password" /\ c.current = ~Temporary(u)
    BY <1>11
  <2> QED
    BY <1>6, <1>11, <2>1
<1>12. CASE c.op \in {"log out", "theme", "profile"} /\ u # Nobody
  BY <1>6, <1>12
<1>13. CASE IsAdmin(u) /\ c = Link("admin")
  BY <1>2, <1>13 DEF IsAdmin
<1>14. ASSUME NEW p \in {"home", "claims", "account", "help"}, c = Link(p),
              u # Nobody \/ p = "help"
       PROVE  Goal
  BY <1>2, <1>3, <1>14
<1> QED
  BY <1>1, <1>4, <1>5, <1>8, <1>9, <1>10, <1>11, <1>12, <1>13, <1>14 DEF Offered

\* Between requests, every control of a fresh page works, but for the header under
\* a temporary password and the button on an administrator's own row.
THEOREM PagesWork == Spec => []AccountControlsWork
<1>1. Inv => AccountControlsWork
  BY PagesOffer, OfferedWorks DEF AccountControlsWork
<1> QED
  BY <1>1, InvHolds, PTL

\* And everything the tables allow somebody is on one of their pages.
THEOREM NobodyLockedOut == Spec => []NobodyIsLockedOut
<1>1. Inv => NobodyIsLockedOut
  <2> SUFFICES ASSUME Inv, NEW u \in Readers
               PROVE  LET offered == Shown(u, FALSE)
                      IN  /\ Temporary(u) => \E c \in offered : c.op = "password" /\ Answer(u, c) = "done"
                          /\ u = Nobody => \A i \in Invites : Usable(i) => Register(i) \subseteq offered
                          /\ IsAdmin(u) /\ ~Temporary(u) =>
                                /\ \A i \in DOMAIN invites : invites[i].by = Nobody =>
                                      [op |-> "revoke invite", invite |-> i] \in offered
                                /\ \A v \in DOMAIN accounts, b \in BOOLEAN :
                                      b # accounts[v].admin =>
                                          [op |-> "set admin", user |-> v, admin |-> b] \in offered
    BY DEF NobodyIsLockedOut
  <2>1. ASSUME Temporary(u)
        PROVE  \E c \in Shown(u, FALSE) : c.op = "password" /\ Answer(u, c) = "done"
    <3> DEFINE c == [op |-> "password", current |-> ~Temporary(u)]
    <3>1. u # Nobody
      BY <2>1 DEF Temporary
    <3>2. c \in Shown(u, FALSE)
      BY <3>1 DEF Shown, Account, Layout
    <3>3. c.op = "password" /\ Offered(u, c)
      BY <3>1 DEF Offered
    <3>4. Answer(u, c) = "done"
      BY <3>3, OfferedWorks
    <3> HIDE DEF c
    <3> QED
      BY <3>2, <3>3, <3>4
  <2>2. ASSUME u = Nobody, NEW i \in Invites, Usable(i)
        PROVE  Register(i) \subseteq Shown(u, FALSE)
    BY <2>2 DEF Shown, RegisterForm
  <2>3. ASSUME IsAdmin(u), ~Temporary(u)
        PROVE  CreateInviteForm \cup RevokeForms \cup PeopleRows \subseteq Shown(u, FALSE)
    BY <2>3 DEF Shown, Admin, Layout
  <2>4. ASSUME NEW i \in DOMAIN invites, invites[i].by = Nobody
        PROVE  [op |-> "revoke invite", invite |-> i] \in RevokeForms
    BY <2>4 DEF RevokeForms
  <2>5. ASSUME NEW v \in DOMAIN accounts, NEW b \in BOOLEAN, b # accounts[v].admin
        PROVE  [op |-> "set admin", user |-> v, admin |-> b] \in PeopleRows
    <3>1. accounts[v].admin \in BOOLEAN
      BY DEF Inv, AccountsOK, AccountRow
    <3>2. b = ~accounts[v].admin
      BY <2>5, <3>1
    <3> QED
      BY <3>2 DEF PeopleRows
  <2> QED
    BY <2>1, <2>2, <2>3, <2>4, <2>5
<1> QED
  BY <1>1, InvHolds, PTL
=============================================================================
