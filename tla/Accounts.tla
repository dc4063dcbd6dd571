------------------------------- MODULE Accounts -------------------------------
(***************************************************************************)
(* Accounts, sessions and invites: what the requests that write them do,    *)
(* statement by statement, and the set-password command beside them.        *)
(*                                                                         *)
(* A request works from the user row it read when it arrived (a sign-in     *)
(* from the row it checked the password against), and nothing holds the     *)
(* tables still between its statements; any request can end after any of    *)
(* them, with a database error or with the process.                         *)
(*                                                                         *)
(* Time is what it does to a row: a session or an unused invite expires.    *)
(* Whether a session is old enough to be renewed by a request is open.      *)
(*                                                                         *)
(* Left out: the names, the theme, the hashing of passwords and tokens,     *)
(* and the rate limiter, which turns a sign-in away before it reads         *)
(* anything.  A request that is refused writes nothing and is not a step.   *)
(***************************************************************************)
EXTENDS Naturals, FiniteSets, Tables

CONSTANTS
    Users,          \* the accounts there can ever be
    First,          \* the one bootstrapAdmin creates
    Nobody,         \* stands for NULL in used_by
    Passwords,
    NoPassword,     \* where no password is remembered
    Invites,        \* tokens of invites, each made at most once
    Requests,       \* bound: requests and commands under way at a time
    MaxSessions     \* bound: sessions ever opened

ASSUME UsersAssumption == First \in Users /\ Nobody \notin Users

ASSUME BoundsAssumption == MaxSessions \in Nat

VARIABLES
    accounts,   \* user   -> [password, temporary (must_reset), admin]
    sessions,   \* token  -> [user, expired], and for the properties the password it
                \* was opened with, unless that was no longer the account's
    issued,     \* tokens are 1, 2, ... in the order of their sessions
    invites,    \* token  -> [by: who used it, or nobody; expired]
    requests,   \* what each request under way has read and done
    cut         \* whose password was changed by a request that ended before it
                \* had deleted the sessions

vars == <<accounts, sessions, issued, invites, requests, cut>>

Idle == [op |-> "none"]

\* Requests served with a session.  Those under /account and the sign-out are also
\* served with a temporary password; an administrator's are those under /admin.
AccountPaths == {"account", "password", "log out"}
Served       == {"browse", "admin", "password", "log out"}

\* Faulty variant: the path /account alone, not what is under it.
RequireUserExactly(row, path) == path \in {"account", "log out"} \/ ~row.temporary

RequireUser(row, path) == path \in AccountPaths \/ ~row.temporary

RequireAdmin(row, path) == path = "admin" => row.admin

\* What a request remembers of the user row it read and of its session.
Working(op, at, u, password) ==
    [op |-> op, at |-> at, user |-> u, password |-> password, token |-> 0]

Free(r) == requests[r] = Idle
At(r, op, at) == ~Free(r) /\ requests[r].op = op /\ requests[r].at = at

Ends(r)       == requests' = [requests EXCEPT ![r] = Idle]
GoesOn(r, at) == requests' = [requests EXCEPT ![r].at = at]

-----------------------------------------------------------------------------
(* The store's statements.                                                 *)

\* CreateSession, with a token nobody has seen before.
CreateSession(u, password) ==
    /\ issued < MaxSessions
    /\ issued' = issued + 1
    /\ sessions' = Put(sessions, issued + 1,
                       [user |-> u, expired |-> FALSE,
                        opened |-> IF password = accounts[u].password THEN password ELSE NoPassword])

\* Faulty variant: writes the row whether it is there or not.
TouchOrInsert(t, u) ==
    sessions' = Put(sessions, t, [user |-> u, expired |-> FALSE, opened |-> accounts[u].password])

\* An UPDATE: a session that is gone stays gone.
TouchSession(t, u) ==
    sessions' = IF t \in DOMAIN sessions
                THEN [sessions EXCEPT ![t].expired = FALSE] ELSE sessions

DeleteUserSessions(u) ==
    /\ sessions' = Drop(sessions, {t \in DOMAIN sessions : sessions[t].user = u})
    /\ cut' = cut \ {u}

SetPassword(u, password, temporary) ==
    accounts' = [accounts EXCEPT ![u].password = password, ![u].temporary = temporary]

Usable(i) == i \in DOMAIN invites /\ invites[i].by = Nobody /\ ~invites[i].expired

-----------------------------------------------------------------------------
(* Signing in and registering.                                             *)

\* handleLogin reads the row and checks the password against it.
SignIn(r, u) ==
    /\ Free(r)
    /\ u \in DOMAIN accounts
    /\ requests' = [requests EXCEPT ![r] = Working("sign in", "checked", u, accounts[u].password)]
    /\ UNCHANGED <<accounts, sessions, issued, invites, cut>>

\* startSession, also at the end of a registration.
SignedIn(r) ==
    /\ At(r, "sign in", "checked")
    /\ CreateSession(requests[r].user, requests[r].password)
    /\ Ends(r)
    /\ UNCHANGED <<accounts, invites, cut>>

\* Faulty variant: the invite is used up and the account's row is never written.
RedeemWithoutAccount(r, i, u, password) ==
    /\ Free(r)
    /\ Usable(i)
    /\ u \notin DOMAIN accounts
    /\ invites' = [invites EXCEPT ![i].by = u]
    /\ requests' = [requests EXCEPT ![r] = Working("sign in", "checked", u, password)]
    /\ UNCHANGED <<accounts, sessions, issued, cut>>

\* Faulty variant: without AND used_at IS NULL.
RedeemAgain(r, i, u, password) ==
    /\ Free(r)
    /\ i \in DOMAIN invites /\ ~invites[i].expired
    /\ u \notin DOMAIN accounts
    /\ accounts' = Put(accounts, u, [password |-> password, temporary |-> FALSE, admin |-> FALSE])
    /\ invites' = [invites EXCEPT ![i].by = u]
    /\ requests' = [requests EXCEPT ![r] = Working("sign in", "checked", u, password)]
    /\ UNCHANGED <<sessions, issued, cut>>

\* Faulty variant: without token_hash = ?, so that every usable invite is burnt.
RedeemAll(r, i, u, password) ==
    /\ Free(r)
    /\ Usable(i)
    /\ u \notin DOMAIN accounts
    /\ accounts' = Put(accounts, u, [password |-> password, temporary |-> FALSE, admin |-> FALSE])
    /\ invites' = [j \in DOMAIN invites |->
                      IF Usable(j) THEN [invites[j] EXCEPT !.by = u] ELSE invites[j]]
    /\ requests' = [requests EXCEPT ![r] = Working("sign in", "checked", u, password)]
    /\ UNCHANGED <<sessions, issued, cut>>

\* The account and the end of the invite, in one transaction; then its session.
RedeemInvite(r, i, u, password) ==
    /\ Free(r)
    /\ Usable(i)
    /\ u \notin DOMAIN accounts
    /\ accounts' = Put(accounts, u, [password |-> password, temporary |-> FALSE, admin |-> FALSE])
    /\ invites' = [invites EXCEPT ![i].by = u]
    /\ requests' = [requests EXCEPT ![r] = Working("sign in", "checked", u, password)]
    /\ UNCHANGED <<sessions, issued, cut>>

-----------------------------------------------------------------------------
(* Requests with a session.                                                *)

\* A request may renew its session first.  Browsing does nothing else here, and
\* only a renewal and a sign-out still need the token.
Steps(op)      == IF op = "browse" THEN {"touch"} ELSE {"touch", "handle"}
Needed(op, at) == op = "log out" \/ at = "touch"

\* loadSession, requireUser and requireAdmin, all from the one row.
Authenticate(r, t, op) ==
    /\ Free(r)
    /\ t \in DOMAIN sessions /\ ~sessions[t].expired
    /\ LET u == sessions[t].user
       IN  /\ RequireUser(accounts[u], op) /\ RequireAdmin(accounts[u], op)
           /\ \E at \in Steps(op) : requests' = [requests EXCEPT ![r] =
                 [Working(op, at, u, NoPassword) EXCEPT !.token = IF Needed(op, at) THEN t ELSE 0]]
    /\ UNCHANGED <<accounts, sessions, issued, invites, cut>>

\* The sliding renewal, which may come after the session expired or ended.
Renew(r) ==
    /\ ~Free(r) /\ requests[r].at = "touch"
    /\ TouchSession(requests[r].token, requests[r].user)
    /\ CASE requests[r].op = "browse"  -> Ends(r)
         [] requests[r].op = "log out" -> GoesOn(r, "handle")
         [] OTHER -> requests' = [requests EXCEPT ![r].at = "handle", ![r].token = 0]
    /\ UNCHANGED <<accounts, issued, invites, cut>>

LogOut(r) ==
    /\ At(r, "log out", "handle")
    /\ sessions' = Drop(sessions, {requests[r].token})
    /\ Ends(r)
    /\ UNCHANGED <<accounts, issued, invites, cut>>

\* Nobody can revoke their own rights.
MaySetAdmin(me, target, admin) == target = me => admin

SetAdmin(r, target, admin) ==
    /\ At(r, "admin", "handle")
    /\ target \in DOMAIN accounts
    /\ MaySetAdmin(requests[r].user, target, admin)
    /\ accounts' = [accounts EXCEPT ![target].admin = admin]
    /\ Ends(r)
    /\ UNCHANGED <<sessions, issued, invites, cut>>

CreateInvite(r, i) ==
    /\ At(r, "admin", "handle")
    /\ i \notin DOMAIN invites
    /\ invites' = Put(invites, i, [by |-> Nobody, expired |-> FALSE])
    /\ Ends(r)
    /\ UNCHANGED <<accounts, sessions, issued, cut>>

\* Faulty variant: without AND used_at IS NULL.
DeleteAnyInvite(r, i) ==
    /\ At(r, "admin", "handle")
    /\ invites' = Drop(invites, {i})
    /\ Ends(r)
    /\ UNCHANGED <<accounts, sessions, issued, cut>>

\* DELETE ... AND used_at IS NULL: a used invite stays, and the answer is the same.
DeleteInvite(r, i) ==
    /\ At(r, "admin", "handle")
    /\ invites' = Drop(invites, {j \in {i} \cap DOMAIN invites : invites[j].by = Nobody})
    /\ Ends(r)
    /\ UNCHANGED <<accounts, sessions, issued, cut>>

-----------------------------------------------------------------------------
(* Changing a password.                                                    *)

\* Whoever knows the password of the row the request works from; a temporary one
\* is not asked for.
ChangePassword(r, password) ==
    /\ At(r, "password", "handle")
    /\ SetPassword(requests[r].user, password, FALSE)
    /\ requests' = [requests EXCEPT ![r].at = "changed", ![r].password = password]
    /\ UNCHANGED <<sessions, issued, invites, cut>>

\* Faulty variant: DeleteSession in place of DeleteUserSessions.
SignOutHere(r) ==
    /\ At(r, "password", "changed") \/ At(r, "reset", "changed")
    /\ sessions' = Drop(sessions, {requests[r].token})
    /\ cut' = cut \ {requests[r].user}
    /\ IF requests[r].op = "reset" THEN Ends(r) ELSE GoesOn(r, "signed out")
    /\ UNCHANGED <<accounts, issued, invites>>

\* Every other session dies with the old password.
SignOutEverywhere(r) ==
    /\ At(r, "password", "changed") \/ At(r, "reset", "changed")
    /\ DeleteUserSessions(requests[r].user)
    /\ IF requests[r].op = "reset" THEN Ends(r) ELSE GoesOn(r, "signed out")
    /\ UNCHANGED <<accounts, issued, invites>>

SignBackIn(r) ==
    /\ At(r, "password", "signed out")
    /\ CreateSession(requests[r].user, requests[r].password)
    /\ Ends(r)
    /\ UNCHANGED <<accounts, invites, cut>>

\* The set-password command: an UPDATE of the account's row, then the DELETE.
ResetPassword(r, u, password, force) ==
    /\ Free(r)
    /\ u \in DOMAIN accounts
    /\ SetPassword(u, password, force)
    /\ requests' = [requests EXCEPT ![r] = Working("reset", "changed", u, NoPassword)]
    /\ UNCHANGED <<sessions, issued, invites, cut>>

-----------------------------------------------------------------------------
(* Everything else that happens.                                           *)

\* A request ends where it is.
Fail(r) ==
    /\ ~Free(r)
    /\ cut' = IF requests[r].at = "changed" THEN cut \cup {requests[r].user} ELSE cut
    /\ Ends(r)
    /\ UNCHANGED <<accounts, sessions, issued, invites>>

\* The janitor's hourly DELETE.
DeleteExpiredSessions ==
    LET expired == {t \in DOMAIN sessions : sessions[t].expired}
    IN  /\ expired # {}
        /\ sessions' = Drop(sessions, expired)
        /\ UNCHANGED <<accounts, issued, invites, requests, cut>>

SessionExpires(t) ==
    /\ t \in DOMAIN sessions /\ ~sessions[t].expired
    /\ sessions' = [sessions EXCEPT ![t].expired = TRUE]
    /\ UNCHANGED <<accounts, issued, invites, requests, cut>>

InviteExpires(i) ==
    /\ Usable(i)
    /\ invites' = [invites EXCEPT ![i].expired = TRUE]
    /\ UNCHANGED <<accounts, sessions, issued, requests, cut>>

\* bootstrapAdmin has run on an empty database.
Init ==
    /\ \E p \in Passwords :
          accounts = [u \in {First} |-> [password |-> p, temporary |-> FALSE, admin |-> TRUE]]
    /\ sessions = EmptyTable /\ issued = 0
    /\ invites = EmptyTable
    /\ requests = [r \in Requests |-> Idle]
    /\ cut = {}

Anonymous(r) ==
    \/ \E u \in Users : SignIn(r, u)
    \/ SignedIn(r)
    \/ \E i \in Invites, u \in Users, p \in Passwords : RedeemInvite(r, i, u, p)

WithSession(r) ==
    \/ \E t \in 1..issued, op \in Served : Authenticate(r, t, op)
    \/ Renew(r)
    \/ LogOut(r)
    \/ \E u \in Users, b \in BOOLEAN : SetAdmin(r, u, b)
    \/ \E i \in Invites : CreateInvite(r, i) \/ DeleteInvite(r, i)
    \/ \E p \in Passwords : ChangePassword(r, p)
    \/ SignOutEverywhere(r)
    \/ SignBackIn(r)

Next ==
    \/ \E r \in Requests : Anonymous(r) \/ WithSession(r) \/ Fail(r)
    \/ \E r \in Requests, u \in Users, p \in Passwords, b \in BOOLEAN : ResetPassword(r, u, p, b)
    \/ DeleteExpiredSessions
    \/ \E t \in 1..issued : SessionExpires(t)
    \/ \E i \in Invites : InviteExpires(i)

Spec == Init /\ [][Next]_vars

-----------------------------------------------------------------------------
(* Properties.                                                             *)

RequestState ==
    {Idle} \cup
    [op: {"sign in", "reset"} \cup Served,
     at: {"checked", "touch", "handle", "changed", "signed out"},
     user: Users, password: Passwords \cup {NoPassword},
     token: 0..MaxSessions]

\* Every row and every request has its type, and refers to rows that exist.
TypeOK ==
    /\ First \in DOMAIN accounts /\ DOMAIN accounts \subseteq Users
    /\ accounts \in [DOMAIN accounts -> [password: Passwords, temporary: BOOLEAN, admin: BOOLEAN]]
    /\ issued \in 0..MaxSessions /\ DOMAIN sessions \subseteq 1..issued
    /\ sessions \in [DOMAIN sessions -> [user: DOMAIN accounts, expired: BOOLEAN,
                                         opened: Passwords \cup {NoPassword}]]
    /\ DOMAIN invites \subseteq Invites
    /\ invites \in [DOMAIN invites -> [by: Users \cup {Nobody}, expired: BOOLEAN]]
    /\ requests \in [Requests -> RequestState]
    /\ \A r \in Requests : ~Free(r) => requests[r].user \in DOMAIN accounts
    /\ cut \subseteq DOMAIN accounts

\* Registration is by invite only, and an invite is good for one account: every
\* account but the first has its own used invite, whatever is revoked.
InvitesAreSpentOnce ==
    /\ \A u \in DOMAIN accounts \ {First} :
          \E i \in DOMAIN invites : invites[i].by = u
    /\ \A i, j \in DOMAIN invites :
          invites[i].by = invites[j].by /\ invites[i].by # Nobody => i = j

\* A session that has ended, by a sign-out, a password change, a reset or the
\* janitor, never comes back, whatever requests were under way with it.
NoSessionReturns ==
    \A t \in 1..issued : t \notin DOMAIN sessions => t \notin DOMAIN sessions'

SignedOutStaysOut == [][NoSessionReturns]_vars

BeingChanged(u) ==
    \E r \in Requests : ~Free(r) /\ requests[r].at = "changed" /\ requests[r].user = u

\* A session is open under a password that is no longer its account's only between
\* the two statements of the change, when the change ended between them, or when
\* the sign-in itself was overtaken by the change.
OldPasswordsFade ==
    \A t \in DOMAIN sessions :
        LET s == sessions[t]
        IN  \/ s.opened = accounts[s.user].password
            \/ s.opened = NoPassword
            \/ s.user \in cut
            \/ BeingChanged(s.user)
=============================================================================
