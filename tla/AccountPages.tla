----------------------------- MODULE AccountPages -----------------------------
(***************************************************************************)
(* The pages about accounts over the tables of Accounts: signing in,        *)
(* registering, the account page, help and administration, what each of     *)
(* them offers its reader, and what the server answers when it is used.     *)
(*                                                                         *)
(* As in Pages, a control is named by what it does and carries what it      *)
(* posts; wording and layout are left out.  A control says where it leads,  *)
(* and the server's answer is a page, or that it was done.                  *)
(***************************************************************************)
EXTENDS Accounts

Readers == DOMAIN accounts \cup {Nobody}

Temporary(u) == u # Nobody /\ accounts[u].temporary
IsAdmin(u)   == u # Nobody /\ accounts[u].admin

Link(page) == [op |-> "link", page |-> page]

-----------------------------------------------------------------------------
(* The pages.                                                              *)

Topbar(u) ==
    {Link(p) : p \in {"home", "claims", "account", "help"} \cup IF IsAdmin(u) THEN {"admin"} ELSE {}}
        \cup {[op |-> "log out"]}

\* No header on a page that somebody reads who is not signed in.
Layout(u, content) == content \cup IF u = Nobody THEN {} ELSE Topbar(u)

\* The layout around signing in and registering has nothing of its own.
Bare(content) == content

Login == Bare({[op |-> "sign in"], Link("help")})

BareErrorPage == Bare({Link("login")})
ErrorPage(u)  == Layout(u, {Link("home")})

Register(i) == Bare({[op |-> "register", invite |-> i]})

RegisterForm(i) == IF Usable(i) THEN Register(i) ELSE BareErrorPage

Appearance == {[op |-> "theme"]}

\* The current password is not asked for in place of a temporary one.
Account(u) ==
    Layout(u, Appearance \cup {[op |-> "profile"],
                               [op |-> "password", current |-> ~Temporary(u)]})

CreateInviteForm == {[op |-> "create invite"]}

\* Faulty variant: a button on every row.
RevokeFormOnEveryRow == {[op |-> "revoke invite", invite |-> i] : i \in DOMAIN invites}

\* A button on the rows that say unused, which an expired invite's does too.
RevokeForms ==
    {[op |-> "revoke invite", invite |-> i] : i \in {j \in DOMAIN invites : invites[j].by = Nobody}}

\* One button for each person, for what they are not, and a link to their lists.
PeopleRows ==
    {[op |-> "set admin", user |-> v, admin |-> ~accounts[v].admin] : v \in DOMAIN accounts}
        \cup {[op |-> "person", user |-> v] : v \in DOMAIN accounts}

Admin(u) == Layout(u, CreateInviteForm \cup RevokeForms \cup PeopleRows)

\* Sections of the help page that not every reader gets, on an instance with link
\* lookup or without.
HelpSections(u, fetch) ==
    {"add-item", "phone", "lists", "organize", "claiming", "owner-blind", "account", "signing-in",
     "trouble"}
    \cup (IF fetch THEN {"link-lookup"} ELSE {})
    \cup (IF IsAdmin(u) THEN {"invites"} ELSE {})

\* The table of contents repeats those conditions.
HelpContents(u, fetch) ==
    {"add-item", "phone", "lists", "organize", "claiming", "owner-blind", "account", "signing-in",
     "trouble"}
    \cup (IF IsAdmin(u) THEN {"invites"} ELSE {})
    \cup (IF fetch THEN {"link-lookup"} ELSE {})

Help(u, fetch) ==
    Layout(u, {[op |-> "section", section |-> s, of |-> HelpSections(u, fetch)] :
                  s \in HelpContents(u, fetch)}
              \cup {Link(IF u = Nobody THEN "login" ELSE "home")})

-----------------------------------------------------------------------------
(* What the server answers.                                                *)

\* The path of a control, as the middleware tells paths apart.
Path(c) ==
    CASE c.op \in {"password", "log out"} -> c.op
      [] c.op \in {"profile", "theme"} \/ c = Link("account") -> "account"
      [] c.op \in {"create invite", "revoke invite", "set admin", "person"} \/ c = Link("admin") ->
            "admin"
      [] OTHER -> "browse"

\* The handlers' own refusals.
Handled(u, c) ==
    CASE c.op = "revoke invite" -> Usable(c.invite) \/ invites[c.invite].expired
      [] c.op = "set admin" -> MaySetAdmin(u, c.user, c.admin)
      [] c.op = "password" -> c.current \/ Temporary(u)
      [] OTHER -> TRUE

AnonymousOnly == {[op |-> "sign in"], Link("login")} \cup {[op |-> "register", invite |-> i] : i \in Invites}

Answer(u, c) ==
    CASE c.op = "section" -> IF c.section \in c.of THEN "done" ELSE "nothing"
      [] c = Link("help") -> "done"
      [] c \in AnonymousOnly ->
            IF u # Nobody THEN "home"
            ELSE IF c.op = "register" /\ ~Usable(c.invite) THEN "not found" ELSE "done"
      [] OTHER ->
            IF u = Nobody THEN "login"
            ELSE IF ~RequireUser(accounts[u], Path(c)) THEN "account"
            ELSE IF ~RequireAdmin(accounts[u], Path(c)) THEN "not found"
            ELSE IF Handled(u, c) THEN "done" ELSE "refused"

-----------------------------------------------------------------------------
(* Properties.                                                             *)

\* The pages a reader can be on, by following links or by an address they know.
Shown(u, fetch) ==
    Help(u, fetch)
        \cup (IF u = Nobody
              THEN Login \cup BareErrorPage \cup UNION {RegisterForm(i) : i \in Invites}
              ELSE Account(u))
        \cup (IF u # Nobody /\ ~Temporary(u) THEN ErrorPage(u) ELSE {})
        \cup (IF IsAdmin(u) /\ ~Temporary(u) THEN Admin(u) ELSE {})

\* Any request may end anywhere, so nothing is lost by looking only between requests.
AllFree == \A r \in Requests : Free(r)

\* A fresh page offers nothing that fails.  With a temporary password the header's
\* links, all of which are there, lead to the account page, whose form then works
\* without the password nobody told its reader; and an administrator's own row
\* has a button that is refused.
AccountControlsWork == AllFree =>
    \A u \in Readers, fetch \in BOOLEAN : \A c \in Shown(u, fetch) :
        \/ Answer(u, c) = "done"
        \/ Temporary(u) /\ c.op = "link" /\ Answer(u, c) = "account"
        \/ c.op = "set admin" /\ c.user = u /\ ~c.admin /\ Answer(u, c) = "refused"

\* And whatever the tables allow somebody is on one of their pages: a password of
\* one's own in place of a temporary one, an account for every invite that is good
\* for one, the end of every invite that is not used, and both directions of
\* everybody else's rights.
NobodyIsLockedOut == AllFree =>
    \A u \in Readers :
        LET offered == Shown(u, FALSE)
        IN  /\ Temporary(u) => \E c \in offered : c.op = "password" /\ Answer(u, c) = "done"
            /\ u = Nobody => \A i \in Invites : Usable(i) => Register(i) \subseteq offered
            /\ IsAdmin(u) /\ ~Temporary(u) =>
                  /\ \A i \in DOMAIN invites : invites[i].by = Nobody =>
                        [op |-> "revoke invite", invite |-> i] \in offered
                  /\ \A v \in DOMAIN accounts, b \in BOOLEAN :
                        b # accounts[v].admin =>
                            [op |-> "set admin", user |-> v, admin |-> b] \in offered
=============================================================================
