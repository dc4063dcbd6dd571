\* Three people, who can make two registrations, and two requests at a time, killed
\* anywhere; with a second invite there is no second session.
SPECIFICATION Spec
CONSTANTS
    First = a
    Nobody = nobody
    NoPassword = none
    Users = {a, b, c}
    Passwords = {p, q}
    Invites = {i, j}
    Requests = {r1, r2}
    MaxSessions = 2
CONSTRAINT SecondSessionOrInvite
SYMMETRY Symmetry
CHECK_DEADLOCK FALSE
INVARIANTS TypeOK InvitesAreSpentOnce OldPasswordsFade AccountControlsWork NobodyIsLockedOut
PROPERTY SignedOutStaysOut
