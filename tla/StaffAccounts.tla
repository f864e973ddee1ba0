---------------------------- MODULE StaffAccounts ----------------------------
(***************************************************************************)
(* Staff accounts and their sign-ins: login, password changes, the staff   *)
(* page of administrators, force logout, driver visibility and driver      *)
(* presence.                                                               *)
(*                                                                         *)
(* A handler verifies a password or waits for the database between what it *)
(* reads and what it writes, so a request in flight keeps what it read in  *)
(* its slot of Requests. A token is signed once and never forgotten: the   *)
(* sets of tokens only grow.                                               *)
(***************************************************************************)
EXTENDS Integers, FiniteSets

CONSTANTS
    Staff,
    Requests,
    Passwords,
    NoStaff,
    MaxVersion      \* bound on authVersion and staffRevision

StaffAssumption ==
    /\ NoStaff \notin Staff
    /\ MaxVersion \in Nat

VARIABLES
    account,    \* [Staff -> Account], the User rows of drivers and dispatchers
    sessions,   \* the session tokens signed so far
    resets,     \* the password-change tokens signed so far
    changes,    \* the password-change tokens that have changed a password
    epoch,      \* [Staff -> Nat], how often the account's access was taken away
    req         \* [Requests -> Request]

vars == <<account, sessions, resets, changes, epoch, req>>

Roles == {"DRIVER", "DISPATCHER"}

\* profile numbers the successive names of the account, email its addresses.
Account == [role: Roles, email: Nat, profile: Nat, password: Passwords,
            isActive: BOOLEAN, passwordChangeRequired: BOOLEAN,
            isVisibleInDispatch: BOOLEAN, isOnline: BOOLEAN, forceLogoutAt: BOOLEAN,
            authVersion: Nat, staffRevision: Nat]

\* The payload of a session token, with the password, the email and the epoch of
\* the account when that password was verified.
Session == [user: Staff, authVersion: Nat, password: Passwords, role: Roles,
            email: Nat, epoch: Nat]

Reset == [user: Staff, authVersion: Nat]

Kinds == {"none", "login", "heartbeat", "offline", "profile", "edit", "adminDriver",
          "changePassword"}

Request == [kind: Kinds, pc: {"idle", "check", "read", "write"},
            user: Staff \cup {NoStaff}, snap: Account, epoch: Nat]

\* The staff page shows these columns of an account.
Shown(row) == <<row.role, row.email, row.profile, row.isActive,
                row.passwordChangeRequired, row.isVisibleInDispatch>>

NewAccounts == [role: Roles, email: {0}, profile: {0}, password: Passwords,
                isActive: {TRUE}, passwordChangeRequired: {FALSE},
                isVisibleInDispatch: {TRUE}, isOnline: {FALSE}, forceLogoutAt: {FALSE},
                authVersion: {0}, staffRevision: {0}]

AnyAccount == CHOOSE row \in NewAccounts : TRUE

Idle == [kind |-> "none", pc |-> "idle", user |-> NoStaff, snap |-> AnyAccount, epoch |-> 0]

TypeOK ==
    /\ account \in [Staff -> Account]
    /\ sessions \subseteq Session
    /\ resets \subseteq Reset
    /\ changes \subseteq Reset
    /\ epoch \in [Staff -> Nat]
    /\ req \in [Requests -> Request]

Init ==
    /\ account \in [Staff -> NewAccounts]
    /\ sessions = {}
    /\ resets = {}
    /\ changes = {}
    /\ epoch = [u \in Staff |-> 0]
    /\ req = [r \in Requests |-> Idle]

-----------------------------------------------------------------------------
Start(r, kind, pc, u) ==
    /\ req[r].pc = "idle"
    /\ req' = [req EXCEPT ![r] = [kind |-> kind, pc |-> pc, user |-> u,
                                  snap |-> account[u], epoch |-> epoch[u]]]

At(r, kind, pc) == req[r].kind = kind /\ req[r].pc = pc

Respond(r) == req' = [req EXCEPT ![r] = Idle]

Tokens == <<sessions, resets, changes>>

\* The updates { increment: 1 } of the version columns.
Bumped(row) ==
    [row EXCEPT !.authVersion = @ + 1, !.staffRevision = @ + 1]

InBound(u) == account[u].authVersion < MaxVersion /\ account[u].staffRevision < MaxVersion

\* The account loses its access: every session signed before must be refused.
Revoke(u) == epoch' = [epoch EXCEPT ![u] = @ + 1]

-----------------------------------------------------------------------------
(***************************************************************************)
(* loginController and requireAuth                                         *)
(***************************************************************************)

\* The account is read, and bcrypt compares the password with the hash read.
LoginRead(r, u, p) ==
    /\ account[u].password = p
    /\ account[u].isActive
    /\ Start(r, "login", "check", u)
    /\ UNCHANGED <<account, Tokens, epoch>>

\* A temporary password, or a request to change it, earns a change token only.
LoginForChange(r) ==
    /\ At(r, "login", "check")
    /\ resets' = resets \cup {[user |-> req[r].user,
                               authVersion |-> req[r].snap.authVersion]}
    /\ Respond(r)
    /\ UNCHANGED <<account, sessions, changes, epoch>>

\* Mutant: the sign-in is recorded by id alone.
LoginCommit_ById(r) ==
    LET q == req[r]
        u == q.user
    IN
    /\ At(r, "login", "check")
    /\ ~q.snap.passwordChangeRequired
    /\ q.snap.role = "DRIVER" => q.snap.isVisibleInDispatch
    /\ account' = [account EXCEPT ![u].forceLogoutAt = FALSE,
                                  ![u].isOnline = IF q.snap.role = "DRIVER" THEN TRUE ELSE @]
    /\ sessions' = sessions \cup {[user |-> u, authVersion |-> account[u].authVersion,
                                   password |-> q.snap.password, role |-> q.snap.role,
                                   email |-> q.snap.email, epoch |-> q.epoch]}
    /\ Respond(r)
    /\ UNCHANGED <<resets, changes, epoch>>

\* The update is conditional on what was read, then the token is signed.
LoginCommit(r) ==
    LET q == req[r]
        u == q.user
    IN
    /\ At(r, "login", "check")
    /\ ~q.snap.passwordChangeRequired
    /\ q.snap.role = "DRIVER" => q.snap.isVisibleInDispatch
    /\ account[u].isActive
    /\ account[u].authVersion = q.snap.authVersion
    /\ account[u].password = q.snap.password
    /\ ~account[u].passwordChangeRequired
    /\ account' = [account EXCEPT ![u].forceLogoutAt = FALSE,
                                  ![u].isOnline = IF q.snap.role = "DRIVER" THEN TRUE ELSE @]
    /\ sessions' = sessions \cup {[user |-> u, authVersion |-> q.snap.authVersion,
                                   password |-> q.snap.password, role |-> q.snap.role,
                                   email |-> q.snap.email, epoch |-> q.epoch]}
    /\ Respond(r)
    /\ UNCHANGED <<resets, changes, epoch>>

requireAuth(s) ==
    LET row == account[s.user] IN
    /\ row.isActive
    /\ ~row.passwordChangeRequired
    /\ s.authVersion = row.authVersion
    /\ ~row.forceLogoutAt

-----------------------------------------------------------------------------
(***************************************************************************)
(* Driver presence                                                         *)
(***************************************************************************)

\* requireAuth and requireRole let a call in: heartbeat stands for online too.
PresenceAuth(r, s, kind) ==
    /\ requireAuth(s)
    /\ account[s.user].role = "DRIVER"
    /\ Start(r, kind, "read", s.user)
    /\ UNCHANGED <<account, Tokens, epoch>>

\* The handler reads the row again; a hidden or deactivated driver is refused,
\* unless to go offline.
PresenceRead(r) ==
    LET u == req[r].user IN
    /\ req[r].kind \in {"heartbeat", "offline"}
    /\ req[r].pc = "read"
    /\ req[r].kind = "heartbeat" => account[u].isActive /\ account[u].isVisibleInDispatch
    /\ req' = [req EXCEPT ![r].pc = "write"]
    /\ UNCHANGED <<account, Tokens, epoch>>

\* The update by id alone.
PresenceCommit(r) ==
    /\ req[r].kind \in {"heartbeat", "offline"}
    /\ req[r].pc = "write"
    /\ account' = [account EXCEPT ![req[r].user].isOnline = (req[r].kind = "heartbeat")]
    /\ Respond(r)
    /\ UNCHANGED <<Tokens, epoch>>

-----------------------------------------------------------------------------
(***************************************************************************)
(* The staff page of administrators                                        *)
(***************************************************************************)

\* The administrator opens a profile with the revision it shows.
EditOpen(r, u) ==
    /\ Start(r, "edit", "write", u)
    /\ UNCHANGED <<account, Tokens, epoch>>

\* The columns that revoke sessions, all of them in one write. It also clears the push
\* token and the location of a driver, which nothing here reads.
SignedOut(row) == [row EXCEPT !.authVersion = @ + 1, !.isOnline = FALSE,
                              !.forceLogoutAt = FALSE]

\* updateStaffProfile: a new name, and perhaps a new email or role.
changeStaffProfile(row, role, email) ==
    LET new == [row EXCEPT !.role = role, !.email = email, !.profile = @ + 1,
                           !.staffRevision = @ + 1]
    IN  IF role # row.role \/ email # row.email THEN SignedOut(new) ELSE new

\* A deactivation and a reactivation both sign out.
changeStaffStatus(row, isActive) ==
    LET new == [row EXCEPT !.isActive = isActive, !.staffRevision = @ + 1]
    IN  IF isActive /\ row.isActive THEN new ELSE SignedOut(new)

\* A temporary password, that must be changed.
changeStaffTemporaryPassword(row, p) ==
    SignedOut([row EXCEPT !.password = p, !.passwordChangeRequired = TRUE,
                          !.staffRevision = @ + 1])

\* changeStaff with a profile: one transaction under the account's row lock. A
\* driver with unfinished deliveries is refused (AllocationLocks).
EditProfile(r, role, email) ==
    LET u == req[r].user IN
    /\ At(r, "edit", "write")
    /\ InBound(u)
    /\ account[u].staffRevision = req[r].snap.staffRevision
    /\ account' = [account EXCEPT ![u] = changeStaffProfile(@, role, email)]
    /\ IF role # account[u].role \/ email # account[u].email
       THEN Revoke(u) ELSE UNCHANGED epoch
    /\ Respond(r)
    /\ UNCHANGED Tokens

\* changeStaff with a status.
EditStatus(r, isActive) ==
    LET u == req[r].user IN
    /\ At(r, "edit", "write")
    /\ InBound(u)
    /\ account[u].staffRevision = req[r].snap.staffRevision
    /\ account' = [account EXCEPT ![u] = changeStaffStatus(@, isActive)]
    /\ IF isActive /\ account[u].isActive THEN UNCHANGED epoch ELSE Revoke(u)
    /\ Respond(r)
    /\ UNCHANGED Tokens

\* changeStaff with a password, of an active account.
EditPassword(r, p) ==
    LET u == req[r].user IN
    /\ At(r, "edit", "write")
    /\ InBound(u)
    /\ account[u].staffRevision = req[r].snap.staffRevision
    /\ account[u].isActive
    /\ account' = [account EXCEPT ![u] = changeStaffTemporaryPassword(@, p)]
    /\ Revoke(u)
    /\ Respond(r)
    /\ UNCHANGED Tokens

-----------------------------------------------------------------------------
(***************************************************************************)
(* Force logout and visibility: single updates by id                       *)
(***************************************************************************)

\* What both force logouts, and hiding a driver, write.
ForceLogout(row) == [Bumped(row) EXCEPT !.isOnline = FALSE, !.forceLogoutAt = TRUE]

forceLogoutDispatcher(u) ==
    /\ InBound(u)
    /\ account[u].role = "DISPATCHER"
    /\ account' = [account EXCEPT ![u] = ForceLogout(@)]
    /\ Revoke(u)
    /\ UNCHANGED <<Tokens, req>>

\* The role is read before the update of the next two.
adminDriverRead(r, u) ==
    /\ account[u].role = "DRIVER"
    /\ Start(r, "adminDriver", "write", u)
    /\ UNCHANGED <<account, Tokens, epoch>>

forceLogoutDriver(r) ==
    LET u == req[r].user IN
    /\ At(r, "adminDriver", "write")
    /\ InBound(u)
    /\ account' = [account EXCEPT ![u] = ForceLogout(@)]
    /\ Revoke(u)
    /\ Respond(r)
    /\ UNCHANGED Tokens

\* Mutant: the staff page does not notice a driver shown again.
updateVisibility_RevisionKept(r) ==
    LET u == req[r].user IN
    /\ At(r, "adminDriver", "write")
    /\ InBound(u)
    /\ \/ /\ account' = [account EXCEPT ![u].isVisibleInDispatch = TRUE]
          /\ UNCHANGED epoch
       \/ /\ account' = [account EXCEPT ![u] =
                [ForceLogout(@) EXCEPT !.isVisibleInDispatch = FALSE]]
          /\ Revoke(u)
    /\ Respond(r)
    /\ UNCHANGED Tokens

\* updateDriverDispatchVisibilityController; a hidden driver is signed out.
updateVisibility(r) ==
    LET u == req[r].user IN
    /\ At(r, "adminDriver", "write")
    /\ InBound(u)
    /\ \/ /\ account' = [account EXCEPT ![u].isVisibleInDispatch = TRUE,
                                        ![u].staffRevision = @ + 1]
          /\ UNCHANGED epoch
       \/ /\ account' = [account EXCEPT ![u] =
                [ForceLogout(@) EXCEPT !.isVisibleInDispatch = FALSE]]
          /\ Revoke(u)
    /\ Respond(r)
    /\ UNCHANGED Tokens

-----------------------------------------------------------------------------
(***************************************************************************)
(* What staff change themselves                                            *)
(***************************************************************************)

\* updateMyProfileController: the account of the session is read, then its name
\* is written by id.
updateMyProfileRead(r, s) ==
    /\ requireAuth(s)
    /\ Start(r, "profile", "write", s.user)
    /\ UNCHANGED <<account, Tokens, epoch>>

updateMyProfile(r) ==
    LET u == req[r].user IN
    /\ At(r, "profile", "write")
    /\ InBound(u)
    /\ account' = [account EXCEPT ![u].profile = @ + 1, ![u].staffRevision = @ + 1]
    /\ Respond(r)
    /\ UNCHANGED <<Tokens, epoch>>

\* changeStaffPassword reads the account of a change token and hashes.
ChangePasswordRead(r, t) ==
    /\ account[t.user].isActive
    /\ account[t.user].authVersion = t.authVersion
    /\ Start(r, "changePassword", "write", t.user)
    /\ UNCHANGED <<account, Tokens, epoch>>

\* Mutant: the account is updated by id.
ChangePasswordCommit_ById(r, p) ==
    LET q == req[r]
        u == q.user
    IN
    /\ At(r, "changePassword", "write")
    /\ InBound(u)
    /\ p # q.snap.password
    /\ account' = [account EXCEPT ![u] =
          [Bumped(@) EXCEPT !.password = p, !.passwordChangeRequired = FALSE,
                            !.isOnline = FALSE, !.forceLogoutAt = FALSE]]
    /\ changes' = changes \cup {[user |-> u, authVersion |-> q.snap.authVersion]}
    /\ Revoke(u)
    /\ Respond(r)
    /\ UNCHANGED <<sessions, resets>>

\* A different password, conditional on the version of the token.
ChangePasswordCommit(r, p) ==
    LET q == req[r]
        u == q.user
    IN
    /\ At(r, "changePassword", "write")
    /\ InBound(u)
    /\ p # q.snap.password
    /\ account[u].isActive
    /\ account[u].authVersion = q.snap.authVersion
    /\ account' = [account EXCEPT ![u] =
          [Bumped(@) EXCEPT !.password = p, !.passwordChangeRequired = FALSE,
                            !.isOnline = FALSE, !.forceLogoutAt = FALSE]]
    /\ changes' = changes \cup {[user |-> u, authVersion |-> q.snap.authVersion]}
    /\ Revoke(u)
    /\ Respond(r)
    /\ UNCHANGED <<sessions, resets>>

\* A handler refuses, fails or dies before its write.
Stop(r) ==
    /\ req[r].pc # "idle"
    /\ Respond(r)
    /\ UNCHANGED <<account, Tokens, epoch>>

-----------------------------------------------------------------------------
RequestStep(r) ==
    \/ \E u \in Staff, p \in Passwords : LoginRead(r, u, p)
    \/ LoginForChange(r)
    \/ LoginCommit(r)
    \/ \E s \in sessions, kind \in {"heartbeat", "offline"} : PresenceAuth(r, s, kind)
    \/ PresenceRead(r)
    \/ PresenceCommit(r)
    \/ \E u \in Staff : EditOpen(r, u)
    \/ \E role \in Roles, new \in {0, 1} :
          EditProfile(r, role, req[r].snap.email + new)
    \/ \E isActive \in BOOLEAN : EditStatus(r, isActive)
    \/ \E p \in Passwords : EditPassword(r, p)
    \/ \E u \in Staff : adminDriverRead(r, u)
    \/ forceLogoutDriver(r)
    \/ updateVisibility(r)
    \/ \E s \in sessions : updateMyProfileRead(r, s)
    \/ updateMyProfile(r)
    \/ \E t \in resets : ChangePasswordRead(r, t)
    \/ \E p \in Passwords : ChangePasswordCommit(r, p)
    \/ Stop(r)

Next ==
    \/ \E r \in Requests : RequestStep(r)
    \/ \E u \in Staff : forceLogoutDispatcher(u)

Spec == Init /\ [][Next]_vars

-----------------------------------------------------------------------------
(***************************************************************************)
(* Properties                                                              *)
(***************************************************************************)

\* "Deactivation rejects login and existing sessions. Reactivation requires a new
\* sign-in. Editing email or role also revokes sessions." A session that
\* requireAuth accepts was signed for a password verified after the last time the
\* access was taken away, for the present password, role and email, although a
\* login verifies a password while the account changes, and a later login of the
\* same account clears forceLogoutAt.
SessionsCurrent ==
    \A s \in sessions : requireAuth(s) =>
        /\ s.epoch = epoch[s.user]
        /\ s.password = account[s.user].password
        /\ s.role = account[s.user].role
        /\ s.email = account[s.user].email

\* Password-change credentials "become unusable after a password/access change":
\* each version of an account sees at most one password change, and it is made by
\* a credential of that very version.
ChangeTokenUsedOnce ==
    [][\A u \in Staff : account'[u].password # account[u].password =>
          \/ account'[u].passwordChangeRequired
          \/ /\ [user |-> u, authVersion |-> account[u].authVersion] \in resets
             /\ [user |-> u, authVersion |-> account[u].authVersion] \in changes' \ changes]_vars

\* "staffRevision detects competing account edits": an administrator's save goes
\* through only while the account shows what the administrator was shown.
EditsSeeCurrentRow ==
    \A r \in Requests :
        /\ req[r].kind = "edit"
        /\ req[r].snap.staffRevision = account[req[r].user].staffRevision
        => Shown(req[r].snap) = Shown(account[req[r].user])
=============================================================================
