----------------------------- MODULE Credentials -----------------------------
(***************************************************************************)
(* Passwords, reset links and sessions of subscribers: forgotPass stores a *)
(* token and mails it as a link, changePasswordByForgotPass uses it up,    *)
(* passwordChanged asks for the old password, and sign-in, logout, refresh *)
(* and impersonation write the hash of the refresh token.  Each handler    *)
(* looks at the row of a user in one statement and writes it by id in a    *)
(* later one.                                                              *)
(*                                                                         *)
(* A hash of a refresh token is there or not: bcrypt compares the first 72 *)
(* bytes of a token, and those depend on the id and the address alone.     *)
(* Of a sign-up, the subject of Registration, the store of the hash is     *)
(* here: some users have just been saved by signupLocal, and are Draft.    *)
(* Mails that carry no link, changes of address and deletion are left out. *)
(***************************************************************************)
EXTENDS Naturals

CONSTANTS
    Users,           \* ids of users; only team members have an updateTeam
    Passwords,       \* what they may choose
    Tokens,          \* bound: reset tokens that may be drawn
    Requests,        \* bound: handlers in flight at the same time
    None             \* NULL

ASSUME CredentialsAssumption ==
    None \notin Users \cup Passwords \cup Tokens \cup Requests

VARIABLES
    row,             \* the columns of subscriberUser that this is about
    issued,          \* tokens drawn so far
    expired,         \* tokens whose passResetTokenExpireAt has passed
    mailed,          \* tokens handed to the mail queue as links
    spent,           \* history: tokens a password has been reset with
    replaced,        \* history: tokens overwritten by a newer one
    wiped,           \* history: tokens cleared by an overtaken reset
    req              \* the handlers in flight

vars == <<row, issued, expired, mailed, spent, replaced, wiped, req>>

\* Banned stands for every status other than Active, Draft among them.
Row ==
    [password: Passwords, passResetToken: Tokens \cup {None}, hashedRt: BOOLEAN,
     status: {"Active", "Banned"}]

(***************************************************************************)
(* old and token are what the handler has compared, new what it is to      *)
(* write.  History: late, the token had expired at that time; stale, the   *)
(* row has been written since.                                             *)
(***************************************************************************)
Request ==
    [pc: {"idle", "writeToken", "mailToken", "writeReset", "writeChange",
          "writeSession", "writeSignup", "writeRefreshed"},
     user: Users \cup {None}, token: Tokens \cup {None},
     old: Passwords \cup {None}, new: Passwords \cup {None},
     late: BOOLEAN, stale: BOOLEAN]

Idle ==
    [pc |-> "idle", user |-> None, token |-> None, old |-> None, new |-> None,
     late |-> FALSE, stale |-> FALSE]

TypeOK ==
    /\ row \in [Users -> Row]
    /\ issued \subseteq Tokens
    /\ expired \subseteq issued /\ mailed \subseteq issued
    /\ spent \subseteq mailed /\ replaced \subseteq issued /\ wiped \subseteq issued
    /\ req \in [Requests -> Request]
    /\ \A r \in Requests :
          /\ req[r].pc # "idle" => req[r].user # None
          /\ req[r].pc \in {"writeToken", "mailToken"} => req[r].token \in issued
          /\ req[r].pc = "writeReset" => req[r].token \in mailed
          /\ req[r].pc \in {"writeReset", "writeChange"} => req[r].new # None
    /\ \A u \in Users : row[u].passResetToken \in issued \cup {None}
    /\ \A u, v \in Users :
          row[u].passResetToken = row[v].passResetToken /\ row[u].passResetToken # None => u = v

\* Requests as they are once r is at c and the row of u has been written.
Overtaken(u, r, c) ==
    [q \in Requests |->
        IF q = r THEN c
        ELSE IF req[q].user = u THEN [req[q] EXCEPT !.stale = TRUE]
        ELSE req[q]]

Call(pc, u) == [Idle EXCEPT !.pc = pc, !.user = u]

(***************************************************************************)
(* forgotPass: find the user by address, store a token, mail the link.     *)
(***************************************************************************)
ForgotPass(r, u) ==
    /\ req[r].pc = "idle"
    /\ \E t \in Tokens \ issued :
         /\ issued' = issued \cup {t}
         /\ req' = [req EXCEPT ![r] = [Call("writeToken", u) EXCEPT !.token = t]]
    /\ UNCHANGED <<row, expired, mailed, spent, replaced, wiped>>

\* Mutant: the criteria of the UPDATE are empty.
UpdateEveryPassResetToken(r) ==
    /\ req[r].pc = "writeToken"
    /\ row' = [u \in Users |-> [row[u] EXCEPT !.passResetToken = req[r].token]]
    /\ req' = [req EXCEPT ![r].pc = "mailToken"]
    /\ UNCHANGED <<issued, expired, mailed, spent, replaced, wiped>>

UpdatePassResetToken(r) ==
    LET u == req[r].user
    IN  /\ req[r].pc = "writeToken"
        /\ row' = [row EXCEPT ![u].passResetToken = req[r].token]
        /\ replaced' = replaced \cup ({row[u].passResetToken} \ {None})
        /\ req' = Overtaken(u, r, [req[r] EXCEPT !.pc = "mailToken"])
        /\ UNCHANGED <<issued, expired, mailed, spent, wiped>>

MailLink(r) ==
    /\ req[r].pc = "mailToken"
    /\ mailed' = mailed \cup {req[r].token}
    /\ req' = [req EXCEPT ![r] = Idle]
    /\ UNCHANGED <<row, issued, expired, spent, replaced, wiped>>

(***************************************************************************)
(* changePasswordByForgotPass: find the user by the token of the link, set *)
(* the password by id.  The column passResetTokenExpireAt is not selected, *)
(* so the comparison with the current date is one with undefined, and no   *)
(* reset is refused for being late.                                        *)
(***************************************************************************)
ValidatePassResetToken(r, u, p) ==
    LET t == row[u].passResetToken
    IN  /\ req[r].pc = "idle"
        /\ t \in mailed
        /\ req' = [req EXCEPT ![r] =
               [pc |-> "writeReset", user |-> u, token |-> t, old |-> None,
                new |-> p, late |-> t \in expired, stale |-> FALSE]]
        /\ UNCHANGED <<row, issued, expired, mailed, spent, replaced, wiped>>

\* Mutant: the token stays.
UpdatePasswordKeepingToken(r) ==
    /\ req[r].pc = "writeReset"
    /\ row' = [row EXCEPT ![req[r].user].password = req[r].new]
    /\ spent' = spent \cup {req[r].token}
    /\ req' = Overtaken(req[r].user, r, Idle)
    /\ UNCHANGED <<issued, expired, mailed, replaced, wiped>>

\* Whatever token the row has by now is cleared, be it a newer one.
UpdateUserPasswordData(r) ==
    LET u == req[r].user
    IN  /\ req[r].pc = "writeReset"
        /\ row' = [row EXCEPT ![u].password = req[r].new, ![u].passResetToken = None]
        /\ spent' = spent \cup {req[r].token}
        /\ wiped' = IF req[r].stale
                    THEN wiped \cup ({row[u].passResetToken} \ {None, req[r].token})
                    ELSE wiped
        /\ req' = Overtaken(u, r, Idle)
        /\ UNCHANGED <<issued, expired, mailed, replaced>>

(***************************************************************************)
(* passwordChanged: compare the old password, write the new one by id.     *)
(***************************************************************************)
\* Mutant: the comparison's answer is not looked at.
CompareNothing(r, u, p) ==
    /\ req[r].pc = "idle"
    /\ \E old \in Passwords :
          req' = [req EXCEPT ![r] = [Call("writeChange", u) EXCEPT !.old = old, !.new = p]]
    /\ UNCHANGED <<row, issued, expired, mailed, spent, replaced, wiped>>

CompareUserPassword(r, u, p) ==
    /\ req[r].pc = "idle"
    /\ req' = [req EXCEPT ![r] =
           [Call("writeChange", u) EXCEPT !.old = row[u].password, !.new = p]]
    /\ UNCHANGED <<row, issued, expired, mailed, spent, replaced, wiped>>

\* Mutant: a pending reset is cancelled as well.
ChangeClearingToken(r) ==
    LET u == req[r].user
    IN  /\ req[r].pc = "writeChange"
        /\ row' = [row EXCEPT ![u].password = req[r].new, ![u].passResetToken = None]
        /\ req' = Overtaken(u, r, Idle)
        /\ UNCHANGED <<issued, expired, mailed, spent, replaced, wiped>>

\* A pending reset stays pending.
PasswordChanged(r) ==
    LET u == req[r].user
    IN  /\ req[r].pc = "writeChange"
        /\ row' = [row EXCEPT ![u].password = req[r].new]
        /\ req' = Overtaken(u, r, Idle)
        /\ UNCHANGED <<issued, expired, mailed, spent, replaced, wiped>>

\* updateTeam: the parent sets the password of a team member in one UPDATE.
UpdateTeam(u, p) ==
    /\ row' = [row EXCEPT ![u].password = p]
    /\ req' = Overtaken(u, None, Idle)
    /\ UNCHANGED <<issued, expired, mailed, spent, replaced, wiped>>

(***************************************************************************)
(* Sessions.  signinLocal finds an Active user and compares the password;  *)
(* loginToUserFromAdmin finds any user.  Both then store a hash by id.     *)
(***************************************************************************)
SigninLocal(r, u) ==
    /\ req[r].pc = "idle"
    /\ row[u].status = "Active"
    /\ req' = [req EXCEPT ![r] = [Call("writeSession", u) EXCEPT !.old = row[u].password]]
    /\ UNCHANGED <<row, issued, expired, mailed, spent, replaced, wiped>>

LoginToUserFromAdmin(r, u) ==
    /\ req[r].pc = "idle"
    /\ req' = [req EXCEPT ![r] = Call("writeSession", u)]
    /\ UNCHANGED <<row, issued, expired, mailed, spent, replaced, wiped>>

\* signupLocal does the same, once it has saved the account.
SignupLocal(u) == Call("writeSignup", u)

UpdateRtHash(r) ==
    /\ req[r].pc \in {"writeSession", "writeSignup"}
    /\ row' = [row EXCEPT ![req[r].user].hashedRt = TRUE]
    /\ req' = [req EXCEPT ![r] = Idle]
    /\ UNCHANGED <<issued, expired, mailed, spent, replaced, wiped>>

Logout(u) ==
    /\ row' = [row EXCEPT ![u].hashedRt = FALSE]
    /\ UNCHANGED <<issued, expired, mailed, spent, replaced, wiped, req>>

\* refreshTokens asks for a hash, of a user of any status.
RefreshTokens(r, u) ==
    /\ req[r].pc = "idle"
    /\ row[u].hashedRt
    /\ req' = [req EXCEPT ![r] = Call("writeRefreshed", u)]
    /\ UNCHANGED <<row, issued, expired, mailed, spent, replaced, wiped>>

\* Mutant: updateRtHash gets the object it expects.
RotateHash(r) ==
    /\ req[r].pc = "writeRefreshed"
    /\ row' = [row EXCEPT ![req[r].user].hashedRt = TRUE]
    /\ req' = [req EXCEPT ![r] = Idle]
    /\ UNCHANGED <<issued, expired, mailed, spent, replaced, wiped>>

\* updateRtHash gets the id and reads its property id: WHERE id = NULL.
UpdateNoRtHash(r) ==
    /\ req[r].pc = "writeRefreshed"
    /\ req' = [req EXCEPT ![r] = Idle]
    /\ UNCHANGED <<row, issued, expired, mailed, spent, replaced, wiped>>

\* The admin sets any status; to verifyOtp, which makes a Draft Active, the rest
\* of the row is all the same, and this stands for it.
BannedUserByAdmin(u, status) ==
    /\ row' = [row EXCEPT ![u].status = status]
    /\ req' = Overtaken(u, None, Idle)
    /\ UNCHANGED <<issued, expired, mailed, spent, replaced, wiped>>

\* An hour passes.
Expire(t) ==
    /\ t \in issued \ expired
    /\ expired' = expired \cup {t}
    /\ UNCHANGED <<row, issued, mailed, spent, replaced, wiped, req>>

\* A statement is rejected, or the process dies.
Fail(r) ==
    /\ req[r].pc # "idle"
    /\ req' = [req EXCEPT ![r] = Idle]
    /\ UNCHANGED <<row, issued, expired, mailed, spent, replaced, wiped>>

Init ==
    /\ req \in [Requests -> {Idle} \cup {SignupLocal(u) : u \in Users}]
    /\ \A q, r \in Requests : q # r => req[q].user # req[r].user \/ req[q] = Idle
    /\ row \in [Users -> [password: Passwords, passResetToken: {None},
                          hashedRt: BOOLEAN, status: {"Active", "Banned"}]]
    /\ \A u \in Users :
          IF \E r \in Requests : req[r].user = u
          THEN row[u].status = "Banned" /\ ~row[u].hashedRt
          ELSE row[u].status = "Active"
    /\ issued = {} /\ expired = {} /\ mailed = {}
    /\ spent = {} /\ replaced = {} /\ wiped = {}

Next ==
    \/ \E r \in Requests :
          \/ UpdatePassResetToken(r)
          \/ MailLink(r)
          \/ UpdateUserPasswordData(r)
          \/ PasswordChanged(r)
          \/ UpdateRtHash(r)
          \/ UpdateNoRtHash(r)
          \/ Fail(r)
    \/ \E r \in Requests, u \in Users :
          \/ ForgotPass(r, u)
          \/ SigninLocal(r, u)
          \/ LoginToUserFromAdmin(r, u)
          \/ RefreshTokens(r, u)
    \/ \E r \in Requests, u \in Users, p \in Passwords :
          ValidatePassResetToken(r, u, p) \/ CompareUserPassword(r, u, p)
    \/ \E u \in Users, p \in Passwords : UpdateTeam(u, p)
    \/ \E u \in Users, s \in {"Active", "Banned"} : BannedUserByAdmin(u, s)
    \/ \E u \in Users : Logout(u)
    \/ \E t \in Tokens : Expire(t)

Spec == Init /\ [][Next]_vars

-----------------------------------------------------------------------------
(***************************************************************************)
(* Properties.                                                             *)
(***************************************************************************)
\* A link in a mailbox works until it has been used or a newer one stored,
\* unless a reset that had been overtaken cleared it: changing the password,
\* signing in or being banned does not take it away.
LinkWorks ==
    \A t \in mailed :
        \/ \E u \in Users : row[u].passResetToken = t
        \/ t \in spent \cup replaced \cup wiped

\* changePasswordByForgotPass uses a token up: a second reset with it comes
\* only from a handler that had looked before the first one wrote.
TokenOnce ==
    [][\A r \in Requests :
          UpdateUserPasswordData(r) /\ req[r].token \in spent => req[r].stale]_vars

\* A password changes only under one who could prove a right to: the parent,
\* the reader of the current link, or who knew the password, as long as no
\* other write overtook the proof.
PasswordByRight ==
    [][\A u \in Users : row'[u].password # row[u].password =>
          \/ \E p \in Passwords : UpdateTeam(u, p)
          \/ \E r \in Requests :
                /\ req[r].user = u /\ req[r].pc \in {"writeReset", "writeChange"}
                /\ req'[r] = Idle
                /\ \/ req[r].stale
                   \/ req[r].pc = "writeReset" /\ req[r].token = row[u].passResetToken
                   \/ req[r].pc = "writeChange" /\ req[r].old = row[u].password]_vars

\* A logged-out user has a session again only by signing in, Active and with
\* the password, or through the admin, and a new user gets one from the sign-up
\* while still Draft - or from a handler another write has overtaken.  A refresh
\* overtaken by the logout does not bring the session back.
SessionByRight ==
    [][\A u \in Users : row'[u].hashedRt /\ ~row[u].hashedRt =>
          \E r \in Requests :
              /\ req[r].user = u /\ req'[r] = Idle
              /\ \/ req[r].pc = "writeSignup" /\ (req[r].stale \/ row[u].status # "Active")
                 \/ /\ req[r].pc = "writeSession"
                    /\ \/ req[r].stale
                       \/ req[r].old = None
                       \/ req[r].old = row[u].password /\ row[u].status = "Active"]_vars

\* A reset is refused once the token of its link has expired: what the comment
\* and the error message in changePasswordByForgotPass say.
ResetInTime ==
    \A r \in Requests : req[r].pc = "writeReset" => ~req[r].late
=============================================================================
