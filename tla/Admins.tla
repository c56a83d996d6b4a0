------------------------------- MODULE Admins -------------------------------
(***************************************************************************)
(* The accounts of the admins: sign-up, sign-in, sessions (AuthService)    *)
(* and change of password (UserService).  Unlike a subscriber's, an        *)
(* admin's sign-up stores a session at once and waits for no code.         *)
(*                                                                         *)
(* A stored hash matches every refresh token of its owner (bcrypt reads no *)
(* further than the part of a token that names the owner), so what matters *)
(* of hashedRt is whether there is one.                                    *)
(***************************************************************************)
EXTENDS Platform, Naturals

CONSTANTS
    Addresses,       \* e-mail addresses admins sign up with
    Secrets,         \* passwords
    Desks            \* bound: requests in flight at the same time

ASSUME AdminsAssumption == None \notin Secrets \cup Addresses

VARIABLES
    admin,           \* the table of the admins
    desk,            \* the requests in flight
    letters          \* the kinds of mail handed to the queue for each of them

adminVars == <<admin, desk, letters>>

Admin == [password: Secrets \cup {None}, hashedRt: BOOLEAN]

\* No row yet; nothing deletes one.
NoAdmin == [password |-> None, hashedRt |-> FALSE]

SignedUp(a) == admin[a].password # None

\* old: the password that was compared (of a sign-up, that was saved); new: to
\* be saved.  stale (history): the password was written since.
DeskRequest ==
    [pc: {"idle", "save", "store", "change", "mail"},
     user: Addresses \cup {None}, old: Secrets \cup {None},
     new: Secrets \cup {None}, signUp: BOOLEAN, stale: BOOLEAN]

NoDesk ==
    [pc |-> "idle", user |-> None, old |-> None, new |-> None,
     signUp |-> FALSE, stale |-> FALSE]

AdminsTypeOK ==
    /\ admin \in [Addresses -> Admin]
    /\ desk \in [Desks -> DeskRequest]
    /\ letters \in [Addresses -> SUBSET {"login", "changed"}]

AdminsInit ==
    /\ admin = [a \in Addresses |-> NoAdmin]
    /\ desk = [r \in Desks |-> NoDesk]
    /\ letters = [a \in Addresses |-> {}]

Begin(r, q) ==
    /\ desk[r].pc = "idle"
    /\ desk' = [desk EXCEPT ![r] = q]
    /\ UNCHANGED <<admin, letters>>

\* The password of a is written: q is what becomes of r, the others are stale.
AfterWrite(r, a, q) ==
    [x \in Desks |->
        IF x = r THEN q
        ELSE IF desk[x].user = a THEN [desk[x] EXCEPT !.stale = TRUE] ELSE desk[x]]

(***************************************************************************)
(* AuthService.signupLocal: look for the address, save, store a session.   *)
(***************************************************************************)
signupLocal(r, a, p) ==
    /\ ~SignedUp(a)
    /\ Begin(r, [NoDesk EXCEPT !.pc = "save", !.user = a, !.new = p, !.signUp = TRUE])

\* Mutant: save overwrites the row of the address.
EmailFree(a) == TRUE

\* email is unique: the second of two sign-ups is rejected here.
EmailUnused(a) == ~SignedUp(a)

SaveAdmin(r) ==
    LET a == desk[r].user IN
    /\ desk[r].pc = "save"
    /\ IF EmailUnused(a)
       THEN /\ admin' = [admin EXCEPT ![a] =
                  [password |-> desk[r].new, hashedRt |-> admin[a].hashedRt]]
            /\ desk' = AfterWrite(r, a,
                  [desk[r] EXCEPT !.pc = "store", !.old = desk[r].new])
       ELSE /\ desk' = [desk EXCEPT ![r] = NoDesk]
            /\ UNCHANGED admin
    /\ UNCHANGED letters

(***************************************************************************)
(* Sessions.                                                               *)
(***************************************************************************)
signinLocal(r, a) ==
    /\ SignedUp(a)
    /\ Begin(r, [NoDesk EXCEPT !.pc = "store", !.user = a, !.old = admin[a].password])

\* A sign-up is over then; a sign-in goes on to mail.
updateRtHash(r) ==
    LET q == desk[r] IN
    /\ q.pc = "store"
    /\ admin' = [admin EXCEPT ![q.user] =
          [password |-> admin[q.user].password, hashedRt |-> TRUE]]
    /\ desk' = [desk EXCEPT ![r] =
          IF q.signUp THEN NoDesk ELSE [NoDesk EXCEPT !.pc = "mail", !.user = q.user]]
    /\ UNCHANGED letters

logout(a) ==
    /\ SignedUp(a)
    /\ admin' = [admin EXCEPT ![a] = [password |-> admin[a].password, hashedRt |-> FALSE]]
    /\ UNCHANGED <<desk, letters>>

\* It answers new tokens, and stores nothing: updateRtHash is handed the id
\* and reads the property id of it, WHERE id = NULL.
refreshTokens(a) ==
    /\ admin[a].hashedRt
    /\ UNCHANGED adminVars

(***************************************************************************)
(* UserService.passwordChanged: compare, write by id, mail.                *)
(***************************************************************************)
\* Mutant: the old password is not compared.
AnyPassword(a) == Secrets

\* compareUserPassword: the old password the caller may give.
OldPassword(a) == {admin[a].password}

passwordChanged(r, a, p) ==
    /\ SignedUp(a)
    /\ \E old \in OldPassword(a) :
          Begin(r, [NoDesk EXCEPT !.pc = "change", !.user = a, !.old = old, !.new = p])

ChangePassword(r) ==
    LET q == desk[r] IN
    /\ q.pc = "change"
    /\ admin' = [admin EXCEPT ![q.user] =
          [password |-> q.new, hashedRt |-> admin[q.user].hashedRt]]
    /\ desk' = AfterWrite(r, q.user,
          [NoDesk EXCEPT !.pc = "mail", !.user = q.user, !.new = q.new])
    /\ UNCHANGED letters

\* The mail of a sign-in or of a change of password; the request is over.
MailAdmin(r) ==
    LET q == desk[r] IN
    /\ q.pc = "mail"
    /\ letters' = [letters EXCEPT ![q.user] =
          letters[q.user] \cup {IF q.new = None THEN "login" ELSE "changed"}]
    /\ desk' = [desk EXCEPT ![r] = NoDesk]
    /\ UNCHANGED admin

\* A statement or the queue rejects the call, or the process dies.
DeskFails(r) ==
    /\ Faults
    /\ desk[r].pc # "idle"
    /\ desk' = [desk EXCEPT ![r] = NoDesk]
    /\ UNCHANGED <<admin, letters>>

AdminsNext ==
    \/ \E r \in Desks, a \in Addresses :
          \/ signinLocal(r, a)
          \/ \E p \in Secrets : signupLocal(r, a, p) \/ passwordChanged(r, a, p)
    \/ \E r \in Desks :
          \/ SaveAdmin(r) \/ updateRtHash(r) \/ ChangePassword(r)
          \/ MailAdmin(r) \/ DeskFails(r)
    \/ \E a \in Addresses : logout(a) \/ refreshTokens(a)

AdminsSpec == AdminsInit /\ [][AdminsNext]_adminVars

(***************************************************************************)
(* Properties.                                                             *)
(***************************************************************************)
\* An admin's password changes only under a request that compared the one it
\* replaces, and a session starts only under a sign-up or sign-in that knows
\* the current one - unless another request wrote the password between the
\* comparison and the write, which goes by id alone.  In particular the second
\* of two sign-ups with one address takes nothing over, and a refresh that a
\* logout has overtaken does not bring the session back.
AdminsByRight ==
    [][\A a \in Addresses :
          /\ (SignedUp(a) /\ admin'[a].password # admin[a].password) =>
                \E r \in Desks :
                   /\ desk[r].pc = "change" /\ desk[r].user = a /\ desk'[r].pc = "mail"
                   /\ desk[r].stale \/ desk[r].old = admin[a].password
          /\ (admin'[a].hashedRt /\ ~admin[a].hashedRt) =>
                \E r \in Desks :
                   /\ desk[r].pc = "store" /\ desk[r].user = a
                   /\ desk'[r].pc \in {"idle", "mail"}
                   /\ desk[r].stale \/ desk[r].old = admin[a].password]_adminVars
=============================================================================
