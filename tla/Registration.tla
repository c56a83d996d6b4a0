---------------------------- MODULE Registration ----------------------------
(***************************************************************************)
(* How accounts come to be: signupLocal mails a code and saves a Draft     *)
(* account with it, verifyOtp turns the Draft Active, resendOtp replaces   *)
(* the code, createTeam saves an account that needs no code, and the admin *)
(* sets any status.  A handler is a process of single database or queue    *)
(* statements, outside any transaction.                                    *)
(*                                                                         *)
(* Codes are drawn at random; here they are distinct.  A verification that *)
(* comes too late is refused, which writes nothing, so the hour itself is  *)
(* left out: FindCode is a verification in time.                           *)
(***************************************************************************)
EXTENDS Naturals, FiniteSets

CONSTANTS
    Accounts,        \* the values the id sequence of "subscriberUser" may hand out
    Emails,          \* the addresses people sign up with
    Codes,           \* bound: the codes that may be drawn
    Requests,        \* bound: handlers in flight at the same time
    None             \* NULL

ASSUME RegistrationAssumption ==
    None \notin Accounts \cup Emails \cup Codes \cup Requests

VARIABLES
    account,         \* the subscriberUser table
    workspaces,      \* accounts that created a workspace
    installed,       \* accounts with the first integration installed
    drawn,           \* codes drawn so far
    outbox,          \* codes handed to the mail queue
    halfMade,        \* history: accounts whose provisioning broke off
    unsent,          \* history: codes stored, and never handed over
    req              \* the handlers in flight

vars == <<account, workspaces, installed, drawn, outbox, halfMade, unsent, req>>

\* Banned stands for every status that is neither Draft nor Active.
StatusField == {"Draft", "Active", "Banned"}

(***************************************************************************)
(* loose is history: the account left Draft with its code still in the     *)
(* row, or was given one after it had left.                                *)
(***************************************************************************)
Account ==
    [state: {"free", "live", "gone"}, email: Emails \cup {None},
     status: StatusField, otpCode: Codes \cup {None},
     parentId: Accounts \cup {None}, loose: BOOLEAN]

FreeRow ==
    [state |-> "free", email |-> None, status |-> "Active", otpCode |-> None,
     parentId |-> None, loose |-> FALSE]

(***************************************************************************)
(* loose is what verifyOtp saw of the row; stale is history: the row that  *)
(* verifyOtp or resendOtp has found was written by another handler since.  *)
(***************************************************************************)
Request ==
    [pc: {"idle", "mail", "save", "saveTeam", "session", "findUser", "workspace",
          "install", "writeCode", "mailCode", "verify"},
     email: Emails \cup {None}, code: Codes \cup {None},
     account: Accounts \cup {None}, parent: Accounts \cup {None},
     loose: BOOLEAN, stale: BOOLEAN]

Idle ==
    [pc |-> "idle", email |-> None, code |-> None, account |-> None,
     parent |-> None, loose |-> FALSE, stale |-> FALSE]

Provisioning == {"session", "findUser", "workspace", "install"}

TypeOK ==
    /\ account \in [Accounts -> Account]
    /\ workspaces \subseteq Accounts /\ installed \subseteq Accounts
    /\ halfMade \subseteq Accounts
    /\ drawn \subseteq Codes /\ outbox \subseteq drawn /\ unsent \subseteq drawn
    /\ req \in [Requests -> Request]
    /\ \A r \in Requests :
          /\ req[r].pc \in Provisioning \cup {"writeCode", "mailCode", "verify"}
                => req[r].account # None
          /\ req[r].pc \in {"mail", "save", "writeCode", "mailCode"}
                => req[r].code \in drawn

Live(a) == account[a].state = "live"

InFlight == {r \in Requests : req[r].pc # "idle"}

\* Bound: a handler starts only while there is an id left for its account.
RoomForAccount ==
    Cardinality(InFlight) < Cardinality({a \in Accounts : account[a].state = "free"})

EmailTaken(e) == \E a \in Accounts : Live(a) /\ account[a].email = e

\* Requests as they are once r is at c and account a has been written.
Overtaken(a, r, c) ==
    [q \in Requests |->
        IF q = r THEN c
        ELSE IF req[q].account = a THEN [req[q] EXCEPT !.stale = TRUE]
        ELSE req[q]]

\* The history variables and the rows of other tables.
Rest == <<workspaces, installed, halfMade, unsent>>

(***************************************************************************)
(* signupLocal: look for the address, mail a code, save the account with   *)
(* it, then the refresh hash, the default workspace and the first          *)
(* integration.                                                            *)
(***************************************************************************)
CheckSignup(r, e) ==
    /\ RoomForAccount
    /\ req[r].pc = "idle"
    /\ ~EmailTaken(e)
    /\ \E c \in Codes \ drawn :
         /\ drawn' = drawn \cup {c}
         /\ req' = [req EXCEPT ![r] = [Idle EXCEPT !.pc = "mail", !.email = e, !.code = c]]
    /\ UNCHANGED <<account, outbox, Rest>>

\* emailVerification: the code is on its way before there is an account.
MailSignup(r) ==
    /\ req[r].pc = "mail"
    /\ outbox' = outbox \cup {req[r].code}
    /\ req' = [req EXCEPT ![r].pc = "save"]
    /\ UNCHANGED <<account, drawn, Rest>>

\* Mutant: the id of the saved row is not handed on to createWorkspace.
SaveForgettingId(r, a, row, next) ==
    /\ account[a].state = "free"
    /\ \/ /\ ~EmailTaken(req[r].email)
          /\ account' = [account EXCEPT ![a] = row]
          /\ req' = [req EXCEPT ![r].pc = next]
       \/ /\ EmailTaken(req[r].email)
          /\ req' = [req EXCEPT ![r] = Idle]
          /\ UNCHANGED account
    /\ UNCHANGED <<drawn, outbox, Rest>>

\* The unique column email refuses a second row.
Save(r, a, row, next) ==
    /\ account[a].state = "free"
    /\ \/ /\ ~EmailTaken(req[r].email)
          /\ account' = [account EXCEPT ![a] = row]
          /\ req' = [req EXCEPT ![r].pc = next, ![r].account = a]
       \/ /\ EmailTaken(req[r].email)
          /\ req' = [req EXCEPT ![r] = Idle]
          /\ UNCHANGED account
    /\ UNCHANGED <<drawn, outbox, Rest>>

SaveSignup(r) ==
    /\ req[r].pc = "save"
    /\ \E a \in Accounts :
          Save(r, a, [FreeRow EXCEPT !.state = "live", !.email = req[r].email,
                                     !.status = "Draft", !.otpCode = req[r].code],
               "session")

\* updateRtHash: the hash of the new token, whose column Credentials is about.
UpdateRtHash(r) ==
    /\ req[r].pc = "session"
    /\ req' = [req EXCEPT ![r].pc = "findUser"]
    /\ UNCHANGED <<account, drawn, outbox, Rest>>

\* createWorkspace first looks the account up, and throws if it is not there.
FindOwner(r) ==
    /\ req[r].pc = "findUser"
    /\ req' = [req EXCEPT ![r] =
           IF Live(req[r].account) THEN [req[r] EXCEPT !.pc = "workspace"] ELSE Idle]
    /\ UNCHANGED <<account, drawn, outbox, Rest>>

\* Mutant: signupLocal answers once there is a workspace.
SaveWorkspaceOnly(r) ==
    /\ req[r].pc = "workspace"
    /\ workspaces' = workspaces \cup {req[r].account}
    /\ req' = [req EXCEPT ![r] = Idle]
    /\ UNCHANGED <<account, installed, drawn, outbox, halfMade, unsent>>

SaveWorkspace(r) ==
    /\ req[r].pc = "workspace"
    /\ workspaces' = workspaces \cup {req[r].account}
    /\ req' = [req EXCEPT ![r] =
           IF req[r].parent = None THEN [req[r] EXCEPT !.pc = "install"] ELSE Idle]
    /\ UNCHANGED <<account, installed, drawn, outbox, halfMade, unsent>>

\* updateIntegration(1), whose own statements are the subject of Integration.
InstallFirst(r) ==
    /\ req[r].pc = "install"
    /\ installed' = installed \cup {req[r].account}
    /\ req' = [req EXCEPT ![r] = Idle]
    /\ UNCHANGED <<account, workspaces, drawn, outbox, halfMade, unsent>>

(***************************************************************************)
(* resendOtp: find a Draft by its address, write a new code by id, mail it.*)
(***************************************************************************)
FindDraft(r, a) ==
    /\ req[r].pc = "idle"
    /\ Live(a) /\ account[a].status = "Draft"
    /\ \E c \in Codes \ drawn :
         /\ drawn' = drawn \cup {c}
         /\ req' = [req EXCEPT ![r] =
                [Idle EXCEPT !.pc = "writeCode", !.account = a, !.code = c]]
    /\ UNCHANGED <<account, outbox, Rest>>

\* Mutant: the handler answers without mailing the code it has stored.
WriteCodeOnly(r) ==
    LET a == req[r].account
    IN  /\ req[r].pc = "writeCode"
        /\ account' = IF Live(a)
                      THEN [account EXCEPT ![a].otpCode = req[r].code,
                                           ![a].loose = account[a].status # "Draft"]
                      ELSE account
        /\ req' = Overtaken(a, r, Idle)
        /\ UNCHANGED <<drawn, outbox, Rest>>

\* The UPDATE names the id alone, so it also reaches one no longer Draft.
WriteCode(r) ==
    LET a == req[r].account
    IN  /\ req[r].pc = "writeCode"
        /\ account' = IF Live(a)
                      THEN [account EXCEPT ![a].otpCode = req[r].code,
                                           ![a].loose = account[a].status # "Draft"]
                      ELSE account
        /\ req' = Overtaken(a, r, [req[r] EXCEPT !.pc = "mailCode"])
        /\ UNCHANGED <<drawn, outbox, Rest>>

MailCode(r) ==
    /\ req[r].pc = "mailCode"
    /\ outbox' = outbox \cup {req[r].code}
    /\ req' = [req EXCEPT ![r] = Idle]
    /\ UNCHANGED <<account, drawn, Rest>>

(***************************************************************************)
(* verifyOtp: find the account by its code, then write it by its id.  The  *)
(* caller has read the code in a mail.  Neither statement names a status.  *)
(***************************************************************************)
\* Mutant: an undefined code in the criteria finds any account.
FindUndefinedCode(r, a) ==
    /\ req[r].pc = "idle"
    /\ Live(a)
    /\ req' = [req EXCEPT ![r] =
           [pc |-> "verify", email |-> None, code |-> None, account |-> a,
            parent |-> None, loose |-> account[a].loose, stale |-> FALSE]]
    /\ UNCHANGED <<account, drawn, outbox, Rest>>

FindCode(r, a) ==
    /\ req[r].pc = "idle"
    /\ Live(a) /\ account[a].otpCode \in outbox
    /\ req' = [req EXCEPT ![r] =
           [pc |-> "verify", email |-> None, code |-> None, account |-> a,
            parent |-> None, loose |-> account[a].loose, stale |-> FALSE]]
    /\ UNCHANGED <<account, drawn, outbox, Rest>>

\* Mutant: the code stays in the row.
VerifyKeepingCode(r) ==
    LET a == req[r].account
    IN  /\ req[r].pc = "verify"
        /\ account' = IF Live(a) THEN [account EXCEPT ![a].status = "Active"] ELSE account
        /\ req' = Overtaken(a, r, Idle)
        /\ UNCHANGED <<drawn, outbox, Rest>>

Verify(r) ==
    LET a == req[r].account
    IN  /\ req[r].pc = "verify"
        /\ account' = IF Live(a)
                      THEN [account EXCEPT ![a] = [@ EXCEPT
                               !.status = "Active", !.otpCode = None, !.loose = FALSE]]
                      ELSE account
        /\ req' = Overtaken(a, r, Idle)
        /\ UNCHANGED <<drawn, outbox, Rest>>

(***************************************************************************)
(* The admin sets any status; the code, if there is one, stays.            *)
(***************************************************************************)
BannedUserByAdmin(a, status) ==
    /\ Live(a)
    /\ account' = [account EXCEPT ![a].status = status,
                      ![a].loose = account[a].otpCode # None /\ status # "Draft"]
    /\ req' = Overtaken(a, None, Idle)
    /\ UNCHANGED <<drawn, outbox, Rest>>

(***************************************************************************)
(* createTeam and deleteTeam.  A member is Active at once and gets no      *)
(* integration.  deleteTeam leaves the workspaces behind.                  *)
(***************************************************************************)
CheckTeam(r, p, e) ==
    /\ RoomForAccount
    /\ req[r].pc = "idle"
    /\ Live(p) /\ account[p].parentId = None
    /\ ~EmailTaken(e)
    /\ req' = [req EXCEPT ![r] = [Idle EXCEPT !.pc = "saveTeam", !.email = e, !.parent = p]]
    /\ UNCHANGED <<account, drawn, outbox, Rest>>

SaveTeam(r) ==
    /\ req[r].pc = "saveTeam"
    /\ \E a \in Accounts :
          Save(r, a, [FreeRow EXCEPT !.state = "live", !.email = req[r].email,
                                     !.parentId = req[r].parent],
               "findUser")

DeleteTeam(p, a) ==
    /\ Live(a) /\ account[a].parentId = p
    /\ account' = [account EXCEPT ![a] = [FreeRow EXCEPT !.state = "gone"]]
    /\ req' = Overtaken(a, None, Idle)
    /\ UNCHANGED <<drawn, outbox, Rest>>

(***************************************************************************)
(* A statement is rejected, or the process dies: what is written stays.    *)
(***************************************************************************)
Fail(r) ==
    /\ req[r].pc # "idle"
    /\ req' = [req EXCEPT ![r] = Idle]
    /\ halfMade' = IF req[r].pc \in Provisioning
                   THEN halfMade \cup {req[r].account} ELSE halfMade
    /\ unsent' = IF req[r].pc = "mailCode" THEN unsent \cup {req[r].code} ELSE unsent
    /\ UNCHANGED <<account, workspaces, installed, drawn, outbox>>

\* Profiles, logs and listings write nothing; taken only at rest, so that a
\* handler in flight without a next step still shows as a deadlock.
ReadOnly == InFlight = {} /\ UNCHANGED vars

Init ==
    /\ account = [a \in Accounts |-> FreeRow]
    /\ workspaces = {} /\ installed = {} /\ drawn = {} /\ outbox = {}
    /\ halfMade = {} /\ unsent = {}
    /\ req = [r \in Requests |-> Idle]

Next ==
    \/ \E r \in Requests :
          \/ MailSignup(r)
          \/ SaveSignup(r)
          \/ UpdateRtHash(r)
          \/ SaveTeam(r)
          \/ FindOwner(r)
          \/ SaveWorkspace(r)
          \/ InstallFirst(r)
          \/ WriteCode(r)
          \/ MailCode(r)
          \/ Verify(r)
          \/ Fail(r)
    \/ \E r \in Requests, e \in Emails : CheckSignup(r, e)
    \/ \E r \in Requests, p \in Accounts, e \in Emails : CheckTeam(r, p, e)
    \/ \E r \in Requests, a \in Accounts : FindDraft(r, a) \/ FindCode(r, a)
    \/ \E a \in Accounts, s \in StatusField : BannedUserByAdmin(a, s)
    \/ \E p, a \in Accounts : DeleteTeam(p, a)
    \/ ReadOnly

Spec == Init /\ [][Next]_vars

-----------------------------------------------------------------------------
(***************************************************************************)
(* Properties.                                                             *)
(***************************************************************************)
\* A code that would make its account Active is there only while the account
\* is Draft: verifyOtp clears it.  The exceptions are the two loose ones, a
\* status set over a code and a resend that a verification has overtaken.
CodeOnlyWhileDraft ==
    \A a \in Accounts :
        account[a].otpCode # None /\ account[a].status # "Draft" => account[a].loose

\* A ban stands: verifyOtp makes a banned account Active only through a code
\* that was loose, or when the ban came between its two statements.
BanStands ==
    [][\A a \in Accounts :
          Live(a) /\ account[a].status = "Banned" /\ account'[a].status = "Active" =>
              \/ \E s \in StatusField : BannedUserByAdmin(a, s)
              \/ ~Live(a)'
              \/ \E r \in Requests : /\ req[r].pc = "verify" /\ req[r].account = a
                                     /\ req[r].stale \/ req[r].loose]_vars

\* Every account has what signupLocal and createTeam give it, or is about to
\* get it, or its handler broke off: overlapping sign-ups lose nothing.
Provisioned ==
    \A a \in Accounts : Live(a) =>
        \/ a \in workspaces /\ (account[a].parentId = None => a \in installed)
        \/ a \in halfMade
        \/ \E r \in Requests : req[r].account = a /\ req[r].pc \in Provisioning

\* Whoever waits for the code of an account gets a mail with it: it has been
\* handed over, or is about to be, or the handler broke off just there.
CodeMailed ==
    \A a \in Accounts : account[a].otpCode # None =>
        \/ account[a].otpCode \in outbox \cup unsent
        \/ \E r \in Requests : req[r].pc = "mailCode" /\ req[r].code = account[a].otpCode
=============================================================================
