------------------------- MODULE RegistrationProofs -------------------------
(***************************************************************************)
(* Proofs about Registration, for every set of accounts, addresses, codes  *)
(* and handlers.                                                           *)
(***************************************************************************)
EXTENDS Registration, TLAPS

\* What TypeOK asks of a handler besides its record type.
Sound(q, codes) ==
    /\ q.pc \in Provisioning \cup {"writeCode", "mailCode", "verify"} => q.account # None
    /\ q.pc \in {"mail", "save", "writeCode", "mailCode"} => q.code \in codes

ReqOK(rs, codes) ==
    rs \in [Requests -> Request] /\ \A r \in Requests : Sound(rs[r], codes)

\* Moving one handler to a sound place keeps all of them sound.
LEMMA MoveType ==
    ASSUME TypeOK, NEW r \in Requests, NEW c \in Request, drawn \subseteq drawn',
           Sound(c, drawn'), req' = [req EXCEPT ![r] = c]
    PROVE  ReqOK(req', drawn')
  BY DEF TypeOK, ReqOK, Sound

\* Marking the other handlers of an account stale changes nothing else of them.
LEMMA OvertakenType ==
    ASSUME TypeOK, NEW a, NEW r, NEW c \in Request, Sound(c, drawn),
           req' = Overtaken(a, r, c)
    PROVE  /\ ReqOK(req', drawn)
           /\ r \in Requests => req'[r] = c
           /\ \A q \in Requests \ {r} :
                 /\ req'[q].pc = req[q].pc /\ req'[q].account = req[q].account
                 /\ req'[q].code = req[q].code /\ req'[q].parent = req[q].parent
                 /\ req'[q].loose = req[q].loose
                 /\ ~req'[q].stale => ~req[q].stale /\ req[q].account # a
  <1>0. /\ req \in [Requests -> Request]
        /\ \A q \in Requests : req[q] \in Request /\ Sound(req[q], drawn)
    BY DEF TypeOK, Sound
  <1>1. ASSUME NEW q \in Requests
        PROVE  LET marked == [req[q] EXCEPT !.stale = TRUE]
               IN  /\ marked \in Request /\ marked.pc = req[q].pc /\ marked.stale
                   /\ marked.account = req[q].account /\ marked.code = req[q].code
                   /\ marked.parent = req[q].parent /\ marked.loose = req[q].loose
    BY <1>0 DEF Request
  <1>2. \A q \in Requests :
           req'[q] = IF q = r THEN c
                     ELSE IF req[q].account = a THEN [req[q] EXCEPT !.stale = TRUE]
                     ELSE req[q]
    BY DEF Overtaken
  <1>3. ASSUME NEW q \in Requests \ {r}
        PROVE  /\ req'[q].pc = req[q].pc /\ req'[q].account = req[q].account
               /\ req'[q].code = req[q].code /\ req'[q].parent = req[q].parent
               /\ req'[q].loose = req[q].loose /\ req'[q] \in Request
               /\ ~req'[q].stale => ~req[q].stale /\ req[q].account # a
    <2> DEFINE marked == [req[q] EXCEPT !.stale = TRUE]
    <2>1. /\ marked \in Request /\ marked.pc = req[q].pc /\ marked.stale
          /\ marked.account = req[q].account /\ marked.code = req[q].code
          /\ marked.parent = req[q].parent /\ marked.loose = req[q].loose
      BY <1>1
    <2>2. req'[q] = IF req[q].account = a THEN marked ELSE req[q]
      BY <1>2
    <2> HIDE DEF marked
    <2> QED
      BY <1>0, <2>1, <2>2
  <1>4. r \in Requests => req'[r] = c
    BY <1>2
  <1>5. req' = [q \in Requests |-> req'[q]] /\ \A q \in Requests : req'[q] \in Request
    BY <1>3, <1>4 DEF Overtaken
  <1>6. \A q \in Requests : Sound(req'[q], drawn)
    BY <1>0, <1>3, <1>4 DEF Sound
  <1> QED
    BY <1>3, <1>4, <1>5, <1>6 DEF ReqOK

\* Fields of handlers and rows after the updates the actions make.
LEMMA IdleType == Idle \in Request /\ Idle.pc = "idle" /\ \A cs : Sound(Idle, cs)
  BY DEF Idle, Request, Sound, Provisioning

\* TypeOK is inductive.
LEMMA NextType ==
    TypeOK /\ [Next]_vars => TypeOK'
  <1> SUFFICES ASSUME TypeOK, [Next]_vars
               PROVE  TypeOK'
    OBVIOUS
  <1>0. /\ account \in [Accounts -> Account] /\ req \in [Requests -> Request]
        /\ workspaces \subseteq Accounts /\ installed \subseteq Accounts
        /\ halfMade \subseteq Accounts
        /\ drawn \subseteq Codes /\ outbox \subseteq drawn /\ unsent \subseteq drawn
        /\ \A r \in Requests : req[r] \in Request /\ Sound(req[r], drawn)
        /\ FreeRow \in Account
    BY DEF TypeOK, Sound, FreeRow, Account, StatusField
  <1>00. ASSUME ReqOK(req', drawn'), account' \in [Accounts -> Account],
                workspaces' \subseteq Accounts, installed' \subseteq Accounts,
                halfMade' \subseteq Accounts, drawn' \subseteq Codes,
                outbox' \subseteq drawn', unsent' \subseteq drawn'
         PROVE  TypeOK'
    BY <1>00 DEF TypeOK, ReqOK, Sound
  <1>1. ASSUME NEW r \in Requests, NEW e \in Emails, CheckSignup(r, e)
        PROVE  TypeOK'
    <2> PICK c \in Codes \ drawn :
           /\ drawn' = drawn \cup {c}
           /\ req' = [req EXCEPT ![r] = [Idle EXCEPT !.pc = "mail", !.email = e, !.code = c]]
      BY <1>1 DEF CheckSignup
    <2> DEFINE q == [Idle EXCEPT !.pc = "mail", !.email = e, !.code = c]
    <2>1. q \in Request /\ Sound(q, drawn')
      BY DEF Idle, Request, Sound, Provisioning
    <2>2. req' = [req EXCEPT ![r] = q]
      OBVIOUS
    <2> HIDE DEF q
    <2>3. ReqOK(req', drawn')
      BY <2>1, <2>2, MoveType
    <2> QED
      BY <1>0, <1>00, <1>1, <2>3 DEF CheckSignup, Rest
  <1>2. ASSUME NEW r \in Requests, MailSignup(r)
        PROVE  TypeOK'
    <2>1. [req[r] EXCEPT !.pc = "save"] \in Request
      BY <1>0 DEF Request
    <2>2. Sound([req[r] EXCEPT !.pc = "save"], drawn) /\ req[r].code \in drawn
      BY <1>0, <1>2 DEF Request, Sound, Provisioning, MailSignup
    <2>3. ReqOK(req', drawn')
      BY <1>2, <2>1, <2>2, MoveType DEF MailSignup
    <2> QED
      BY <1>0, <1>00, <1>2, <2>2, <2>3 DEF MailSignup, Rest
  <1>3. ASSUME NEW r \in Requests, NEW a \in Accounts, NEW row \in Account,
               NEW next \in {"session", "findUser"}, Save(r, a, row, next)
        PROVE  TypeOK'
    <2> DEFINE q == [req[r] EXCEPT !.pc = next, !.account = a]
    <2>1. q \in Request /\ Sound(q, drawn')
      BY <1>0, RegistrationAssumption DEF Request, Sound, Provisioning
    <2>2. req' = [req EXCEPT ![r] = q] \/ req' = [req EXCEPT ![r] = Idle]
      BY <1>0, <1>3 DEF Save
    <2> HIDE DEF q
    <2>3. drawn \subseteq drawn'
      BY <1>3 DEF Save
    <2>4. ReqOK(req', drawn')
      BY <2>1, <2>2, <2>3, IdleType, MoveType
    <2> QED
      BY <1>0, <1>00, <1>3, <2>4 DEF Save, Rest
  <1>4. ASSUME NEW r \in Requests, SaveSignup(r)
        PROVE  TypeOK'
    <2> PICK a \in Accounts :
           Save(r, a, [FreeRow EXCEPT !.state = "live", !.email = req[r].email,
                                      !.status = "Draft", !.otpCode = req[r].code],
                "session")
      BY <1>4 DEF SaveSignup
    <2>1. req[r].email \in Emails \cup {None} /\ req[r].code \in Codes \cup {None}
      BY <1>0 DEF Request
    <2>2. [FreeRow EXCEPT !.state = "live", !.email = req[r].email,
                          !.status = "Draft", !.otpCode = req[r].code] \in Account
      BY <2>1 DEF FreeRow, Account, StatusField
    <2> QED
      BY <1>3, <2>2
  <1>5. ASSUME NEW r \in Requests, SaveTeam(r)
        PROVE  TypeOK'
    <2> PICK a \in Accounts :
           Save(r, a, [FreeRow EXCEPT !.state = "live", !.email = req[r].email,
                                      !.parentId = req[r].parent],
                "findUser")
      BY <1>5 DEF SaveTeam
    <2>1. req[r].email \in Emails \cup {None} /\ req[r].parent \in Accounts \cup {None}
      BY <1>0 DEF Request
    <2>2. [FreeRow EXCEPT !.state = "live", !.email = req[r].email,
                          !.parentId = req[r].parent] \in Account
      BY <2>1 DEF FreeRow, Account, StatusField
    <2> QED
      BY <1>3, <2>2
  <1>6. ASSUME NEW r \in Requests, FindOwner(r)
        PROVE  TypeOK'
    <2>1. [req[r] EXCEPT !.pc = "workspace"] \in Request
      BY <1>0 DEF Request
    <2>2. Sound([req[r] EXCEPT !.pc = "workspace"], drawn)
      BY <1>0, <1>6 DEF Request, Sound, Provisioning, FindOwner
    <2>3. \/ req' = [req EXCEPT ![r] = [req[r] EXCEPT !.pc = "workspace"]]
          \/ req' = [req EXCEPT ![r] = Idle]
      BY <1>6 DEF FindOwner
    <2>4. ReqOK(req', drawn')
      BY <1>6, <2>1, <2>2, <2>3, IdleType, MoveType DEF FindOwner
    <2> QED
      BY <1>0, <1>00, <1>6, <2>4 DEF FindOwner, Rest
  <1>6a. ASSUME NEW r \in Requests, UpdateRtHash(r)
         PROVE  TypeOK'
    <2>1. [req[r] EXCEPT !.pc = "findUser"] \in Request
      BY <1>0 DEF Request
    <2>2. Sound([req[r] EXCEPT !.pc = "findUser"], drawn)
      BY <1>0, <1>6a DEF Request, Sound, Provisioning, UpdateRtHash
    <2>3. ReqOK(req', drawn')
      BY <1>6a, <2>1, <2>2, MoveType DEF UpdateRtHash
    <2> QED
      BY <1>0, <1>00, <1>6a, <2>3 DEF UpdateRtHash, Rest
  <1>7. ASSUME NEW r \in Requests, SaveWorkspace(r)
        PROVE  TypeOK'
    <2>1. [req[r] EXCEPT !.pc = "install"] \in Request
      BY <1>0 DEF Request
    <2>2. /\ Sound([req[r] EXCEPT !.pc = "install"], drawn)
          /\ req[r].account \in Accounts
      BY <1>0, <1>7 DEF Request, Sound, Provisioning, SaveWorkspace
    <2>3. \/ req' = [req EXCEPT ![r] = [req[r] EXCEPT !.pc = "install"]]
          \/ req' = [req EXCEPT ![r] = Idle]
      BY <1>7 DEF SaveWorkspace
    <2>4. ReqOK(req', drawn')
      BY <1>7, <2>1, <2>2, <2>3, IdleType, MoveType DEF SaveWorkspace
    <2> QED
      BY <1>0, <1>00, <1>7, <2>2, <2>4 DEF SaveWorkspace
  <1>8. ASSUME NEW r \in Requests, InstallFirst(r)
        PROVE  TypeOK'
    <2>1. req[r].account \in Accounts
      BY <1>0, <1>8 DEF Request, Sound, Provisioning, InstallFirst
    <2>2. ReqOK(req', drawn')
      BY <1>8, IdleType, MoveType DEF InstallFirst
    <2> QED
      BY <1>0, <1>00, <1>8, <2>1, <2>2 DEF InstallFirst
  <1>9. ASSUME NEW r \in Requests, NEW a \in Accounts, FindDraft(r, a)
        PROVE  TypeOK'
    <2> PICK c \in Codes \ drawn :
           /\ drawn' = drawn \cup {c}
           /\ req' = [req EXCEPT ![r] =
                  [Idle EXCEPT !.pc = "writeCode", !.account = a, !.code = c]]
      BY <1>9 DEF FindDraft
    <2> DEFINE q == [Idle EXCEPT !.pc = "writeCode", !.account = a, !.code = c]
    <2>1. q \in Request /\ Sound(q, drawn')
      BY RegistrationAssumption DEF Idle, Request, Sound, Provisioning
    <2>2. req' = [req EXCEPT ![r] = q]
      OBVIOUS
    <2> HIDE DEF q
    <2>3. ReqOK(req', drawn')
      BY <2>1, <2>2, MoveType
    <2> QED
      BY <1>0, <1>00, <1>9, <2>3 DEF FindDraft, Rest
  <1>10. ASSUME NEW r \in Requests, WriteCode(r)
         PROVE  TypeOK'
    <2>1. [req[r] EXCEPT !.pc = "mailCode"] \in Request
      BY <1>0 DEF Request
    <2>2. /\ Sound([req[r] EXCEPT !.pc = "mailCode"], drawn)
          /\ req[r].account \in Accounts /\ req[r].code \in Codes
      BY <1>0, <1>10 DEF Request, Sound, Provisioning, WriteCode
    <2>3. ReqOK(req', drawn')
      BY <1>10, <2>1, <2>2, OvertakenType DEF WriteCode
    <2>4. account' \in [Accounts -> Account]
      BY <1>0, <1>10, <2>2 DEF WriteCode, Account
    <2> QED
      BY <1>0, <1>00, <1>10, <2>3, <2>4 DEF WriteCode, Rest
  <1>11. ASSUME NEW r \in Requests, MailCode(r)
         PROVE  TypeOK'
    <2>1. req[r].code \in drawn
      BY <1>0, <1>11 DEF Sound, MailCode
    <2>2. ReqOK(req', drawn')
      BY <1>11, IdleType, MoveType DEF MailCode
    <2> QED
      BY <1>0, <1>00, <1>11, <2>1, <2>2 DEF MailCode, Rest
  <1>12. ASSUME NEW r \in Requests, NEW a \in Accounts, FindCode(r, a)
         PROVE  TypeOK'
    <2> DEFINE q == [pc |-> "verify", email |-> None, code |-> None, account |-> a,
                     parent |-> None, loose |-> account[a].loose, stale |-> FALSE]
    <2>0. account[a].loose \in BOOLEAN
      BY <1>0 DEF Account
    <2>1. q \in Request /\ Sound(q, drawn')
      BY <2>0, RegistrationAssumption DEF Request, Sound, Provisioning
    <2>2. req' = [req EXCEPT ![r] = q] /\ drawn' = drawn
      BY <1>12 DEF FindCode
    <2> HIDE DEF q
    <2>3. ReqOK(req', drawn')
      BY <2>1, <2>2, MoveType
    <2> QED
      BY <1>0, <1>00, <1>12, <2>3 DEF FindCode, Rest
  <1>13. ASSUME NEW r \in Requests, Verify(r)
         PROVE  TypeOK'
    <2>1. ReqOK(req', drawn)
      BY <1>13, IdleType, OvertakenType DEF Verify
    <2>0. \A a \in Accounts :
             [account[a] EXCEPT !.status = "Active", !.otpCode = None, !.loose = FALSE]
                \in Account
      BY <1>0 DEF Account, StatusField
    <2>2. account' \in [Accounts -> Account]
      BY <1>0, <1>13, <2>0 DEF Verify
    <2> QED
      BY <1>0, <1>00, <1>13, <2>1, <2>2 DEF Verify, Rest
  <1>14. ASSUME NEW a \in Accounts, NEW s \in StatusField, BannedUserByAdmin(a, s)
         PROVE  TypeOK'
    <2>1. ReqOK(req', drawn)
      BY <1>14, IdleType, OvertakenType DEF BannedUserByAdmin
    <2>2. account' \in [Accounts -> Account]
      BY <1>0, <1>14 DEF BannedUserByAdmin, Account
    <2> QED
      BY <1>0, <1>00, <1>14, <2>1, <2>2 DEF BannedUserByAdmin, Rest
  <1>15. ASSUME NEW r \in Requests, NEW p \in Accounts, NEW e \in Emails, CheckTeam(r, p, e)
         PROVE  TypeOK'
    <2> DEFINE q == [Idle EXCEPT !.pc = "saveTeam", !.email = e, !.parent = p]
    <2>1. q \in Request /\ Sound(q, drawn')
      BY DEF Idle, Request, Sound, Provisioning
    <2>2. req' = [req EXCEPT ![r] = q] /\ drawn' = drawn
      BY <1>15 DEF CheckTeam
    <2> HIDE DEF q
    <2>3. ReqOK(req', drawn')
      BY <2>1, <2>2, MoveType
    <2> QED
      BY <1>0, <1>00, <1>15, <2>3 DEF CheckTeam, Rest
  <1>16. ASSUME NEW p \in Accounts, NEW a \in Accounts, DeleteTeam(p, a)
         PROVE  TypeOK'
    <2>1. ReqOK(req', drawn)
      BY <1>16, IdleType, OvertakenType DEF DeleteTeam
    <2>2. [FreeRow EXCEPT !.state = "gone"] \in Account
      BY DEF FreeRow, Account, StatusField
    <2>3. account' \in [Accounts -> Account]
      BY <1>0, <1>16, <2>2 DEF DeleteTeam
    <2> QED
      BY <1>0, <1>00, <1>16, <2>1, <2>3 DEF DeleteTeam, Rest
  <1>17. ASSUME NEW r \in Requests, Fail(r)
         PROVE  TypeOK'
    <2>1. ReqOK(req', drawn')
      BY <1>17, IdleType, MoveType DEF Fail
    <2>2. /\ req[r].pc \in Provisioning => req[r].account \in Accounts
          /\ req[r].pc = "mailCode" => req[r].code \in drawn
      BY <1>0 DEF Request, Sound
    <2> QED
      BY <1>0, <1>00, <1>17, <2>1, <2>2 DEF Fail
  <1>18. CASE UNCHANGED vars
    BY <1>18 DEF TypeOK, vars
  <1> QED
    BY <1>1, <1>2, <1>4, <1>5, <1>6, <1>6a, <1>7, <1>8, <1>9, <1>10, <1>11, <1>12, <1>13,
       <1>14, <1>15, <1>16, <1>17, <1>18 DEF Next, ReadOnly

\* Accounts, codes and handlers always have their types; a code that is mailed
\* or stored has been drawn.
THEOREM TypeCorrect == Spec => []TypeOK
  <1>1. Init => TypeOK
    BY DEF Init, TypeOK, Idle, Request, FreeRow, Account, StatusField, Provisioning
  <1> QED
    BY <1>1, NextType, PTL DEF Spec

-----------------------------------------------------------------------------
(***************************************************************************)
(* Codes and bans.  A verification nobody has overtaken, through a code    *)
(* that was not loose, still has a Draft before it.                        *)
(***************************************************************************)
LookHolds(q) ==
    req[q].pc = "verify" /\ ~req[q].stale /\ ~req[q].loose =>
        Live(req[q].account) /\ account[req[q].account].status = "Draft"

BanInv == TypeOK /\ CodeOnlyWhileDraft /\ \A q \in Requests : LookHolds(q)

\* A handler that moved elsewhere, was marked, or kept its row, still knows it.
LEMMA LookQuiet ==
    ASSUME BanInv, NEW q \in Requests,
           \/ req'[q].pc # "verify"
           \/ /\ req'[q].pc = req[q].pc /\ req'[q].account = req[q].account
              /\ req'[q].loose = req[q].loose
              /\ ~req'[q].stale => ~req[q].stale
              /\ ~req'[q].stale /\ Live(req[q].account) =>
                    account'[req[q].account] = account[req[q].account]
    PROVE  LookHolds(q)'
  BY DEF BanInv, LookHolds, Live

\* What a step of Verify, WriteCode, the admin or deleteTeam leaves of it.
LEMMA LookOvertaken ==
    ASSUME BanInv, NEW q \in Requests, NEW a, NEW r, NEW c \in Request, Sound(c, drawn),
           c.pc # "verify", req' = Overtaken(a, r, c),
           \A b \in Accounts : b # a => account'[b] = account[b]
    PROVE  LookHolds(q)'
  <1>1. CASE q = r
    <2>1. req'[q] = c
      BY <1>1, OvertakenType DEF BanInv
    <2> QED
      BY <2>1, LookQuiet
  <1>2. CASE q # r
    <2>1. /\ req'[q].pc = req[q].pc /\ req'[q].account = req[q].account
          /\ req'[q].loose = req[q].loose
          /\ ~req'[q].stale => ~req[q].stale /\ req[q].account # a
      BY <1>2, OvertakenType DEF BanInv
    <2>2. CASE req[q].pc # "verify"
      BY <2>1, <2>2, LookQuiet
    <2>3. CASE req[q].pc = "verify"
      <3>1. req[q].account \in Accounts
        BY <2>3 DEF BanInv, TypeOK, Request
      <3> QED
        BY <2>1, <3>1, LookQuiet
    <2> QED
      BY <2>2, <2>3
  <1> QED
    BY <1>1, <1>2

\* A step that writes no account and moves one handler elsewhere.
LEMMA LookMoved ==
    ASSUME BanInv, NEW q \in Requests, NEW r \in Requests, NEW c,
           c.pc # "verify", req' = [req EXCEPT ![r] = c], account' = account
    PROVE  LookHolds(q)'
  <1>1. q = r => req'[q] = c
    BY DEF BanInv, TypeOK
  <1>2. q # r => req'[q] = req[q]
    BY DEF BanInv, TypeOK
  <1> QED
    BY <1>1, <1>2, LookQuiet

\* BanInv is inductive.
LEMMA NextBan ==
    BanInv /\ [Next]_vars => BanInv'
  <1> SUFFICES ASSUME BanInv, [Next]_vars
               PROVE  BanInv'
    OBVIOUS
  <1>0. /\ TypeOK /\ TypeOK' /\ account \in [Accounts -> Account]
        /\ req \in [Requests -> Request] /\ \A r \in Requests : req[r] \in Request
        /\ Idle \in Request /\ Idle.pc = "idle" /\ Sound(Idle, drawn)
    BY NextType, IdleType DEF BanInv, TypeOK
  <1>00. ASSUME CodeOnlyWhileDraft', \A q \in Requests : LookHolds(q)'
         PROVE  BanInv'
    BY <1>0, <1>00 DEF BanInv
  <1>000. ASSUME account' = account
          PROVE  CodeOnlyWhileDraft'
    BY <1>000 DEF BanInv, CodeOnlyWhileDraft
  <1>1. ASSUME NEW r \in Requests, NEW e \in Emails, CheckSignup(r, e)
        PROVE  BanInv'
    <2> PICK c \in Codes :
           req' = [req EXCEPT ![r] = [Idle EXCEPT !.pc = "mail", !.email = e, !.code = c]]
      BY <1>1 DEF CheckSignup
    <2>1. [Idle EXCEPT !.pc = "mail", !.email = e, !.code = c].pc # "verify"
      BY DEF Idle
    <2> QED
      BY <1>00, <1>000, <1>1, <2>1, LookMoved DEF CheckSignup
  <1>2. ASSUME NEW r \in Requests, MailSignup(r)
        PROVE  BanInv'
    <2>1. [req[r] EXCEPT !.pc = "save"].pc # "verify"
      BY <1>0 DEF Request
    <2> QED
      BY <1>00, <1>000, <1>2, <2>1, LookMoved DEF MailSignup
  <1>3. ASSUME NEW r \in Requests, NEW a \in Accounts, NEW row \in Account,
               NEW next \in {"session", "findUser"}, Save(r, a, row, next),
               row.otpCode # None => row.status = "Draft"
        PROVE  BanInv'
    <2>1. CodeOnlyWhileDraft'
      BY <1>0, <1>3 DEF Save, BanInv, CodeOnlyWhileDraft
    <2>2. ASSUME NEW q \in Requests
          PROVE  LookHolds(q)'
      <3>1. CASE q = r
        <4>1. req'[q].pc = next \/ req'[q] = Idle
          BY <1>0, <1>3, <3>1 DEF Save, Request
        <4> QED
          BY <1>0, <4>1, LookQuiet
      <3>2. CASE q # r
        <4>1. req'[q] = req[q]
          BY <1>0, <1>3, <3>2 DEF Save
        <4>2. \A b \in Accounts : Live(b) => account'[b] = account[b]
          BY <1>0, <1>3 DEF Save, Live
        <4>3. CASE req[q].pc # "verify"
          BY <4>1, <4>3, LookQuiet
        <4>4. CASE req[q].pc = "verify"
          <5>1. req[q].account \in Accounts
            BY <1>0, <4>4 DEF TypeOK, Request
          <5> QED
            BY <4>1, <4>2, <5>1, LookQuiet
        <4> QED
          BY <4>3, <4>4
      <3> QED
        BY <3>1, <3>2
    <2> QED
      BY <1>00, <2>1, <2>2
  <1>4. ASSUME NEW r \in Requests, SaveSignup(r)
        PROVE  BanInv'
    <2> DEFINE row == [FreeRow EXCEPT !.state = "live", !.email = req[r].email,
                                      !.status = "Draft", !.otpCode = req[r].code]
    <2> PICK a \in Accounts : Save(r, a, row, "session")
      BY <1>4 DEF SaveSignup
    <2>1. req[r].email \in Emails \cup {None} /\ req[r].code \in Codes \cup {None}
      BY <1>0 DEF Request
    <2>2. row \in Account /\ row.status = "Draft"
      BY <2>1 DEF FreeRow, Account, StatusField
    <2> HIDE DEF row
    <2> QED
      BY <1>3, <2>2
  <1>5. ASSUME NEW r \in Requests, SaveTeam(r)
        PROVE  BanInv'
    <2> DEFINE row == [FreeRow EXCEPT !.state = "live", !.email = req[r].email,
                                      !.parentId = req[r].parent]
    <2> PICK a \in Accounts : Save(r, a, row, "findUser")
      BY <1>5 DEF SaveTeam
    <2>1. req[r].email \in Emails \cup {None} /\ req[r].parent \in Accounts \cup {None}
      BY <1>0 DEF Request
    <2>2. row \in Account /\ row.otpCode = None
      BY <2>1 DEF FreeRow, Account, StatusField
    <2> HIDE DEF row
    <2> QED
      BY <1>3, <2>2
  <1>6. ASSUME NEW r \in Requests, FindOwner(r)
        PROVE  BanInv'
    <2>1. [req[r] EXCEPT !.pc = "workspace"].pc # "verify"
      BY <1>0 DEF Request
    <2>2. \/ req' = [req EXCEPT ![r] = [req[r] EXCEPT !.pc = "workspace"]]
          \/ req' = [req EXCEPT ![r] = Idle]
      BY <1>6 DEF FindOwner
    <2> QED
      BY <1>0, <1>00, <1>000, <1>6, <2>1, <2>2, LookMoved DEF FindOwner
  <1>6a. ASSUME NEW r \in Requests, UpdateRtHash(r)
         PROVE  BanInv'
    <2>1. [req[r] EXCEPT !.pc = "findUser"].pc # "verify"
      BY <1>0 DEF Request
    <2> QED
      BY <1>00, <1>000, <1>6a, <2>1, LookMoved DEF UpdateRtHash
  <1>7. ASSUME NEW r \in Requests, SaveWorkspace(r)
        PROVE  BanInv'
    <2>1. [req[r] EXCEPT !.pc = "install"].pc # "verify"
      BY <1>0 DEF Request
    <2>2. \/ req' = [req EXCEPT ![r] = [req[r] EXCEPT !.pc = "install"]]
          \/ req' = [req EXCEPT ![r] = Idle]
      BY <1>7 DEF SaveWorkspace
    <2> QED
      BY <1>0, <1>00, <1>000, <1>7, <2>1, <2>2, LookMoved DEF SaveWorkspace
  <1>8. ASSUME NEW r \in Requests, InstallFirst(r)
        PROVE  BanInv'
    BY <1>0, <1>00, <1>000, <1>8, LookMoved DEF InstallFirst
  <1>9. ASSUME NEW r \in Requests, NEW a \in Accounts, FindDraft(r, a)
        PROVE  BanInv'
    <2> PICK c \in Codes :
           req' = [req EXCEPT ![r] = [Idle EXCEPT !.pc = "writeCode", !.account = a, !.code = c]]
      BY <1>9 DEF FindDraft
    <2>1. [Idle EXCEPT !.pc = "writeCode", !.account = a, !.code = c].pc # "verify"
      BY DEF Idle
    <2> QED
      BY <1>00, <1>000, <1>9, <2>1, LookMoved DEF FindDraft
  <1>10. ASSUME NEW r \in Requests, WriteCode(r)
         PROVE  BanInv'
    <2> DEFINE c == [req[r] EXCEPT !.pc = "mailCode"]
    <2>0. c \in Request /\ c.pc = "mailCode" /\ c.account = req[r].account /\ c.code = req[r].code
      BY <1>0 DEF Request
    <2>1. c \in Request /\ c.pc # "verify" /\ Sound(c, drawn) /\ req[r].account \in Accounts
      BY <1>0, <1>10, <2>0 DEF Request, Sound, Provisioning, WriteCode, TypeOK
    <2>2. req' = Overtaken(req[r].account, r, c)
      BY <1>10 DEF WriteCode
    <2> HIDE DEF c
    <2>3. \A b \in Accounts : b # req[r].account => account'[b] = account[b]
      BY <1>0, <1>10 DEF WriteCode
    <2>4. \A q \in Requests : LookHolds(q)'
      BY <2>1, <2>2, <2>3, LookOvertaken
    <2>5. account'[req[r].account].otpCode # None /\
             account'[req[r].account].status # "Draft" => account'[req[r].account].loose
      <3>1. CASE Live(req[r].account)
        <4> DEFINE b == req[r].account
        <4>1. /\ account'[b].status = account[b].status
              /\ account'[b].loose = (account[b].status # "Draft")
          BY <1>0, <1>10, <2>1, <3>1 DEF WriteCode, Account
        <4> QED
          BY <4>1
      <3>2. CASE ~Live(req[r].account)
        BY <1>10, <2>1, <3>2 DEF WriteCode, BanInv, CodeOnlyWhileDraft
      <3> QED
        BY <3>1, <3>2
    <2>6. CodeOnlyWhileDraft'
      BY <2>3, <2>5 DEF BanInv, CodeOnlyWhileDraft
    <2> QED
      BY <1>00, <2>4, <2>6
  <1>11. ASSUME NEW r \in Requests, MailCode(r)
         PROVE  BanInv'
    BY <1>0, <1>00, <1>000, <1>11, LookMoved DEF MailCode
  <1>12. ASSUME NEW r \in Requests, NEW a \in Accounts, FindCode(r, a)
         PROVE  BanInv'
    <2>1. ASSUME NEW q \in Requests
          PROVE  LookHolds(q)'
      <3>1. CASE q = r
        <4>1. req'[q].account = a /\ req'[q].loose = account[a].loose /\ account' = account
          BY <1>0, <1>12, <3>1 DEF FindCode
        <4>2. Live(a) /\ account[a].otpCode # None
          BY <1>0, <1>12, RegistrationAssumption DEF FindCode, TypeOK
        <4>3. account[a].status # "Draft" => account[a].loose
          BY <4>2 DEF BanInv, CodeOnlyWhileDraft
        <4> QED
          BY <4>1, <4>2, <4>3 DEF LookHolds, Live
      <3>2. CASE q # r
        <4>1. req'[q] = req[q] /\ account' = account
          BY <1>0, <1>12, <3>2 DEF FindCode
        <4> QED
          BY <4>1, LookQuiet
      <3> QED
        BY <3>1, <3>2
    <2> QED
      BY <1>00, <1>000, <1>12, <2>1 DEF FindCode
  <1>13. ASSUME NEW r \in Requests, Verify(r)
         PROVE  BanInv'
    <2>1. \A b \in Accounts : b # req[r].account => account'[b] = account[b]
      BY <1>0, <1>13 DEF Verify
    <2>2. \A q \in Requests : LookHolds(q)'
      BY <1>0, <1>13, <2>1, LookOvertaken DEF Verify
    <2>3. Live(req[r].account) => account'[req[r].account].otpCode = None
      BY <1>0, <1>13 DEF Verify, Account, TypeOK, Request
    <2>4. ~Live(req[r].account) => account' = account
      BY <1>13 DEF Verify
    <2>5. CodeOnlyWhileDraft'
      BY <2>1, <2>3, <2>4 DEF BanInv, CodeOnlyWhileDraft
    <2> QED
      BY <1>00, <2>2, <2>5
  <1>14. ASSUME NEW a \in Accounts, NEW s \in StatusField, BannedUserByAdmin(a, s)
         PROVE  BanInv'
    <2>1. \A b \in Accounts : b # a => account'[b] = account[b]
      BY <1>0, <1>14 DEF BannedUserByAdmin
    <2>2. \A q \in Requests : LookHolds(q)'
      BY <1>0, <1>14, <2>1, LookOvertaken DEF BannedUserByAdmin
    <2>3. /\ account'[a].otpCode = account[a].otpCode /\ account'[a].status = s
          /\ account'[a].loose = (account[a].otpCode # None /\ s # "Draft")
      BY <1>0, <1>14 DEF BannedUserByAdmin, Account
    <2>4. CodeOnlyWhileDraft'
      BY <2>1, <2>3 DEF BanInv, CodeOnlyWhileDraft
    <2> QED
      BY <1>00, <2>2, <2>4
  <1>15. ASSUME NEW r \in Requests, NEW p \in Accounts, NEW e \in Emails, CheckTeam(r, p, e)
         PROVE  BanInv'
    <2>1. [Idle EXCEPT !.pc = "saveTeam", !.email = e, !.parent = p].pc # "verify"
      BY DEF Idle
    <2> QED
      BY <1>00, <1>000, <1>15, <2>1, LookMoved DEF CheckTeam
  <1>16. ASSUME NEW p \in Accounts, NEW a \in Accounts, DeleteTeam(p, a)
         PROVE  BanInv'
    <2>1. \A b \in Accounts : b # a => account'[b] = account[b]
      BY <1>0, <1>16 DEF DeleteTeam
    <2>2. \A q \in Requests : LookHolds(q)'
      BY <1>0, <1>16, <2>1, LookOvertaken DEF DeleteTeam
    <2>3. account'[a].otpCode = None
      BY <1>0, <1>16 DEF DeleteTeam, FreeRow
    <2>4. CodeOnlyWhileDraft'
      BY <2>1, <2>3 DEF BanInv, CodeOnlyWhileDraft
    <2> QED
      BY <1>00, <2>2, <2>4
  <1>17. ASSUME NEW r \in Requests, Fail(r)
         PROVE  BanInv'
    BY <1>0, <1>00, <1>000, <1>17, LookMoved DEF Fail
  <1>18. CASE UNCHANGED vars
    BY <1>00, <1>000, <1>18, LookQuiet DEF vars
  <1> QED
    BY <1>1, <1>2, <1>4, <1>5, <1>6, <1>6a, <1>7, <1>8, <1>9, <1>10, <1>11, <1>12, <1>13,
       <1>14, <1>15, <1>16, <1>17, <1>18 DEF Next, ReadOnly

\* BanInv holds before anybody has signed up.
LEMMA InitBan == Init => BanInv
  BY DEF Init, BanInv, TypeOK, CodeOnlyWhileDraft, LookHolds, Idle, Request, FreeRow,
         Account, StatusField, Provisioning

\* An account that is no longer Draft holds no code, but for the two ways the
\* code describes: verifyOtp always clears what resendOtp and signupLocal set.
THEOREM CodesAreDrafts == Spec => []CodeOnlyWhileDraft
  <1>1. BanInv => CodeOnlyWhileDraft
    BY DEF BanInv
  <1> QED
    BY <1>1, InitBan, NextBan, PTL DEF Spec

\* A banned account is made Active by the admin alone, or through a code that
\* was loose, or by a verification that the ban has overtaken.
THEOREM BansStand == Spec => BanStands
  <1>1. BanInv /\ [Next]_vars =>
           [\A a \in Accounts :
               Live(a) /\ account[a].status = "Banned" /\ account'[a].status = "Active" =>
                   \/ \E s \in StatusField : BannedUserByAdmin(a, s)
                   \/ ~Live(a)'
                   \/ \E r \in Requests : /\ req[r].pc = "verify" /\ req[r].account = a
                                          /\ req[r].stale \/ req[r].loose]_vars
    <2> SUFFICES ASSUME BanInv, Next, NEW a \in Accounts, account[a].state = "live",
                        account[a].status = "Banned", account'[a].status = "Active",
                        account'[a].state = "live",
                        ~\E s \in StatusField : BannedUserByAdmin(a, s)
                 PROVE  \E r \in Requests : /\ req[r].pc = "verify" /\ req[r].account = a
                                            /\ req[r].stale \/ req[r].loose
      BY DEF Live
    <2>0. account \in [Accounts -> Account] /\ account'[a].status # account[a].status
      BY DEF BanInv, TypeOK
    <2>1. ASSUME NEW r \in Requests, Verify(r)
          PROVE  \E q \in Requests : /\ req[q].pc = "verify" /\ req[q].account = a
                                     /\ req[q].stale \/ req[q].loose
      <3>1. req[r].pc = "verify" /\ req[r].account = a
        BY <2>0, <2>1 DEF Verify
      <3>2. req[r].stale \/ req[r].loose
        BY <3>1 DEF BanInv, LookHolds
      <3> QED
        BY <3>1, <3>2
    <2>2. ASSUME NEW r \in Requests, NEW b \in Accounts, NEW row, NEW next,
                 Save(r, b, row, next)
          PROVE  FALSE
      BY <2>0, <2>2 DEF Save
    <2>3. ASSUME NEW r \in Requests, WriteCode(r)
          PROVE  FALSE
      BY <2>0, <2>3 DEF WriteCode, Account
    <2>4. ASSUME NEW b \in Accounts, NEW s \in StatusField, BannedUserByAdmin(b, s)
          PROVE  FALSE
      BY <2>0, <2>4 DEF BannedUserByAdmin
    <2>5. ASSUME NEW p \in Accounts, NEW b \in Accounts, DeleteTeam(p, b)
          PROVE  FALSE
      BY <2>0, <2>5 DEF DeleteTeam, FreeRow
    <2>6. account' # account
      BY <2>0
    <2> QED
      BY <2>1, <2>2, <2>3, <2>4, <2>5, <2>6
         DEF Next, SaveSignup, SaveTeam, CheckSignup, MailSignup, UpdateRtHash, FindOwner,
             SaveWorkspace, InstallFirst, FindDraft, MailCode, FindCode, CheckTeam, Fail,
             ReadOnly, vars
  <1> QED
    BY <1>1, InitBan, NextBan, PTL DEF Spec, BanStands

-----------------------------------------------------------------------------
(***************************************************************************)
(* Provisioning.  A handler on its way knows whose account it completes,   *)
(* and each step it leaves behind is in the tables.                        *)
(***************************************************************************)
Complete(a) ==
    \/ a \in workspaces /\ (account[a].parentId = None => a \in installed)
    \/ a \in halfMade
    \/ \E r \in Requests : req[r].account = a /\ req[r].pc \in Provisioning

OnItsWay(q) ==
    /\ req[q].pc \in {"mail", "save"} => req[q].parent = None
    /\ req[q].pc \in Provisioning =>
          /\ account[req[q].account].state # "free"
          /\ Live(req[q].account) => account[req[q].account].parentId = req[q].parent
    /\ req[q].pc = "install" => req[q].account \in workspaces

ProvInv ==
    /\ TypeOK
    /\ \A a \in Accounts : Live(a) => Complete(a)
    /\ \A q \in Requests : OnItsWay(q)

\* Rows are only ever written in ways a handler on its way can bear.
Bearable(b) ==
    account[b].state # "free" =>
        /\ account'[b].state # "free"
        /\ Live(b)' => Live(b) /\ account'[b].parentId = account[b].parentId

Grown == workspaces \subseteq workspaces' /\ installed \subseteq installed'
         /\ halfMade \subseteq halfMade'

\* A handler that is still where it was is on its way as before.
LEMMA WayQuiet ==
    ASSUME ProvInv, Grown, \A b \in Accounts : Bearable(b), NEW q \in Requests,
           req'[q].pc = req[q].pc, req'[q].account = req[q].account,
           req'[q].parent = req[q].parent
    PROVE  OnItsWay(q)'
  <1>1. req[q].pc \in Provisioning => req[q].account \in Accounts
    BY DEF ProvInv, TypeOK, Request
  <1>2. Provisioning' = Provisioning /\ "install" \in Provisioning
    BY DEF Provisioning
  <1> QED
    BY <1>1, <1>2 DEF ProvInv, OnItsWay, Grown, Bearable, Live

\* An account stays complete unless its handler leaves it behind.
LEMMA CompleteQuiet ==
    ASSUME ProvInv, Grown, NEW a \in Accounts, Live(a),
           account'[a].parentId = account[a].parentId,
           \A q \in Requests : req[q].account = a /\ req[q].pc \in Provisioning =>
               \/ req'[q].account = a /\ req'[q].pc \in Provisioning
               \/ Complete(a)'
    PROVE  Complete(a)'
  <1>1. Provisioning' = Provisioning
    BY DEF Provisioning
  <1> QED
    BY <1>1 DEF ProvInv, Complete, Grown

\* ProvInv survives a step that inserts no account and takes no handler out of
\* its provisioning.
LEMMA ProvQuiet ==
    ASSUME ProvInv, TypeOK', Grown,
           \A b \in Accounts : Bearable(b) /\ (Live(b)' => Live(b)),
           \A q \in Requests : OnItsWay(q)',
           \A q \in Requests : req[q].pc \in Provisioning =>
               req'[q].account = req[q].account /\ req'[q].pc \in Provisioning
    PROVE  ProvInv'
  <1> SUFFICES ASSUME NEW a \in Accounts, Live(a)'
               PROVE  Complete(a)'
    BY DEF ProvInv
  <1>1. Live(a) /\ account'[a].parentId = account[a].parentId
    BY DEF Bearable, Live
  <1> QED
    BY <1>1, CompleteQuiet

\* The same for a step that moves one handler from outside provisioning to a
\* place outside, and writes no account.
LEMMA ProvMoved ==
    ASSUME ProvInv, TypeOK', Grown, account' = account, NEW r \in Requests, NEW c,
           req' = [req EXCEPT ![r] = c], req[r].pc \notin Provisioning,
           c.pc \notin Provisioning, c.pc \in {"mail", "save"} => c.parent = None
    PROVE  ProvInv'
  <1>1. req'[r] = c /\ \A q \in Requests \ {r} : req'[q] = req[q]
    BY DEF ProvInv, TypeOK
  <1>2. \A b \in Accounts : Bearable(b) /\ (Live(b)' => Live(b))
    BY DEF Bearable, Live
  <1>3. OnItsWay(r)'
    BY <1>1 DEF OnItsWay, Provisioning
  <1>4. \A q \in Requests \ {r} : OnItsWay(q)'
    BY <1>1, <1>2, WayQuiet
  <1> QED
    BY <1>1, <1>2, <1>3, <1>4, ProvQuiet

\* The same for a step that marks handlers stale and lets one go on outside.
LEMMA ProvOvertaken ==
    ASSUME ProvInv, TypeOK', Grown, NEW a, NEW r, NEW c \in Request, Sound(c, drawn),
           req' = Overtaken(a, r, c), r \in Requests => req[r].pc \notin Provisioning,
           c.pc \notin Provisioning \cup {"mail", "save"},
           \A b \in Accounts : Bearable(b) /\ (Live(b)' => Live(b))
    PROVE  ProvInv'
  <1>1. /\ r \in Requests => req'[r] = c
        /\ \A q \in Requests \ {r} :
              /\ req'[q].pc = req[q].pc /\ req'[q].account = req[q].account
              /\ req'[q].parent = req[q].parent
    BY OvertakenType DEF ProvInv
  <1>2. r \in Requests => OnItsWay(r)'
    BY <1>1 DEF OnItsWay, Provisioning
  <1>3. \A q \in Requests \ {r} : OnItsWay(q)'
    BY <1>1, WayQuiet
  <1> QED
    BY <1>1, <1>2, <1>3, ProvQuiet

\* ProvInv is inductive.
LEMMA NextProv ==
    ProvInv /\ [Next]_vars => ProvInv'
  <1> SUFFICES ASSUME ProvInv, [Next]_vars
               PROVE  ProvInv'
    OBVIOUS
  <1>0. /\ TypeOK /\ TypeOK' /\ account \in [Accounts -> Account]
        /\ req \in [Requests -> Request]
        /\ \A r \in Requests : req[r] \in Request /\ Sound(req[r], drawn)
        /\ Idle \in Request /\ Idle.pc = "idle" /\ Idle.parent = None /\ Sound(Idle, drawn)
    <2>1. TypeOK /\ TypeOK'
      BY NextType DEF ProvInv
    <2> QED
      BY <2>1, IdleType DEF TypeOK, Idle, Sound
  <1>1. ASSUME NEW r \in Requests, NEW e \in Emails, CheckSignup(r, e)
        PROVE  ProvInv'
    <2> PICK c \in Codes :
           req' = [req EXCEPT ![r] = [Idle EXCEPT !.pc = "mail", !.email = e, !.code = c]]
      BY <1>1 DEF CheckSignup
    <2>1. /\ [Idle EXCEPT !.pc = "mail", !.email = e, !.code = c].pc = "mail"
          /\ [Idle EXCEPT !.pc = "mail", !.email = e, !.code = c].parent = None
      BY DEF Idle
    <2>2. Grown /\ account' = account /\ req[r].pc = "idle"
      BY <1>1 DEF CheckSignup, Rest, Grown
    <2> QED
      BY <1>0, <2>1, <2>2, ProvMoved DEF Provisioning
  <1>2. ASSUME NEW r \in Requests, MailSignup(r)
        PROVE  ProvInv'
    <2> DEFINE c == [req[r] EXCEPT !.pc = "save"]
    <2>1. c.pc = "save" /\ c.parent = req[r].parent
      BY <1>0 DEF Request
    <2>2. /\ Grown /\ account' = account /\ req[r].pc = "mail"
          /\ req' = [req EXCEPT ![r] = c]
      BY <1>2 DEF MailSignup, Rest, Grown
    <2> HIDE DEF c
    <2>3. c.parent = None
      BY <2>1, <2>2 DEF ProvInv, OnItsWay
    <2> QED
      BY <1>0, <2>1, <2>2, <2>3, ProvMoved DEF Provisioning
  <1>3. ASSUME NEW r \in Requests, NEW a \in Accounts, NEW row \in Account,
               NEW next \in {"session", "findUser"}, Save(r, a, row, next),
               row.state = "live", row.parentId = req[r].parent, req[r].pc \in {"save", "saveTeam"}
        PROVE  ProvInv'
    <2>0. Grown /\ account[a].state = "free" /\ req[r].pc \notin Provisioning
      BY <1>3 DEF Save, Rest, Grown, Provisioning
    <2>1. CASE account' = account /\ req' = [req EXCEPT ![r] = Idle]
      BY <1>0, <2>0, <2>1, ProvMoved DEF Provisioning
    <2>2. CASE account' = [account EXCEPT ![a] = row] /\
               req' = [req EXCEPT ![r].pc = next, ![r].account = a]
      <3>1. /\ req'[r].pc = next /\ req'[r].account = a /\ req'[r].parent = req[r].parent
            /\ \A q \in Requests \ {r} : req'[q] = req[q]
        BY <1>0, <2>2 DEF Request
      <3>2. account'[a] = row /\ \A b \in Accounts \ {a} : account'[b] = account[b]
        BY <1>0, <2>2
      <3>3. \A b \in Accounts : Bearable(b)
        BY <2>0, <3>2 DEF Bearable, Live
      <3>4. \A q \in Requests \ {r} : OnItsWay(q)'
        BY <2>0, <3>1, <3>3, WayQuiet
      <3>5. OnItsWay(r)'
        BY <1>3, <3>1, <3>2 DEF OnItsWay
      <3>6. Complete(a)'
        BY <3>1 DEF Complete, Provisioning
      <3>7. ASSUME NEW b \in Accounts \ {a}, Live(b)'
            PROVE  Complete(b)'
        <4>1. Live(b) /\ account'[b].parentId = account[b].parentId
          BY <3>2, <3>7 DEF Live
        <4> QED
          BY <2>0, <3>1, <4>1, CompleteQuiet
      <3> QED
        BY <1>0, <3>4, <3>5, <3>6, <3>7 DEF ProvInv
    <2> QED
      BY <1>3, <2>1, <2>2 DEF Save
  <1>4. ASSUME NEW r \in Requests, SaveSignup(r)
        PROVE  ProvInv'
    <2> DEFINE row == [FreeRow EXCEPT !.state = "live", !.email = req[r].email,
                                      !.status = "Draft", !.otpCode = req[r].code]
    <2> PICK a \in Accounts : Save(r, a, row, "session")
      BY <1>4 DEF SaveSignup
    <2>1. req[r].email \in Emails \cup {None} /\ req[r].code \in Codes \cup {None}
      BY <1>0 DEF Request
    <2>2. row \in Account /\ row.state = "live" /\ row.parentId = None
      BY <2>1 DEF FreeRow, Account, StatusField
    <2>3. req[r].pc = "save" /\ req[r].parent = None
      BY <1>4 DEF SaveSignup, ProvInv, OnItsWay
    <2> HIDE DEF row
    <2> QED
      BY <1>3, <2>2, <2>3
  <1>5. ASSUME NEW r \in Requests, SaveTeam(r)
        PROVE  ProvInv'
    <2> DEFINE row == [FreeRow EXCEPT !.state = "live", !.email = req[r].email,
                                      !.parentId = req[r].parent]
    <2> PICK a \in Accounts : Save(r, a, row, "findUser")
      BY <1>5 DEF SaveTeam
    <2>1. req[r].email \in Emails \cup {None} /\ req[r].parent \in Accounts \cup {None}
      BY <1>0 DEF Request
    <2>2. row \in Account /\ row.state = "live" /\ row.parentId = req[r].parent
      BY <2>1 DEF FreeRow, Account, StatusField
    <2>3. req[r].pc = "saveTeam"
      BY <1>5 DEF SaveTeam
    <2> HIDE DEF row
    <2> QED
      BY <1>3, <2>2, <2>3
  <1>6. ASSUME NEW r \in Requests, NEW c, c.account = req[r].account,
               c.parent = req[r].parent,
               c.pc \in Provisioning,
               c.pc = "install" => req[r].account \in workspaces',
               req[r].pc \in Provisioning, Grown, account' = account,
               req' = [req EXCEPT ![r] = c]
        PROVE  ProvInv'
    <2>1. req'[r] = c /\ \A q \in Requests \ {r} : req'[q] = req[q]
      BY <1>0, <1>6
    <2>2. \A b \in Accounts : Bearable(b) /\ (Live(b)' => Live(b))
      BY <1>6 DEF Bearable, Live
    <2>3. OnItsWay(r)'
      BY <1>6, <2>1 DEF OnItsWay, ProvInv, Live, Provisioning
    <2>4. \A q \in Requests \ {r} : OnItsWay(q)'
      BY <1>6, <2>1, <2>2, WayQuiet
    <2> QED
      BY <1>0, <1>6, <2>1, <2>2, <2>3, <2>4, ProvQuiet
  <1>7. ASSUME NEW r \in Requests, Grown, account' = account,
               req' = [req EXCEPT ![r] = Idle],
               \A a \in Accounts : Live(a) /\ req[r].account = a /\ req[r].pc \in Provisioning
                                     => Complete(a)'
        PROVE  ProvInv'
    <2>1. req'[r] = Idle /\ \A q \in Requests \ {r} : req'[q] = req[q]
      BY <1>0, <1>7
    <2>2. \A b \in Accounts : Bearable(b)
      BY <1>7 DEF Bearable, Live
    <2>3. \A q \in Requests \ {r} : OnItsWay(q)'
      BY <1>7, <2>1, <2>2, WayQuiet
    <2>4. OnItsWay(r)'
      BY <1>0, <2>1 DEF OnItsWay, Provisioning
    <2>5. ASSUME NEW a \in Accounts, Live(a)'
          PROVE  Complete(a)'
      <3>1. Live(a) /\ account'[a].parentId = account[a].parentId
        BY <1>7, <2>5 DEF Live
      <3> QED
        BY <1>7, <2>1, <3>1, CompleteQuiet
    <2> QED
      BY <1>0, <2>3, <2>4, <2>5 DEF ProvInv
  <1>8. ASSUME NEW r \in Requests, FindOwner(r)
        PROVE  ProvInv'
    <2> DEFINE c == [req[r] EXCEPT !.pc = "workspace"]
    <2>1. c.pc = "workspace" /\ c.account = req[r].account /\ c.parent = req[r].parent
      BY <1>0 DEF Request
    <2>2. Grown /\ account' = account /\ req[r].pc = "findUser"
      BY <1>8 DEF FindOwner, Rest, Grown
    <2> HIDE DEF c
    <2>3. \/ req' = [req EXCEPT ![r] = c]
          \/ req' = [req EXCEPT ![r] = Idle] /\ ~Live(req[r].account)
      BY <1>8 DEF FindOwner, c
    <2> QED
      BY <1>6, <1>7, <2>1, <2>2, <2>3 DEF Provisioning
  <1>8a. ASSUME NEW r \in Requests, UpdateRtHash(r)
         PROVE  ProvInv'
    <2> DEFINE c == [req[r] EXCEPT !.pc = "findUser"]
    <2>1. c.pc = "findUser" /\ c.account = req[r].account /\ c.parent = req[r].parent
      BY <1>0 DEF Request
    <2>2. /\ Grown /\ account' = account /\ req[r].pc = "session"
          /\ req' = [req EXCEPT ![r] = c]
      BY <1>8a DEF UpdateRtHash, Rest, Grown
    <2> HIDE DEF c
    <2> QED
      BY <1>6, <2>1, <2>2 DEF Provisioning
  <1>9. ASSUME NEW r \in Requests, SaveWorkspace(r)
        PROVE  ProvInv'
    <2> DEFINE c == [req[r] EXCEPT !.pc = "install"]
    <2>1. c.pc = "install" /\ c.account = req[r].account /\ c.parent = req[r].parent
      BY <1>0 DEF Request
    <2>2. /\ Grown /\ account' = account /\ req[r].pc = "workspace"
          /\ req[r].account \in workspaces'
      BY <1>9 DEF SaveWorkspace, Grown
    <2> HIDE DEF c
    <2>3. \/ req' = [req EXCEPT ![r] = c]
          \/ req' = [req EXCEPT ![r] = Idle] /\ req[r].parent # None
      BY <1>9 DEF SaveWorkspace, c
    <2>4. ASSUME req[r].parent # None, NEW a \in Accounts, Live(a), req[r].account = a
          PROVE  Complete(a)'
      <3>1. account[a].parentId # None
        BY <2>2, <2>4 DEF ProvInv, OnItsWay, Provisioning
      <3> QED
        BY <2>2, <2>4, <3>1 DEF Complete
    <2> QED
      BY <1>6, <1>7, <2>1, <2>2, <2>3, <2>4 DEF Provisioning
  <1>10. ASSUME NEW r \in Requests, InstallFirst(r)
         PROVE  ProvInv'
    <2>1. /\ Grown /\ account' = account /\ req[r].pc = "install"
          /\ req[r].account \in installed' /\ workspaces' = workspaces
          /\ req' = [req EXCEPT ![r] = Idle]
      BY <1>10 DEF InstallFirst, Grown
    <2>2. ASSUME NEW a \in Accounts, req[r].account = a
          PROVE  Complete(a)'
      BY <2>1, <2>2 DEF ProvInv, OnItsWay, Complete
    <2> QED
      BY <1>7, <2>1, <2>2
  <1>11. ASSUME NEW r \in Requests, Fail(r)
         PROVE  ProvInv'
    <2>1. /\ Grown /\ account' = account /\ req' = [req EXCEPT ![r] = Idle]
          /\ req[r].pc \in Provisioning => req[r].account \in halfMade'
      BY <1>11 DEF Fail, Grown
    <2> QED
      BY <1>7, <2>1 DEF Complete
  <1>12. ASSUME NEW r \in Requests, NEW a \in Accounts, FindDraft(r, a)
         PROVE  ProvInv'
    <2> PICK c \in Codes :
           req' = [req EXCEPT ![r] = [Idle EXCEPT !.pc = "writeCode", !.account = a, !.code = c]]
      BY <1>12 DEF FindDraft
    <2>1. [Idle EXCEPT !.pc = "writeCode", !.account = a, !.code = c].pc = "writeCode"
      BY DEF Idle
    <2>2. Grown /\ account' = account /\ req[r].pc = "idle"
      BY <1>12 DEF FindDraft, Rest, Grown
    <2> QED
      BY <1>0, <2>1, <2>2, ProvMoved DEF Provisioning
  <1>13. ASSUME NEW r \in Requests, WriteCode(r)
         PROVE  ProvInv'
    <2> DEFINE c == [req[r] EXCEPT !.pc = "mailCode"]
    <2>1. /\ c \in Request /\ c.pc = "mailCode" /\ c.account = req[r].account
          /\ c.code = req[r].code
      BY <1>0 DEF Request
    <2>2. /\ Grown /\ req[r].pc = "writeCode" /\ req' = Overtaken(req[r].account, r, c)
      BY <1>13 DEF WriteCode, Rest, Grown
    <2> HIDE DEF c
    <2>3. Sound(c, drawn)
      BY <1>0, <2>1, <2>2 DEF Sound, Provisioning
    <2>4. \A b \in Accounts : account'[b].state = account[b].state /\
                              account'[b].parentId = account[b].parentId
      BY <1>0, <1>13 DEF WriteCode, Account
    <2> QED
      BY <1>0, <2>1, <2>2, <2>3, <2>4, ProvOvertaken DEF Bearable, Live, Provisioning
  <1>14. ASSUME NEW r \in Requests, MailCode(r)
         PROVE  ProvInv'
    <2>1. Grown /\ account' = account /\ req[r].pc = "mailCode" /\ req' = [req EXCEPT ![r] = Idle]
      BY <1>14 DEF MailCode, Rest, Grown
    <2> QED
      BY <1>0, <2>1, ProvMoved DEF Provisioning
  <1>15. ASSUME NEW r \in Requests, NEW a \in Accounts, FindCode(r, a)
         PROVE  ProvInv'
    <2> DEFINE c == [pc |-> "verify", email |-> None, code |-> None, account |-> a,
                     parent |-> None, loose |-> account[a].loose, stale |-> FALSE]
    <2>1. c.pc = "verify"
      OBVIOUS
    <2>2. /\ Grown /\ account' = account /\ req[r].pc = "idle"
          /\ req' = [req EXCEPT ![r] = c]
      BY <1>15 DEF FindCode, Rest, Grown
    <2> HIDE DEF c
    <2> QED
      BY <1>0, <2>1, <2>2, ProvMoved DEF Provisioning
  <1>16. ASSUME NEW r \in Requests, Verify(r)
         PROVE  ProvInv'
    <2>1. Grown /\ req[r].pc = "verify" /\ req' = Overtaken(req[r].account, r, Idle)
      BY <1>16 DEF Verify, Rest, Grown
    <2>2. \A b \in Accounts : account'[b].state = account[b].state /\
                              account'[b].parentId = account[b].parentId
      BY <1>0, <1>16 DEF Verify, Account
    <2> QED
      BY <1>0, <2>1, <2>2, ProvOvertaken DEF Bearable, Live, Provisioning
  <1>17. ASSUME NEW a \in Accounts, NEW s \in StatusField, BannedUserByAdmin(a, s)
         PROVE  ProvInv'
    <2>1. Grown /\ req' = Overtaken(a, None, Idle)
      BY <1>17 DEF BannedUserByAdmin, Rest, Grown
    <2>2. \A b \in Accounts : account'[b].state = account[b].state /\
                              account'[b].parentId = account[b].parentId
      BY <1>0, <1>17 DEF BannedUserByAdmin, Account
    <2> QED
      BY <1>0, <2>1, <2>2, ProvOvertaken, RegistrationAssumption
         DEF Bearable, Live, Provisioning
  <1>18. ASSUME NEW r \in Requests, NEW p \in Accounts, NEW e \in Emails, CheckTeam(r, p, e)
         PROVE  ProvInv'
    <2>1. [Idle EXCEPT !.pc = "saveTeam", !.email = e, !.parent = p].pc = "saveTeam"
      BY DEF Idle
    <2>2. /\ Grown /\ account' = account /\ req[r].pc = "idle"
          /\ req' = [req EXCEPT ![r] =
                 [Idle EXCEPT !.pc = "saveTeam", !.email = e, !.parent = p]]
      BY <1>18 DEF CheckTeam, Rest, Grown
    <2> QED
      BY <1>0, <2>1, <2>2, ProvMoved DEF Provisioning
  <1>19. ASSUME NEW p \in Accounts, NEW a \in Accounts, DeleteTeam(p, a)
         PROVE  ProvInv'
    <2>1. Grown /\ req' = Overtaken(a, None, Idle)
      BY <1>19 DEF DeleteTeam, Rest, Grown
    <2>2. account'[a].state = "gone" /\ \A b \in Accounts \ {a} : account'[b] = account[b]
      BY <1>0, <1>19 DEF DeleteTeam, FreeRow
    <2> QED
      BY <1>0, <2>1, <2>2, ProvOvertaken, RegistrationAssumption
         DEF Bearable, Live, Provisioning
  <1>20. CASE UNCHANGED vars
    <2>1. Grown /\ \A b \in Accounts : Bearable(b) /\ (Live(b)' => Live(b))
      BY <1>20 DEF vars, Grown, Bearable, Live
    <2> QED
      BY <1>0, <1>20, <2>1, WayQuiet, ProvQuiet DEF vars
  <1> QED
    BY <1>1, <1>2, <1>4, <1>5, <1>8, <1>8a, <1>9, <1>10, <1>11, <1>12, <1>13, <1>14, <1>15,
       <1>16, <1>17, <1>18, <1>19, <1>20 DEF Next, ReadOnly

\* However sign-ups, team creations and deletions overlap and break off, an
\* account is complete, about to be, or its own handler broke off.
THEOREM AccountsComplete == Spec => []Provisioned
  <1>1. Init => ProvInv
    BY DEF Init, ProvInv, TypeOK, OnItsWay, Complete, Live, Idle, Request, FreeRow,
           Account, StatusField, Provisioning
  <1>2. ProvInv => Provisioned
    BY DEF ProvInv, Provisioned, Complete
  <1> QED
    BY <1>1, <1>2, NextProv, PTL DEF Spec

-----------------------------------------------------------------------------
(***************************************************************************)
(* Mails.  A sign-up saves a code that it has already mailed.              *)
(***************************************************************************)
MailInv ==
    /\ TypeOK
    /\ CodeMailed
    /\ \A r \in Requests : req[r].pc = "save" => req[r].code \in outbox

\* The invariant stays if every handler about to mail a code still is, or has
\* accounted for it, and every new code of a row is mailed or about to be.
LEMMA MailKept ==
    ASSUME MailInv, TypeOK', outbox \subseteq outbox', unsent \subseteq unsent',
           \A r \in Requests :
              /\ req[r].pc = "mailCode" =>
                    \/ req'[r].pc = "mailCode" /\ req'[r].code = req[r].code
                    \/ req[r].code \in outbox' \cup unsent'
              /\ req'[r].pc = "save" => req'[r].code \in outbox',
           \A a \in Accounts :
              \/ account'[a].otpCode = account[a].otpCode
              \/ account'[a].otpCode \in outbox' \cup {None}
              \/ \E r \in Requests :
                    req'[r].pc = "mailCode" /\ req'[r].code = account'[a].otpCode
    PROVE  MailInv'
  <1>1. ASSUME NEW a \in Accounts, account'[a].otpCode = account[a].otpCode,
               account[a].otpCode # None
        PROVE  \/ account[a].otpCode \in outbox' \cup unsent'
               \/ \E r \in Requests : req'[r].pc = "mailCode" /\ req'[r].code = account[a].otpCode
    BY <1>1 DEF MailInv, CodeMailed
  <1> QED
    BY <1>1 DEF MailInv, CodeMailed

\* Steps of one handler that write no row.
LEMMA MailMoved ==
    ASSUME MailInv, TypeOK', NEW r \in Requests, NEW c,
           req' = [req EXCEPT ![r] = c], account' = account,
           outbox \subseteq outbox', unsent \subseteq unsent',
           req[r].pc = "mailCode" => req[r].code \in outbox' \cup unsent',
           c.pc = "save" => c.code \in outbox'
    PROVE  MailInv'
  <1>1. req'[r] = c /\ \A q \in Requests \ {r} : req'[q] = req[q]
    BY DEF MailInv, TypeOK
  <1>2. \A q \in Requests :
              /\ req[q].pc = "mailCode" =>
                    \/ req'[q].pc = "mailCode" /\ req'[q].code = req[q].code
                    \/ req[q].code \in outbox' \cup unsent'
              /\ req'[q].pc = "save" => req'[q].code \in outbox'
    BY <1>1 DEF MailInv
  <1> QED
    BY <1>2, MailKept

\* Writes of a row by a handler that ends or goes on to mail its code.
LEMMA MailOvertaken ==
    ASSUME MailInv, TypeOK', NEW a, NEW r, NEW c \in Request, Sound(c, drawn),
           req' = Overtaken(a, r, c), c.pc \in {"idle", "mailCode"},
           UNCHANGED <<outbox, unsent>>,
           r \in Requests => req[r].pc # "mailCode",
           \A b \in Accounts :
              \/ account'[b].otpCode = account[b].otpCode
              \/ account'[b].otpCode = None
              \/ r \in Requests /\ c.pc = "mailCode" /\ account'[b].otpCode = c.code
    PROVE  MailInv'
  <1>1. /\ r \in Requests => req'[r] = c
        /\ \A q \in Requests \ {r} : req'[q].pc = req[q].pc /\ req'[q].code = req[q].code
    BY OvertakenType DEF MailInv
  <1>2. \A q \in Requests :
              /\ req[q].pc = "mailCode" => req'[q].pc = "mailCode" /\ req'[q].code = req[q].code
              /\ req'[q].pc = "save" => req'[q].code \in outbox'
    BY <1>1 DEF MailInv
  <1>3. \A b \in Accounts :
              \/ account'[b].otpCode = account[b].otpCode
              \/ account'[b].otpCode \in outbox' \cup {None}
              \/ \E q \in Requests :
                    req'[q].pc = "mailCode" /\ req'[q].code = account'[b].otpCode
    BY <1>1
  <1> QED
    BY <1>2, <1>3, MailKept

LEMMA NextMailed ==
    ASSUME MailInv, [Next]_vars
    PROVE  MailInv'
  <1>0. /\ TypeOK' /\ TypeOK
        /\ account \in [Accounts -> Account] /\ req \in [Requests -> Request]
        /\ \A r \in Requests : req[r] \in Request /\ Sound(req[r], drawn)
    BY NextType DEF MailInv, TypeOK, Sound
  <1>1. ASSUME NEW r \in Requests, NEW e \in Emails, CheckSignup(r, e)
        PROVE  MailInv'
    <2>1. PICK c \in Codes :
             req' = [req EXCEPT ![r] = [Idle EXCEPT !.pc = "mail", !.email = e, !.code = c]]
      BY <1>1 DEF CheckSignup
    <2> DEFINE q == [Idle EXCEPT !.pc = "mail", !.email = e, !.code = c]
    <2>2. q.pc = "mail" /\ req' = [req EXCEPT ![r] = q]
      BY <2>1 DEF Idle
    <2> HIDE DEF q
    <2>3. req[r].pc = "idle" /\ UNCHANGED <<account, outbox, unsent>>
      BY <1>1 DEF CheckSignup, Rest
    <2> QED
      BY <1>0, <2>2, <2>3, MailMoved
  <1>2. ASSUME NEW r \in Requests, MailSignup(r)
        PROVE  MailInv'
    <2> DEFINE q == [req[r] EXCEPT !.pc = "save"]
    <2>1. /\ q.pc = "save" /\ q.code = req[r].code /\ req' = [req EXCEPT ![r] = q]
          /\ req[r].pc = "mail"
          /\ outbox' = outbox \cup {req[r].code} /\ UNCHANGED <<account, unsent>>
      BY <1>0, <1>2 DEF MailSignup, Request, Rest
    <2> HIDE DEF q
    <2> QED
      BY <1>0, <2>1, MailMoved
  <1>3. ASSUME NEW r \in Requests, SaveSignup(r) \/ SaveTeam(r)
        PROVE  MailInv'
    <2>1. PICK a \in Accounts, row \in Account, next \in {"session", "findUser"} :
             /\ Save(r, a, row, next)
             /\ row.otpCode = None \/ (req[r].pc = "save" /\ row.otpCode = req[r].code)
      <3>1. /\ req[r].email \in Emails \cup {None} /\ req[r].code \in Codes \cup {None}
            /\ req[r].parent \in Accounts \cup {None}
        BY <1>0 DEF Request
      <3>2. CASE SaveSignup(r)
        <4> DEFINE w == [FreeRow EXCEPT !.state = "live", !.email = req[r].email,
                                        !.status = "Draft", !.otpCode = req[r].code]
        <4>1. w \in Account /\ w.otpCode = req[r].code
          BY <3>1 DEF FreeRow, Account, StatusField
        <4>2. req[r].pc = "save" /\ \E a \in Accounts : Save(r, a, w, "session")
          BY <3>2 DEF SaveSignup
        <4> HIDE DEF w
        <4> QED
          BY <4>1, <4>2
      <3>3. CASE SaveTeam(r)
        <4> DEFINE w == [FreeRow EXCEPT !.state = "live", !.email = req[r].email,
                                        !.parentId = req[r].parent]
        <4>1. w \in Account /\ w.otpCode = None
          BY <3>1 DEF FreeRow, Account, StatusField
        <4>2. \E a \in Accounts : Save(r, a, w, "findUser")
          BY <3>3 DEF SaveTeam
        <4> HIDE DEF w
        <4> QED
          BY <4>1, <4>2
      <3> QED
        BY <1>3, <3>2, <3>3
    <2>2. UNCHANGED <<outbox, unsent>>
      BY <2>1 DEF Save, Rest
    <2>3. \A b \in Accounts :
             account'[b].otpCode = account[b].otpCode \/ account'[b].otpCode \in outbox' \cup {None}
      BY <1>0, <2>1, <2>2 DEF Save, MailInv
    <2>4. \A q \in Requests \ {r} : req'[q] = req[q]
      BY <1>0, <2>1 DEF Save
    <2>5. req[r].pc # "mailCode" /\ req'[r].pc # "save"
      BY <1>0, <1>3, <2>1, IdleType DEF Save, SaveSignup, SaveTeam, Request
    <2>6. \A q \in Requests :
              /\ req[q].pc = "mailCode" => req'[q].pc = "mailCode" /\ req'[q].code = req[q].code
              /\ req'[q].pc = "save" => req'[q].code \in outbox'
      BY <2>2, <2>4, <2>5 DEF MailInv
    <2> QED
      BY <1>0, <2>2, <2>3, <2>6, MailKept
  <1>4. ASSUME NEW r \in Requests,
               \/ UpdateRtHash(r) \/ FindOwner(r) \/ SaveWorkspace(r) \/ InstallFirst(r)
               \/ MailCode(r) \/ Fail(r)
        PROVE  MailInv'
    <2>1. PICK pc \in {"findUser", "workspace", "install"} :
             \/ req' = [req EXCEPT ![r] = [req[r] EXCEPT !.pc = pc]]
             \/ req' = [req EXCEPT ![r] = Idle]
      BY <1>4 DEF UpdateRtHash, FindOwner, SaveWorkspace, InstallFirst, MailCode, Fail
    <2>2. [req[r] EXCEPT !.pc = pc].pc # "save" /\ Idle.pc # "save"
      BY <1>0, IdleType DEF Request
    <2>3. /\ account' = account
          /\ outbox \subseteq outbox' /\ unsent \subseteq unsent'
          /\ req[r].pc = "mailCode" => req[r].code \in outbox' \cup unsent'
      BY <1>4 DEF UpdateRtHash, FindOwner, SaveWorkspace, InstallFirst, MailCode, Fail, Rest
    <2> DEFINE q == [req[r] EXCEPT !.pc = pc]
    <2>4. q.pc # "save" /\ (req' = [req EXCEPT ![r] = q] \/ req' = [req EXCEPT ![r] = Idle])
      BY <2>1, <2>2
    <2> HIDE DEF q
    <2> QED
      BY <1>0, <2>2, <2>3, <2>4, MailMoved
  <1>5. ASSUME NEW r \in Requests, NEW a \in Accounts, FindDraft(r, a) \/ FindCode(r, a)
        PROVE  MailInv'
    <2>1. /\ req[r].pc = "idle" /\ UNCHANGED <<account, outbox, unsent>>
      BY <1>5 DEF FindDraft, FindCode, Rest
    <2>2. CASE FindDraft(r, a)
      <3>1. PICK c \in Codes :
               req' = [req EXCEPT ![r] =
                   [Idle EXCEPT !.pc = "writeCode", !.account = a, !.code = c]]
        BY <2>2 DEF FindDraft
      <3> DEFINE q == [Idle EXCEPT !.pc = "writeCode", !.account = a, !.code = c]
      <3>2. q.pc = "writeCode" /\ req' = [req EXCEPT ![r] = q]
        BY <3>1 DEF Idle
      <3> HIDE DEF q
      <3> QED
        BY <1>0, <2>1, <3>2, MailMoved
    <2>3. CASE FindCode(r, a)
      <3> DEFINE q == [pc |-> "verify", email |-> None, code |-> None, account |-> a,
                       parent |-> None, loose |-> account[a].loose, stale |-> FALSE]
      <3>1. q.pc = "verify" /\ req' = [req EXCEPT ![r] = q]
        BY <2>3 DEF FindCode
      <3> HIDE DEF q
      <3> QED
        BY <1>0, <2>1, <3>1, MailMoved
    <2> QED
      BY <1>5, <2>2, <2>3
  <1>6. ASSUME NEW r \in Requests, NEW p \in Accounts, NEW e \in Emails, CheckTeam(r, p, e)
        PROVE  MailInv'
    <2> DEFINE q == [Idle EXCEPT !.pc = "saveTeam", !.email = e, !.parent = p]
    <2>1. /\ q.pc = "saveTeam" /\ req' = [req EXCEPT ![r] = q] /\ req[r].pc = "idle"
          /\ UNCHANGED <<account, outbox, unsent>>
      BY <1>6 DEF CheckTeam, Idle, Rest
    <2> HIDE DEF q
    <2> QED
      BY <1>0, <2>1, MailMoved
  <1>7. ASSUME NEW r \in Requests, WriteCode(r)
        PROVE  MailInv'
    <2> DEFINE q == [req[r] EXCEPT !.pc = "mailCode"]
               a == req[r].account
               c == req[r].code
    <2>1. /\ q \in Request /\ q.pc = "mailCode" /\ q.code = c
          /\ Sound(q, drawn)
      BY <1>0, <1>7 DEF Request, Sound, Provisioning, WriteCode
    <2>2. /\ req[r].pc = "writeCode" /\ req' = Overtaken(a, r, q)
          /\ UNCHANGED <<outbox, unsent>>
          /\ account' = IF Live(a)
                        THEN [account EXCEPT ![a].otpCode = c,
                                             ![a].loose = account[a].status # "Draft"]
                        ELSE account
      BY <1>7 DEF WriteCode, Rest
    <2> HIDE DEF q, a, c
    <2>3. \A b \in Accounts :
             account'[b].otpCode = account[b].otpCode \/ account'[b].otpCode = c
      BY <1>0, <2>2 DEF Account
    <2> QED
      BY <1>0, <2>1, <2>2, <2>3, MailOvertaken
  <1>8. ASSUME NEW r \in Requests, Verify(r)
        PROVE  MailInv'
    <2>1. /\ req[r].pc = "verify" /\ req' = Overtaken(req[r].account, r, Idle)
          /\ UNCHANGED <<outbox, unsent>>
      BY <1>8 DEF Verify, Rest
    <2>2. \A b \in Accounts :
             account'[b].otpCode = account[b].otpCode \/ account'[b].otpCode = None
      BY <1>0, <1>8 DEF Verify, Account
    <2> QED
      BY <1>0, <2>1, <2>2, IdleType, MailOvertaken
  <1>9. ASSUME NEW a \in Accounts,
               \/ \E s \in StatusField : BannedUserByAdmin(a, s)
               \/ \E p \in Accounts : DeleteTeam(p, a)
        PROVE  MailInv'
    <2>1. req' = Overtaken(a, None, Idle) /\ UNCHANGED <<outbox, unsent>>
      BY <1>9 DEF BannedUserByAdmin, DeleteTeam, Rest
    <2>2. \A b \in Accounts :
             account'[b].otpCode = account[b].otpCode \/ account'[b].otpCode = None
      <3>1. CASE \E s \in StatusField : BannedUserByAdmin(a, s)
        BY <1>0, <3>1 DEF BannedUserByAdmin, Account
      <3>2. CASE \E p \in Accounts : DeleteTeam(p, a)
        <4>1. account' = [account EXCEPT ![a] = [FreeRow EXCEPT !.state = "gone"]]
          BY <3>2 DEF DeleteTeam
        <4>2. [FreeRow EXCEPT !.state = "gone"].otpCode = None
          BY DEF FreeRow
        <4> QED
          BY <1>0, <4>1, <4>2
      <3> QED
        BY <1>9, <3>1, <3>2
    <2>3. None \notin Requests
      BY RegistrationAssumption
    <2> QED
      BY <1>0, <2>1, <2>2, <2>3, IdleType, MailOvertaken
  <1>10. CASE UNCHANGED vars
    BY <1>0, <1>10 DEF vars, MailInv, CodeMailed
  <1> QED
    BY <1>1, <1>2, <1>3, <1>4, <1>5, <1>6, <1>7, <1>8, <1>9, <1>10 DEF Next, ReadOnly

\* Whoever waits for the code of an account gets a mail with it, unless the
\* handler broke off between storing the code and handing it over.
THEOREM CodesMailed == Spec => []CodeMailed
  <1>1. Init => MailInv
    <2>1. Init => TypeOK
      BY DEF Init, TypeOK, Idle, Request, FreeRow, Account, StatusField, Provisioning
    <2> QED
      BY <2>1, IdleType DEF Init, MailInv, CodeMailed, FreeRow
  <1>2. MailInv => CodeMailed
    BY DEF MailInv
  <1> QED
    BY <1>1, <1>2, NextMailed, PTL DEF Spec
=============================================================================
