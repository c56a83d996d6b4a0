-------------------------- MODULE CredentialsProofs --------------------------
(***************************************************************************)
(* Proofs about Credentials, for every set of users, passwords, tokens and *)
(* handlers.                                                               *)
(***************************************************************************)
EXTENDS Credentials, TLAPS

(***************************************************************************)
(* The inductive invariant.  Tables: a token is in one row at most, and a  *)
(* spent one in none.  Handlers: a token about to be stored is new, one    *)
(* about to be mailed is accounted for, one about to be spent is in no     *)
(* other row, and what a handler not overtaken has seen still holds.       *)
(***************************************************************************)
Stored(t) == \E u \in Users : row[u].passResetToken = t

Accounted(t) == Stored(t) \/ t \in spent \cup replaced \cup wiped

TablesInv ==
    /\ row \in [Users -> Row]
    /\ issued \subseteq Tokens
    /\ expired \subseteq issued /\ mailed \subseteq issued
    /\ spent \subseteq mailed /\ replaced \subseteq issued /\ wiped \subseteq issued
    /\ \A u \in Users : row[u].passResetToken \in issued \cup {None}
    /\ \A u, v \in Users :
          row[u].passResetToken = row[v].passResetToken /\ row[u].passResetToken # None => u = v
    /\ \A t \in spent : ~Stored(t)
    /\ \A t \in mailed : Accounted(t)

Carries == {"writeToken", "mailToken"}

HandlerInv(p) ==
    /\ p.pc # "idle" => p.user # None
    /\ p.pc \in Carries => p.token \in issued
    /\ p.pc = "writeToken" => p.token \notin mailed /\ ~Stored(p.token)
    /\ p.pc = "mailToken" => Accounted(p.token)
    /\ p.pc = "writeReset" =>
          /\ p.token \in mailed
          /\ \A v \in Users : row[v].passResetToken = p.token => v = p.user
    /\ p.pc \in {"writeReset", "writeChange"} => p.new # None
    /\ ~p.stale =>
          /\ p.pc = "writeReset" => row[p.user].passResetToken = p.token
          /\ p.pc = "writeChange" => row[p.user].password = p.old
          /\ p.pc = "writeSession" /\ p.old # None =>
                row[p.user].password = p.old /\ row[p.user].status = "Active"
          /\ p.pc = "writeSignup" => row[p.user].status # "Active"

OwnTokens ==
    \A q, r \in Requests :
        q # r /\ req[q].pc \in Carries /\ req[r].pc \in Carries => req[q].token # req[r].token

CredInv ==
    /\ TablesInv
    /\ req \in [Requests -> Request]
    /\ \A q \in Requests : HandlerInv(req[q])
    /\ OwnTokens

-----------------------------------------------------------------------------
(***************************************************************************)
(* Steps that move one handler and write no row.                           *)
(***************************************************************************)
LEMMA IdleIs == Idle \in Request /\ Idle.pc = "idle"
  BY DEF Idle, Request

\* No handler minds that tokens are drawn, expire, or that one is mailed which
\* no handler is about to store.
LEMMA Undisturbed ==
    ASSUME CredInv, NEW q \in Requests, issued \subseteq issued', mailed \subseteq mailed',
           UNCHANGED <<row, spent, replaced, wiped>>,
           req[q].pc = "writeToken" => req[q].token \notin mailed'
    PROVE  HandlerInv(req[q])' \/ req'[q] # req[q]
  BY DEF CredInv, HandlerInv, Accounted, Stored, Carries

\* CredInv survives such a step if the handler that moves is right where it is.
LEMMA Moved ==
    ASSUME CredInv, TablesInv', NEW r \in Requests, NEW c \in Request,
           issued \subseteq issued', mailed \subseteq mailed',
           UNCHANGED <<row, spent, replaced, wiped>>,
           req' = [req EXCEPT ![r] = c],
           \A q \in Requests \ {r} : req[q].pc = "writeToken" => req[q].token \notin mailed',
           HandlerInv(req[r])',
           c.pc \in Carries =>
               \A q \in Requests \ {r} : req[q].pc \in Carries => req[q].token # c.token
    PROVE  CredInv'
  <1>1. /\ req' \in [Requests -> Request] /\ req'[r] = c
        /\ \A q \in Requests \ {r} : req'[q] = req[q]
    BY DEF CredInv
  <1>2. \A q \in Requests \ {r} : HandlerInv(req[q])'
    BY <1>1, Undisturbed
  <1>3. OwnTokens'
    BY <1>1 DEF CredInv, OwnTokens, Carries
  <1> QED
    BY <1>1, <1>2, <1>3 DEF CredInv

\* The same for a step that moves a handler to a place without a token, or
\* ends it, and changes no table.
LEMMA MovedQuietly ==
    ASSUME CredInv, NEW r \in Requests, NEW c \in Request,
           UNCHANGED <<row, issued, expired, mailed, spent, replaced, wiped>>,
           req' = [req EXCEPT ![r] = c], c.pc \notin Carries, HandlerInv(c)
    PROVE  CredInv'
  <1>1. TablesInv' /\ req'[r] = c
    BY DEF CredInv, TablesInv, Stored, Accounted
  <1>2. HandlerInv(req[r])'
    BY <1>1 DEF HandlerInv, Stored, Accounted, Carries
  <1>3. \A q \in Requests : req[q].pc = "writeToken" => req[q].token \notin mailed'
    BY DEF CredInv, HandlerInv
  <1> QED
    BY <1>1, <1>2, <1>3, Moved

-----------------------------------------------------------------------------
(***************************************************************************)
(* Steps that write a row.                                                 *)
(***************************************************************************)
\* Marking the other handlers of a user stale changes nothing else of them.
LEMMA OvertakenIs ==
    ASSUME req \in [Requests -> Request], NEW u, NEW r, NEW c \in Request,
           req' = Overtaken(u, r, c)
    PROVE  /\ req' \in [Requests -> Request]
           /\ r \in Requests => req'[r] = c
           /\ \A q \in Requests \ {r} :
                 /\ req'[q].pc = req[q].pc /\ req'[q].user = req[q].user
                 /\ req'[q].token = req[q].token /\ req'[q].old = req[q].old
                 /\ req'[q].new = req[q].new
                 /\ ~req'[q].stale => ~req[q].stale /\ req[q].user # u
  <1>1. ASSUME NEW q \in Requests
        PROVE  LET marked == [req[q] EXCEPT !.stale = TRUE]
               IN  /\ marked \in Request /\ marked.pc = req[q].pc /\ marked.stale
                   /\ marked.user = req[q].user /\ marked.token = req[q].token
                   /\ marked.old = req[q].old /\ marked.new = req[q].new
    BY DEF Request
  <1>2. \A q \in Requests :
           req'[q] = IF q = r THEN c
                     ELSE IF req[q].user = u THEN [req[q] EXCEPT !.stale = TRUE]
                     ELSE req[q]
    BY DEF Overtaken
  <1>3. ASSUME NEW q \in Requests \ {r}
        PROVE  /\ req'[q].pc = req[q].pc /\ req'[q].user = req[q].user
               /\ req'[q].token = req[q].token /\ req'[q].old = req[q].old
               /\ req'[q].new = req[q].new /\ req'[q] \in Request
               /\ ~req'[q].stale => ~req[q].stale /\ req[q].user # u
    <2> DEFINE marked == [req[q] EXCEPT !.stale = TRUE]
    <2>1. /\ marked \in Request /\ marked.pc = req[q].pc /\ marked.stale
          /\ marked.user = req[q].user /\ marked.token = req[q].token
          /\ marked.old = req[q].old /\ marked.new = req[q].new
      BY <1>1
    <2>2. req'[q] = IF req[q].user = u THEN marked ELSE req[q]
      BY <1>2
    <2> HIDE DEF marked
    <2> QED
      BY <2>1, <2>2
  <1>4. req' = [q \in Requests |-> req'[q]]
    BY DEF Overtaken
  <1> QED
    BY <1>2, <1>3, <1>4

\* A write of the row of u that stores no token, and takes one away only into
\* the history, leaves CredInv as it is.
LEMMA Written ==
    ASSUME CredInv, NEW u \in Users, NEW r, NEW c \in Request, c.pc = "idle",
           req' = Overtaken(u, r, c), TablesInv',
           issued' = issued, mailed' = mailed,
           \A v \in Users \ {u} : row'[v] = row[v],
           row'[u].passResetToken \in {row[u].passResetToken, None},
           \A t \in Tokens : Accounted(t) => Accounted(t)'
    PROVE  CredInv'
  <1>1. /\ req' \in [Requests -> Request]
        /\ r \in Requests => req'[r] = c
        /\ \A q \in Requests \ {r} :
              /\ req'[q].pc = req[q].pc /\ req'[q].user = req[q].user
              /\ req'[q].token = req[q].token /\ req'[q].old = req[q].old
              /\ req'[q].new = req[q].new
              /\ ~req'[q].stale => ~req[q].stale /\ req[q].user # u
    BY OvertakenIs DEF CredInv
  <1>2. \A t \in Tokens, v \in Users :
           row'[v].passResetToken = t => row[v].passResetToken = t
    BY CredentialsAssumption
  <1>3. \A q \in Requests \ {r} : HandlerInv(req[q])'
    <2> SUFFICES ASSUME NEW q \in Requests \ {r}
                 PROVE  HandlerInv(req[q])'
      OBVIOUS
    <2>1. /\ req[q].user \in Users \cup {None}
          /\ HandlerInv(req[q])
      BY DEF CredInv, Request
    <2>2. /\ req'[q].pc = req[q].pc /\ req'[q].user = req[q].user
          /\ req'[q].token = req[q].token /\ req'[q].old = req[q].old
          /\ req'[q].new = req[q].new
          /\ ~req'[q].stale => ~req[q].stale /\ req[q].user # u
      BY <1>1
    <2>3. issued \subseteq Tokens /\ mailed \subseteq issued
      BY DEF CredInv, TablesInv
    <2>4. /\ req'[q].pc # "idle" => req'[q].user # None
          /\ req'[q].pc \in Carries => req'[q].token \in issued'
          /\ req'[q].pc \in {"writeReset", "writeChange"} => req'[q].new # None
      BY <2>1, <2>2 DEF HandlerInv, Carries
    <2>5. req'[q].pc = "writeToken" =>
             req'[q].token \notin mailed' /\ \A v \in Users : row'[v].passResetToken # req'[q].token
      BY <1>2, <2>1, <2>2, <2>3 DEF HandlerInv, Stored, Carries
    <2>6. req'[q].pc = "mailToken" => Accounted(req[q].token)'
      <3>1. ASSUME req[q].pc = "mailToken"
            PROVE  Accounted(req[q].token) /\ req[q].token \in Tokens
        BY <2>1, <3>1 DEF HandlerInv, Carries, CredInv, TablesInv
      <3>2. ASSUME NEW t, t = req[q].token, req'[q].token = t, Accounted(t)'
            PROVE  Accounted(req[q].token)'
        BY <3>2
      <3> QED
        BY <2>2, <3>1, <3>2
    <2>7. req'[q].pc = "writeReset" =>
             /\ req'[q].token \in mailed'
             /\ \A v \in Users : row'[v].passResetToken = req'[q].token => v = req'[q].user
      BY <1>2, <2>1, <2>2, <2>3 DEF HandlerInv
    <2>8. ~req'[q].stale /\ req'[q].pc # "idle" => row'[req'[q].user] = row[req[q].user]
      BY <2>1, <2>2 DEF HandlerInv
    <2>9. ~req'[q].stale =>
             /\ req'[q].pc = "writeReset" => row'[req'[q].user].passResetToken = req'[q].token
             /\ req'[q].pc = "writeChange" => row'[req'[q].user].password = req'[q].old
             /\ req'[q].pc = "writeSession" /\ req'[q].old # None =>
                   /\ row'[req'[q].user].password = req'[q].old
                   /\ row'[req'[q].user].status = "Active"
             /\ req'[q].pc = "writeSignup" => row'[req'[q].user].status # "Active"
      BY <2>1, <2>2, <2>8 DEF HandlerInv
    <2> QED
      BY <2>4, <2>5, <2>6, <2>7, <2>9 DEF HandlerInv, Stored
  <1>4. r \in Requests => HandlerInv(req[r])'
    BY <1>1 DEF HandlerInv, Carries
  <1>5. OwnTokens'
    BY <1>1 DEF CredInv, OwnTokens, Carries
  <1>6. \A q \in Requests : HandlerInv(req[q])'
    BY <1>3, <1>4
  <1> QED
    BY <1>1, <1>5, <1>6 DEF CredInv

\* What an assignment to columns of one row makes of the table.
LEMMA RowWritten ==
    ASSUME row \in [Users -> Row], NEW u \in Users, NEW p \in Passwords,
           NEW t \in Tokens \cup {None}, NEW s \in {"Active", "Banned"}
    PROVE  /\ [row EXCEPT ![u].password = p] \in [Users -> Row]
           /\ [row EXCEPT ![u].passResetToken = t] \in [Users -> Row]
           /\ [row EXCEPT ![u].password = p, ![u].passResetToken = None] \in [Users -> Row]
           /\ [row EXCEPT ![u].status = s] \in [Users -> Row]
           /\ [row EXCEPT ![u].hashedRt = TRUE] \in [Users -> Row]
           /\ [row EXCEPT ![u].hashedRt = FALSE] \in [Users -> Row]
  BY DEF Row

\* Storing or removing the hash of a refresh token, and ending the handler that
\* does it, touches nothing CredInv is about.
LEMMA HashWritten ==
    ASSUME CredInv, row' \in [Users -> Row],
           UNCHANGED <<issued, expired, mailed, spent, replaced, wiped>>,
           \A v \in Users :
              /\ row'[v].password = row[v].password
              /\ row'[v].passResetToken = row[v].passResetToken
              /\ row'[v].status = row[v].status,
           NEW r, req' = req \/ req' = [req EXCEPT ![r] = Idle]
    PROVE  CredInv'
  <1>1. TablesInv'
    BY DEF CredInv, TablesInv, Stored, Accounted
  <1>2. /\ req' \in [Requests -> Request]
        /\ \A q \in Requests : req'[q] = req[q] \/ req'[q] = Idle
    BY IdleIs DEF CredInv
  <1>3. ASSUME NEW q \in Requests
        PROVE  HandlerInv(req[q])'
    <2>1. HandlerInv(req[q]) /\ req[q].user \in Users \cup {None}
      BY DEF CredInv, Request
    <2>2. CASE req'[q] = req[q]
      BY <2>1, <2>2 DEF HandlerInv, Stored, Accounted, Carries
    <2>3. CASE req'[q] = Idle
      BY <2>3, IdleIs DEF HandlerInv, Carries
    <2> QED
      BY <1>2, <2>2, <2>3
  <1>4. OwnTokens'
    BY <1>2, IdleIs DEF CredInv, OwnTokens, Carries
  <1> QED
    BY <1>1, <1>2, <1>3, <1>4 DEF CredInv

-----------------------------------------------------------------------------
(***************************************************************************)
(* The steps.                                                              *)
(***************************************************************************)
LEMMA NextForgot ==
    ASSUME CredInv, NEW r \in Requests, NEW u \in Users, ForgotPass(r, u)
    PROVE  CredInv'
  <1>1. PICK t \in Tokens \ issued :
           /\ issued' = issued \cup {t}
           /\ req' = [req EXCEPT ![r] = [Call("writeToken", u) EXCEPT !.token = t]]
    BY DEF ForgotPass
  <1> DEFINE c == [Call("writeToken", u) EXCEPT !.token = t]
  <1>2. /\ c \in Request /\ c.pc = "writeToken" /\ c.user = u /\ c.token = t
        /\ u # None
    BY CredentialsAssumption DEF Call, Idle, Request
  <1>3. UNCHANGED <<row, expired, mailed, spent, replaced, wiped>>
    BY DEF ForgotPass
  <1>4. TablesInv'
    BY <1>1, <1>3 DEF CredInv, TablesInv, Stored, Accounted
  <1>5. req'[r] = c
    BY <1>1 DEF CredInv
  <1> HIDE DEF c
  <1>6. /\ t \in issued' /\ t \notin mailed'
        /\ \A v \in Users : row'[v].passResetToken # t
    BY <1>1, <1>3, CredentialsAssumption DEF CredInv, TablesInv
  <1>7. HandlerInv(req[r])'
    BY <1>2, <1>5, <1>6 DEF HandlerInv, Stored, Carries
  <1>8. \A q \in Requests : req[q].pc \in Carries => req[q].token # t
    BY <1>1 DEF CredInv, HandlerInv
  <1>9. \A q \in Requests : req[q].pc = "writeToken" => req[q].token \notin mailed'
    BY <1>3 DEF CredInv, HandlerInv
  <1>10. req' = [req EXCEPT ![r] = c]
    BY <1>1 DEF c
  <1> QED
    BY <1>1, <1>2, <1>3, <1>4, <1>7, <1>8, <1>9, <1>10, Moved

LEMMA NextMail ==
    ASSUME CredInv, NEW r \in Requests, MailLink(r)
    PROVE  CredInv'
  <1>1. /\ req[r].pc = "mailToken" /\ mailed' = mailed \cup {req[r].token}
        /\ req' = [req EXCEPT ![r] = Idle]
        /\ UNCHANGED <<row, issued, expired, spent, replaced, wiped>>
    BY DEF MailLink
  <1>2. Accounted(req[r].token) /\ req[r].token \in issued
    BY <1>1 DEF CredInv, HandlerInv, Carries
  <1>3. TablesInv'
    BY <1>1, <1>2 DEF CredInv, TablesInv, Stored, Accounted
  <1>4. \A q \in Requests \ {r} : req[q].pc = "writeToken" => req[q].token \notin mailed'
    BY <1>1 DEF CredInv, HandlerInv, OwnTokens, Carries
  <1>5. req'[r] = Idle
    BY <1>1 DEF CredInv
  <1>6. HandlerInv(req[r])'
    BY <1>5, IdleIs DEF HandlerInv, Carries
  <1> QED
    BY <1>1, <1>3, <1>4, <1>6, IdleIs, Moved DEF Carries

\* A handler that ends without a write.
LEMMA NextEnd ==
    ASSUME CredInv, NEW r \in Requests, Fail(r) \/ UpdateNoRtHash(r)
    PROVE  CredInv'
  <1>1. HandlerInv(Idle)
    BY IdleIs DEF HandlerInv, Carries
  <1> QED
    BY <1>1, IdleIs, MovedQuietly DEF Fail, UpdateNoRtHash, Carries

\* A handler that looks at the row of u.
LEMMA NextLook ==
    ASSUME CredInv, NEW r \in Requests, NEW u \in Users, NEW p \in Passwords,
           \/ ValidatePassResetToken(r, u, p) \/ CompareUserPassword(r, u, p)
           \/ SigninLocal(r, u) \/ LoginToUserFromAdmin(r, u) \/ RefreshTokens(r, u)
    PROVE  CredInv'
  <1>0. /\ u # None /\ p # None /\ row[u].password \in Passwords
        /\ row[u].passResetToken \in Tokens \cup {None} /\ None \notin Tokens /\ None \notin Passwords
    BY CredentialsAssumption DEF CredInv, TablesInv, Row
  <1>1. CASE ValidatePassResetToken(r, u, p)
    <2> DEFINE t == row[u].passResetToken
               c == [pc |-> "writeReset", user |-> u, token |-> t, old |-> None,
                     new |-> p, late |-> t \in expired, stale |-> FALSE]
    <2>1. /\ t \in mailed /\ req' = [req EXCEPT ![r] = c]
          /\ UNCHANGED <<row, issued, expired, mailed, spent, replaced, wiped>>
      BY <1>1 DEF ValidatePassResetToken
    <2>2. /\ c \in Request /\ c.pc = "writeReset" /\ c.user = u /\ c.token = t /\ c.new = p
      BY <1>0 DEF Request
    <2>3. t # None
      BY <2>1, <1>0 DEF CredInv, TablesInv
    <2>4. \A v \in Users : row[v].passResetToken = t => v = u
      BY <2>3 DEF CredInv, TablesInv
    <2> HIDE DEF c
    <2>5. HandlerInv(c)
      BY <1>0, <2>1, <2>2, <2>4 DEF HandlerInv, Carries
    <2> QED
      BY <2>1, <2>2, <2>5, MovedQuietly DEF Carries
  <1>2. CASE CompareUserPassword(r, u, p)
    <2> DEFINE c == [Call("writeChange", u) EXCEPT !.old = row[u].password, !.new = p]
    <2>1. /\ req' = [req EXCEPT ![r] = c]
          /\ UNCHANGED <<row, issued, expired, mailed, spent, replaced, wiped>>
      BY <1>2 DEF CompareUserPassword
    <2>2. /\ c \in Request /\ c.pc = "writeChange" /\ c.user = u
          /\ c.old = row[u].password /\ c.new = p
      BY <1>0 DEF Request, Call, Idle
    <2> HIDE DEF c
    <2>3. HandlerInv(c)
      BY <1>0, <2>2 DEF HandlerInv, Carries
    <2> QED
      BY <2>1, <2>2, <2>3, MovedQuietly DEF Carries
  <1>3. CASE SigninLocal(r, u)
    <2> DEFINE c == [Call("writeSession", u) EXCEPT !.old = row[u].password]
    <2>1. /\ row[u].status = "Active" /\ req' = [req EXCEPT ![r] = c]
          /\ UNCHANGED <<row, issued, expired, mailed, spent, replaced, wiped>>
      BY <1>3 DEF SigninLocal
    <2>2. /\ c \in Request /\ c.pc = "writeSession" /\ c.user = u
          /\ c.old = row[u].password
      BY <1>0 DEF Request, Call, Idle
    <2> HIDE DEF c
    <2>3. HandlerInv(c)
      BY <1>0, <2>1, <2>2 DEF HandlerInv, Carries
    <2> QED
      BY <2>1, <2>2, <2>3, MovedQuietly DEF Carries
  <1>4. CASE LoginToUserFromAdmin(r, u) \/ RefreshTokens(r, u)
    <2>1. PICK pc \in {"writeSession", "writeRefreshed"} :
             req' = [req EXCEPT ![r] = Call(pc, u)]
      BY <1>4 DEF LoginToUserFromAdmin, RefreshTokens
    <2>2. UNCHANGED <<row, issued, expired, mailed, spent, replaced, wiped>>
      BY <1>4 DEF LoginToUserFromAdmin, RefreshTokens
    <2> DEFINE c == Call(pc, u)
    <2>3. c \in Request /\ c.pc = pc /\ c.user = u /\ c.old = None
      BY <1>0 DEF Request, Call, Idle
    <2>4. req' = [req EXCEPT ![r] = c]
      BY <2>1
    <2> HIDE DEF c
    <2>5. HandlerInv(c)
      BY <1>0, <2>3 DEF HandlerInv, Carries
    <2> QED
      BY <2>2, <2>3, <2>4, <2>5, MovedQuietly DEF Carries
  <1> QED
    BY <1>1, <1>2, <1>3, <1>4

LEMMA NextStore ==
    ASSUME CredInv, NEW r \in Requests, UpdatePassResetToken(r)
    PROVE  CredInv'
  <1> DEFINE u == req[r].user
             t == req[r].token
             c == [req[r] EXCEPT !.pc = "mailToken"]
  <1>1. /\ req[r].pc = "writeToken" /\ row' = [row EXCEPT ![u].passResetToken = t]
        /\ replaced' = replaced \cup ({row[u].passResetToken} \ {None})
        /\ req' = Overtaken(u, r, c)
        /\ UNCHANGED <<issued, expired, mailed, spent, wiped>>
    BY DEF UpdatePassResetToken
  <1>2. /\ u \in Users /\ t \in issued /\ t \in Tokens /\ t # None
        /\ t \notin mailed /\ \A v \in Users : row[v].passResetToken # t
    BY <1>1, CredentialsAssumption DEF CredInv, TablesInv, HandlerInv, Request, Carries, Stored
  <1>3. /\ c \in Request /\ c.pc = "mailToken" /\ c.user = u /\ c.token = t
    BY DEF CredInv, Request
  <1>4. row' \in [Users -> Row]
    BY <1>1, <1>2, RowWritten DEF CredInv, TablesInv, Row
  <1>5. /\ row'[u].passResetToken = t
        /\ \A v \in Users \ {u} : row'[v] = row[v]
    BY <1>1, <1>2 DEF CredInv, TablesInv, Row
  <1> HIDE DEF c, u, t
  <1>6. \A w \in Tokens : Accounted(w) => Accounted(w)'
    <2> SUFFICES ASSUME NEW w \in Tokens, Accounted(w)
                 PROVE  Accounted(w)'
      OBVIOUS
    <2>1. w # None
      BY CredentialsAssumption
    <2>2. ASSUME NEW v \in Users, row[v].passResetToken = w
          PROVE  Accounted(w)'
      BY <1>1, <1>5, <2>1, <2>2 DEF Accounted, Stored
    <2> QED
      BY <1>1, <2>2 DEF Accounted, Stored
  <1>7. TablesInv'
    <2>1. \A v \in Users : row'[v].passResetToken \in issued' \cup {None}
      BY <1>1, <1>2, <1>5 DEF CredInv, TablesInv
    <2>2. \A v, w \in Users :
             row'[v].passResetToken = row'[w].passResetToken /\ row'[v].passResetToken # None => v = w
      BY <1>2, <1>5 DEF CredInv, TablesInv
    <2>3. \A w \in spent' : \A v \in Users : row'[v].passResetToken # w
      BY <1>1, <1>2, <1>5 DEF CredInv, TablesInv, Stored
    <2>4. replaced' \subseteq issued'
      BY <1>1, <1>2 DEF CredInv, TablesInv
    <2>5. \A w \in mailed' : Accounted(w)'
      BY <1>1, <1>6 DEF CredInv, TablesInv
    <2> QED
      BY <1>1, <1>4, <2>1, <2>2, <2>3, <2>4, <2>5 DEF CredInv, TablesInv, Stored
  <1>8. /\ req' \in [Requests -> Request] /\ req'[r] = c
        /\ \A q \in Requests \ {r} :
              /\ req'[q].pc = req[q].pc /\ req'[q].user = req[q].user
              /\ req'[q].token = req[q].token /\ req'[q].old = req[q].old
              /\ req'[q].new = req[q].new
              /\ ~req'[q].stale => ~req[q].stale /\ req[q].user # u
    BY <1>1, <1>3, OvertakenIs DEF CredInv
  <1>9. \A q \in Requests \ {r} : req[q].pc \in Carries => req[q].token # t
    BY <1>1, <1>2 DEF CredInv, OwnTokens, Carries, t
  <1>10. \A q \in Requests \ {r} : HandlerInv(req[q])'
    <2> SUFFICES ASSUME NEW q \in Requests \ {r}
                 PROVE  HandlerInv(req[q])'
      OBVIOUS
    <2>1. /\ req[q].user \in Users \cup {None}
          /\ HandlerInv(req[q])
      BY DEF CredInv, Request
    <2>2. /\ req'[q].pc = req[q].pc /\ req'[q].user = req[q].user
          /\ req'[q].token = req[q].token /\ req'[q].old = req[q].old
          /\ req'[q].new = req[q].new
          /\ ~req'[q].stale => ~req[q].stale /\ req[q].user # u
      BY <1>8
    <2>3. UNCHANGED <<issued, mailed>>
      BY <1>1
    <2>4. /\ req'[q].pc # "idle" => req'[q].user # None
          /\ req'[q].pc \in Carries => req'[q].token \in issued'
          /\ req'[q].pc \in {"writeReset", "writeChange"} => req'[q].new # None
      BY <2>1, <2>2, <2>3 DEF HandlerInv, Carries
    <2>5. req'[q].pc = "writeToken" =>
             req'[q].token \notin mailed' /\ \A v \in Users : row'[v].passResetToken # req'[q].token
      BY <1>5, <1>9, <2>1, <2>2, <2>3 DEF HandlerInv, Stored, Carries
    <2>6. req'[q].pc = "mailToken" => Accounted(req[q].token)'
      <3>1. ASSUME req[q].pc = "mailToken"
            PROVE  Accounted(req[q].token) /\ req[q].token \in Tokens
        BY <2>1, <3>1 DEF HandlerInv, Carries, CredInv, TablesInv
      <3>2. ASSUME NEW w, w = req[q].token, req'[q].token = w, Accounted(w)'
            PROVE  Accounted(req[q].token)'
        BY <3>2
      <3> QED
        BY <1>6, <2>2, <3>1, <3>2
    <2>7. req'[q].pc = "writeReset" =>
             /\ req'[q].token \in mailed'
             /\ \A v \in Users : row'[v].passResetToken = req'[q].token => v = req'[q].user
      BY <1>2, <1>5, <2>1, <2>2, <2>3 DEF HandlerInv
    <2>8. ~req'[q].stale /\ req'[q].pc # "idle" => row'[req'[q].user] = row[req[q].user]
      BY <1>5, <2>1, <2>2 DEF HandlerInv
    <2>9. ~req'[q].stale =>
             /\ req'[q].pc = "writeReset" => row'[req'[q].user].passResetToken = req'[q].token
             /\ req'[q].pc = "writeChange" => row'[req'[q].user].password = req'[q].old
             /\ req'[q].pc = "writeSession" /\ req'[q].old # None =>
                   /\ row'[req'[q].user].password = req'[q].old
                   /\ row'[req'[q].user].status = "Active"
             /\ req'[q].pc = "writeSignup" => row'[req'[q].user].status # "Active"
      BY <2>1, <2>2, <2>8 DEF HandlerInv
    <2> QED
      BY <2>4, <2>5, <2>6, <2>7, <2>9 DEF HandlerInv, Stored
  <1>11. HandlerInv(req[r])'
    BY <1>1, <1>2, <1>3, <1>5, <1>8, CredentialsAssumption DEF HandlerInv, Accounted, Stored, Carries
  <1>12. OwnTokens'
    BY <1>3, <1>8, <1>9 DEF CredInv, OwnTokens, Carries
  <1>13. \A q \in Requests : HandlerInv(req[q])'
    BY <1>10, <1>11
  <1> QED
    BY <1>7, <1>8, <1>12, <1>13 DEF CredInv

\* A write of the password or the status leaves the tokens alone.
LEMMA NextColumn ==
    ASSUME CredInv, NEW u \in Users, NEW r, row' \in [Users -> Row],
           req' = Overtaken(u, r, Idle),
           UNCHANGED <<issued, expired, mailed, spent, replaced, wiped>>,
           \A v \in Users \ {u} : row'[v] = row[v],
           row'[u].passResetToken = row[u].passResetToken
    PROVE  CredInv'
  <1>1. \A v \in Users : row'[v].passResetToken = row[v].passResetToken
    OBVIOUS
  <1>2. \A w \in Tokens : Accounted(w) => Accounted(w)'
    BY <1>1 DEF Accounted, Stored
  <1>3. TablesInv'
    BY <1>1, <1>2 DEF CredInv, TablesInv, Stored
  <1> QED
    BY <1>2, <1>3, IdleIs, Written

LEMMA NextChange ==
    ASSUME CredInv,
           \/ \E r \in Requests : PasswordChanged(r)
           \/ \E u \in Users, p \in Passwords : UpdateTeam(u, p)
           \/ \E u \in Users, s \in {"Active", "Banned"} : BannedUserByAdmin(u, s)
    PROVE  CredInv'
  <1>0. row \in [Users -> Row]
    BY DEF CredInv, TablesInv
  <1>1. ASSUME NEW r \in Requests, PasswordChanged(r)
        PROVE  CredInv'
    <2> DEFINE u == req[r].user
               p == req[r].new
    <2>1. u \in Users /\ p \in Passwords
      BY <1>1 DEF PasswordChanged, CredInv, HandlerInv, Request
    <2>2. /\ row' = [row EXCEPT ![u].password = p] /\ req' = Overtaken(u, r, Idle)
          /\ UNCHANGED <<issued, expired, mailed, spent, replaced, wiped>>
      BY <1>1 DEF PasswordChanged
    <2> HIDE DEF u, p
    <2>3. row' \in [Users -> Row]
      BY <1>0, <2>1, <2>2, RowWritten
    <2>4. /\ \A v \in Users \ {u} : row'[v] = row[v]
          /\ row'[u].passResetToken = row[u].passResetToken
      BY <1>0, <2>1, <2>2 DEF Row
    <2> QED
      BY <2>1, <2>2, <2>3, <2>4, NextColumn
  <1>2. ASSUME NEW u \in Users, NEW p \in Passwords, UpdateTeam(u, p)
        PROVE  CredInv'
    <2>1. /\ row' = [row EXCEPT ![u].password = p] /\ req' = Overtaken(u, None, Idle)
          /\ UNCHANGED <<issued, expired, mailed, spent, replaced, wiped>>
      BY <1>2 DEF UpdateTeam
    <2>2. row' \in [Users -> Row]
      BY <1>0, <2>1, RowWritten
    <2>3. /\ \A v \in Users \ {u} : row'[v] = row[v]
          /\ row'[u].passResetToken = row[u].passResetToken
      BY <1>0, <2>1 DEF Row
    <2> QED
      BY <2>1, <2>2, <2>3, NextColumn
  <1>3. ASSUME NEW u \in Users, NEW s \in {"Active", "Banned"}, BannedUserByAdmin(u, s)
        PROVE  CredInv'
    <2>1. /\ row' = [row EXCEPT ![u].status = s] /\ req' = Overtaken(u, None, Idle)
          /\ UNCHANGED <<issued, expired, mailed, spent, replaced, wiped>>
      BY <1>3 DEF BannedUserByAdmin
    <2>2. row' \in [Users -> Row]
      BY <1>0, <2>1, RowWritten DEF Row
    <2>3. /\ \A v \in Users \ {u} : row'[v] = row[v]
          /\ row'[u].passResetToken = row[u].passResetToken
      BY <1>0, <2>1 DEF Row
    <2> QED
      BY <2>1, <2>2, <2>3, NextColumn
  <1> QED
    BY <1>1, <1>2, <1>3

LEMMA NextReset ==
    ASSUME CredInv, NEW r \in Requests, UpdateUserPasswordData(r)
    PROVE  CredInv'
  <1> DEFINE u == req[r].user
             t == req[r].token
             p == req[r].new
  <1>1. /\ req[r].pc = "writeReset"
        /\ row' = [row EXCEPT ![u].password = p, ![u].passResetToken = None]
        /\ spent' = spent \cup {t}
        /\ wiped' = IF req[r].stale THEN wiped \cup ({row[u].passResetToken} \ {None, t})
                                    ELSE wiped
        /\ req' = Overtaken(u, r, Idle)
        /\ UNCHANGED <<issued, expired, mailed, replaced>>
    BY DEF UpdateUserPasswordData
  <1>2. /\ u \in Users /\ p \in Passwords /\ t \in mailed
        /\ \A v \in Users : row[v].passResetToken = t => v = u
        /\ ~req[r].stale => row[u].passResetToken = t
    BY <1>1 DEF CredInv, HandlerInv, Request
  <1>3. row \in [Users -> Row] /\ None \notin Tokens
    BY CredentialsAssumption DEF CredInv, TablesInv
  <1> HIDE DEF u, t, p
  <1>4. row' \in [Users -> Row]
    BY <1>1, <1>2, <1>3, RowWritten DEF Row
  <1>5. /\ row'[u].passResetToken = None
        /\ \A v \in Users \ {u} : row'[v] = row[v]
    BY <1>1, <1>2, <1>3 DEF Row
  <1>6. \A w \in Tokens : Accounted(w) => Accounted(w)'
    <2> SUFFICES ASSUME NEW w \in Tokens, Accounted(w)
                 PROVE  Accounted(w)'
      OBVIOUS
    <2>1. w # None
      BY <1>3
    <2>2. CASE row[u].passResetToken = w
      <3>1. w = t \/ w \in wiped'
        BY <1>1, <1>2, <2>1, <2>2
      <3> QED
        BY <1>1, <3>1 DEF Accounted
    <2>3. ASSUME NEW v \in Users \ {u}, row[v].passResetToken = w
          PROVE  Accounted(w)'
      BY <1>5, <2>3 DEF Accounted, Stored
    <2>4. CASE w \in spent \cup replaced \cup wiped
      BY <1>1, <2>4 DEF Accounted
    <2> QED
      BY <2>2, <2>3, <2>4 DEF Accounted, Stored
  <1>7. \A v, w \in Users :
           row'[v].passResetToken = row'[w].passResetToken /\ row'[v].passResetToken # None => v = w
    BY <1>5 DEF CredInv, TablesInv
  <1>8. \A w \in spent' : \A v \in Users : row'[v].passResetToken # w
    <2> SUFFICES ASSUME NEW w \in spent', NEW v \in Users
                 PROVE  row'[v].passResetToken # w
      OBVIOUS
    <2>1. w \in Tokens
      BY <1>1, <1>2 DEF CredInv, TablesInv
    <2>2. CASE v = u
      BY <1>3, <1>5, <2>1, <2>2
    <2>3. CASE v # u /\ w = t
      BY <1>2, <1>5, <2>3
    <2>4. CASE v # u /\ w \in spent
      BY <1>5, <2>4 DEF CredInv, TablesInv, Stored
    <2> QED
      BY <1>1, <2>2, <2>3, <2>4
  <1>9. /\ \A v \in Users : row'[v].passResetToken \in issued' \cup {None}
        /\ wiped' \subseteq issued' /\ spent' \subseteq mailed'
    BY <1>1, <1>2, <1>5 DEF CredInv, TablesInv
  <1>10. \A w \in mailed' : Accounted(w)'
    BY <1>1, <1>6 DEF CredInv, TablesInv
  <1>11. TablesInv'
    BY <1>1, <1>4, <1>7, <1>8, <1>9, <1>10 DEF CredInv, TablesInv, Stored
  <1> QED
    BY <1>1, <1>2, <1>5, <1>6, <1>11, IdleIs, Written

LEMMA NextHash ==
    ASSUME CredInv,
           (\E r \in Requests : UpdateRtHash(r)) \/ (\E u \in Users : Logout(u))
    PROVE  CredInv'
  <1>0. row \in [Users -> Row]
    BY DEF CredInv, TablesInv
  <1>1. ASSUME NEW r \in Requests, UpdateRtHash(r)
        PROVE  CredInv'
    <2> DEFINE u == req[r].user
    <2>1. u \in Users
      BY <1>1 DEF UpdateRtHash, CredInv, HandlerInv, Request
    <2>2. /\ row' = [row EXCEPT ![u].hashedRt = TRUE] /\ req' = [req EXCEPT ![r] = Idle]
          /\ UNCHANGED <<issued, expired, mailed, spent, replaced, wiped>>
      BY <1>1 DEF UpdateRtHash
    <2> HIDE DEF u
    <2>3. row' \in [Users -> Row]
      BY <1>0, <2>1, <2>2, RowWritten, Zenon DEF Row
    <2>4. \A v \in Users :
             /\ row'[v].password = row[v].password
             /\ row'[v].passResetToken = row[v].passResetToken
             /\ row'[v].status = row[v].status
      BY <1>0, <2>1, <2>2 DEF Row
    <2> QED
      BY <2>2, <2>3, <2>4, HashWritten
  <1>2. ASSUME NEW u \in Users, Logout(u)
        PROVE  CredInv'
    <2>1. /\ row' = [row EXCEPT ![u].hashedRt = FALSE] /\ req' = req
          /\ UNCHANGED <<issued, expired, mailed, spent, replaced, wiped>>
      BY <1>2 DEF Logout
    <2>2. row' \in [Users -> Row]
      BY <1>0, <2>1, RowWritten, Zenon DEF Row
    <2>3. \A v \in Users :
             /\ row'[v].password = row[v].password
             /\ row'[v].passResetToken = row[v].passResetToken
             /\ row'[v].status = row[v].status
      BY <1>0, <2>1 DEF Row
    <2> QED
      BY <2>1, <2>2, <2>3, HashWritten
  <1> QED
    BY <1>1, <1>2

LEMMA NextExpire ==
    ASSUME CredInv, NEW t \in Tokens, Expire(t)
    PROVE  CredInv'
  <1>1. /\ UNCHANGED <<row, issued, mailed, spent, replaced, wiped, req>>
        /\ expired' \subseteq issued'
    BY DEF Expire, CredInv, TablesInv
  <1>2. TablesInv'
    BY <1>1 DEF CredInv, TablesInv, Stored, Accounted
  <1>3. ASSUME NEW q \in Requests
        PROVE  HandlerInv(req[q])'
    BY <1>1 DEF CredInv, HandlerInv, Stored, Accounted, Carries
  <1> QED
    BY <1>1, <1>2, <1>3 DEF CredInv, OwnTokens, Carries

LEMMA NextCred ==
    ASSUME CredInv, [Next]_vars
    PROVE  CredInv'
  <1>1. ASSUME NEW r \in Requests,
               \/ UpdatePassResetToken(r) \/ MailLink(r) \/ UpdateUserPasswordData(r)
               \/ PasswordChanged(r) \/ UpdateRtHash(r) \/ UpdateNoRtHash(r) \/ Fail(r)
        PROVE  CredInv'
    BY <1>1, NextStore, NextMail, NextReset, NextChange, NextHash, NextEnd
  <1>2. ASSUME NEW r \in Requests, NEW u \in Users,
               \/ ForgotPass(r, u) \/ SigninLocal(r, u)
               \/ LoginToUserFromAdmin(r, u) \/ RefreshTokens(r, u)
        PROVE  CredInv'
    <2>1. row[u].password \in Passwords
      BY DEF CredInv, TablesInv, Row
    <2> QED
      BY <1>2, <2>1, NextForgot, NextLook
  <1>3. ASSUME NEW r \in Requests, NEW u \in Users, NEW p \in Passwords,
               ValidatePassResetToken(r, u, p) \/ CompareUserPassword(r, u, p)
        PROVE  CredInv'
    BY <1>3, NextLook
  <1>4. ASSUME \/ \E u \in Users, p \in Passwords : UpdateTeam(u, p)
               \/ \E u \in Users, s \in {"Active", "Banned"} : BannedUserByAdmin(u, s)
        PROVE  CredInv'
    BY <1>4, NextChange
  <1>5. ASSUME NEW u \in Users, Logout(u)
        PROVE  CredInv'
    BY <1>5, NextHash
  <1>6. ASSUME NEW t \in Tokens, Expire(t)
        PROVE  CredInv'
    BY <1>6, NextExpire
  <1>7. CASE UNCHANGED vars
    <2>1. TablesInv'
      BY <1>7 DEF vars, CredInv, TablesInv, Stored, Accounted
    <2>2. ASSUME NEW q \in Requests
          PROVE  HandlerInv(req[q])'
      BY <1>7 DEF vars, CredInv, HandlerInv, Stored, Accounted, Carries
    <2> QED
      BY <1>7, <2>1, <2>2 DEF vars, CredInv, OwnTokens, Carries
  <1> QED
    BY <1>1, <1>2, <1>3, <1>4, <1>5, <1>6, <1>7 DEF Next

LEMMA InitCred == Init => CredInv
  <1> SUFFICES ASSUME Init
               PROVE  CredInv
    OBVIOUS
  <1>1. /\ row \in [Users -> [password: Passwords, passResetToken: {None},
                              hashedRt: BOOLEAN, status: {"Active", "Banned"}]]
        /\ issued = {} /\ expired = {} /\ mailed = {}
        /\ spent = {} /\ replaced = {} /\ wiped = {}
        /\ req \in [Requests -> {Idle} \cup {SignupLocal(u) : u \in Users}]
    BY DEF Init
  <1>2. row \in [Users -> Row] /\ \A u \in Users : row[u].passResetToken = None
    BY <1>1 DEF Row
  <1>3. TablesInv
    BY <1>1, <1>2 DEF TablesInv
  <1>4. \A u \in Users :
           LET c == SignupLocal(u)
           IN  c \in Request /\ c.pc = "writeSignup" /\ c.user = u /\ u # None
    BY CredentialsAssumption DEF SignupLocal, Call, Idle, Request
  <1>5. \A q \in Requests :
           /\ req[q] \in Request
           /\ \/ req[q] = Idle
              \/ req[q].pc = "writeSignup" /\ req[q].user \in Users /\ req[q].user # None
    BY <1>1, <1>4, IdleIs
  <1>6. \A u \in Users : (\E r \in Requests : req[r].user = u) => row[u].status = "Banned"
    BY DEF Init
  <1>7. ASSUME NEW q \in Requests
        PROVE  HandlerInv(req[q])
    <2>1. CASE req[q] = Idle
      BY <2>1, IdleIs DEF HandlerInv, Carries
    <2>2. CASE req[q].pc = "writeSignup" /\ req[q].user \in Users /\ req[q].user # None
      <3>1. row[req[q].user].status = "Banned"
        BY <1>6, <2>2
      <3> QED
        BY <2>2, <3>1 DEF HandlerInv, Carries
    <2> QED
      BY <1>5, <2>1, <2>2
  <1>8. req \in [Requests -> Request] /\ OwnTokens
    BY <1>1, <1>5, IdleIs DEF OwnTokens, Carries
  <1> QED
    BY <1>3, <1>7, <1>8 DEF CredInv

LEMMA AlwaysCred == Spec => []CredInv
  BY InitCred, NextCred, PTL DEF Spec

-----------------------------------------------------------------------------
(***************************************************************************)
(* The properties.                                                         *)
(***************************************************************************)
\* The rows, the tokens and the handlers have their types, and no token is in
\* two rows.
THEOREM TypeCorrect == Spec => []TypeOK
  <1>1. CredInv => TypeOK
    BY DEF CredInv, TablesInv, HandlerInv, TypeOK, Carries
  <1> QED
    BY <1>1, AlwaysCred, PTL

\* A mailed link works until it is used, replaced, or cleared by a reset that
\* had been overtaken.
THEOREM LinksWork == Spec => []LinkWorks
  <1>1. CredInv => LinkWorks
    BY DEF CredInv, TablesInv, Accounted, Stored, LinkWorks
  <1> QED
    BY <1>1, AlwaysCred, PTL

\* A second reset with the same link comes only from a handler that had looked
\* before the first one wrote.
THEOREM TokensOnce == Spec => TokenOnce
  <1>1. ASSUME CredInv, NEW r \in Requests, UpdateUserPasswordData(r), req[r].token \in spent
        PROVE  req[r].stale
    BY <1>1 DEF CredInv, TablesInv, HandlerInv, Stored, UpdateUserPasswordData, Request
  <1>2. CredInv /\ [Next]_vars =>
           [\A r \in Requests :
               UpdateUserPasswordData(r) /\ req[r].token \in spent => req[r].stale]_vars
    BY <1>1
  <1> QED
    BY <1>2, AlwaysCred, PTL DEF Spec, TokenOnce

LEMMA ColumnsKept ==
    ASSUME CredInv, [Next]_vars, NEW u \in Users
    PROVE  /\ \/ row'[u].password = row[u].password
              \/ \E p \in Passwords : UpdateTeam(u, p)
              \/ \E r \in Requests :
                    req[r].user = u /\ (UpdateUserPasswordData(r) \/ PasswordChanged(r))
           /\ \/ row'[u].hashedRt = row[u].hashedRt
              \/ ~row'[u].hashedRt
              \/ \E r \in Requests : req[r].user = u /\ UpdateRtHash(r)
  <1>0. row \in [Users -> Row] /\ \A r \in Requests : req[r].pc # "idle" => req[r].user \in Users
    BY DEF CredInv, TablesInv, HandlerInv, Request
  <1>1. CASE row' = row
    BY <1>1
  <1>2. ASSUME NEW r \in Requests, UpdatePassResetToken(r)
        PROVE  row'[u].password = row[u].password /\ row'[u].hashedRt = row[u].hashedRt
    BY <1>0, <1>2 DEF UpdatePassResetToken, Row
  <1>3. ASSUME NEW r \in Requests, UpdateUserPasswordData(r) \/ PasswordChanged(r)
        PROVE  /\ row'[u].password = row[u].password \/ req[r].user = u
               /\ row'[u].hashedRt = row[u].hashedRt
    BY <1>0, <1>3 DEF UpdateUserPasswordData, PasswordChanged, Row
  <1>4. ASSUME NEW r \in Requests, UpdateRtHash(r)
        PROVE  /\ row'[u].password = row[u].password
               /\ row'[u].hashedRt = row[u].hashedRt \/ req[r].user = u
    BY <1>0, <1>4 DEF UpdateRtHash, Row
  <1>5. ASSUME NEW v \in Users, NEW p \in Passwords, UpdateTeam(v, p)
        PROVE  /\ row'[u].password = row[u].password \/ v = u
               /\ row'[u].hashedRt = row[u].hashedRt
    BY <1>0, <1>5 DEF UpdateTeam, Row
  <1>6. ASSUME NEW v \in Users, NEW s \in {"Active", "Banned"}, BannedUserByAdmin(v, s)
        PROVE  row'[u].password = row[u].password /\ row'[u].hashedRt = row[u].hashedRt
    BY <1>0, <1>6 DEF BannedUserByAdmin, Row
  <1>7. ASSUME NEW v \in Users, Logout(v)
        PROVE  /\ row'[u].password = row[u].password
               /\ row'[u].hashedRt = row[u].hashedRt \/ ~row'[u].hashedRt
    BY <1>0, <1>7 DEF Logout, Row
  <1>8. \/ row' = row
        \/ \E r \in Requests : \/ UpdatePassResetToken(r) \/ UpdateUserPasswordData(r)
                               \/ PasswordChanged(r) \/ UpdateRtHash(r)
        \/ \E v \in Users, p \in Passwords : UpdateTeam(v, p)
        \/ \E v \in Users, s \in {"Active", "Banned"} : BannedUserByAdmin(v, s)
        \/ \E v \in Users : Logout(v)
    BY DEF Next, vars, MailLink, UpdateNoRtHash, Fail, ForgotPass, SigninLocal,
           LoginToUserFromAdmin, RefreshTokens, ValidatePassResetToken, CompareUserPassword, Expire
  <1> QED
    BY <1>1, <1>2, <1>3, <1>4, <1>5, <1>6, <1>7, <1>8, Zenon

\* A password changes only under the parent, the reader of the current link,
\* or one who knew the password, unless another write overtook the proof.
THEOREM PasswordsByRight == Spec => PasswordByRight
  <1> DEFINE Right(u) ==
                 \/ \E p \in Passwords : UpdateTeam(u, p)
                 \/ \E r \in Requests :
                       /\ req[r].user = u /\ req[r].pc \in {"writeReset", "writeChange"}
                       /\ req'[r] = Idle
                       /\ \/ req[r].stale
                          \/ req[r].pc = "writeReset" /\ req[r].token = row[u].passResetToken
                          \/ req[r].pc = "writeChange" /\ req[r].old = row[u].password
  <1>1. ASSUME CredInv, NEW r \in Requests, NEW u \in Users, req[r].user = u,
               UpdateUserPasswordData(r) \/ PasswordChanged(r)
        PROVE  Right(u)
    <2>1. req'[r] = Idle /\ req[r].pc \in {"writeReset", "writeChange"}
      BY <1>1 DEF UpdateUserPasswordData, PasswordChanged, Overtaken
    <2> QED
      BY <1>1, <2>1 DEF CredInv, HandlerInv
  <1>2. ASSUME CredInv, [Next]_vars, NEW u \in Users, row'[u].password # row[u].password
        PROVE  Right(u)
    BY <1>1, <1>2, ColumnsKept
  <1>3. CredInv /\ [Next]_vars =>
           [\A u \in Users : row'[u].password # row[u].password => Right(u)]_vars
    BY <1>2
  <1> QED
    BY <1>3, AlwaysCred, PTL DEF Spec, PasswordByRight

\* A logged-out user has a session again only by signing in, Active and with
\* the password, or through the admin, and a new one while still Draft by the
\* sign-up - or from a handler that another write overtook.
THEOREM SessionsByRight == Spec => SessionByRight
  <1> DEFINE Right(u) ==
                 \E r \in Requests :
                     /\ req[r].user = u /\ req'[r] = Idle
                     /\ \/ req[r].pc = "writeSignup" /\ (req[r].stale \/ row[u].status # "Active")
                        \/ /\ req[r].pc = "writeSession"
                           /\ \/ req[r].stale
                              \/ req[r].old = None
                              \/ req[r].old = row[u].password /\ row[u].status = "Active"
  <1>1. ASSUME CredInv, NEW r \in Requests, NEW u \in Users, req[r].user = u, UpdateRtHash(r)
        PROVE  Right(u)
    <2>1. req'[r] = Idle /\ req[r].pc \in {"writeSession", "writeSignup"}
      BY <1>1 DEF UpdateRtHash, CredInv
    <2> QED
      BY <1>1, <2>1 DEF CredInv, HandlerInv
  <1>2. ASSUME CredInv, [Next]_vars, NEW u \in Users, row'[u].hashedRt /\ ~row[u].hashedRt
        PROVE  Right(u)
    <2> HIDE DEF Right
    <2>1. \E r \in Requests : req[r].user = u /\ UpdateRtHash(r)
      BY <1>2, ColumnsKept, Zenon
    <2> QED
      BY <1>1, <1>2, <2>1
  <1>3. CredInv /\ [Next]_vars =>
           [\A u \in Users : row'[u].hashedRt /\ ~row[u].hashedRt => Right(u)]_vars
    <2> HIDE DEF Right
    <2> QED
      BY <1>2, Zenon
  <1> QED
    BY <1>3, AlwaysCred, PTL DEF Spec, SessionByRight
=============================================================================
