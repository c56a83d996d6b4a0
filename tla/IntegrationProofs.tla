-------------------------- MODULE IntegrationProofs --------------------------
(***************************************************************************)
(* Proofs about Integration, for every set of users, integrations and      *)
(* calls.                                                                  *)
(***************************************************************************)
EXTENDS Integration, TLAPS

\* Marking calls stale keeps them calls, and changes nothing else of them.
LEMMA OthersType ==
    ASSUME IntegrationTypeOK, NEW r \in Calls, NEW c \in Call,
           c.pc # "idle" => c.user # Nobody /\ c.integration # Nobody,
           call' = Others(r, c)
    PROVE  /\ call' \in [Calls -> Call]
           /\ \A q \in Calls :
                 call'[q].pc # "idle" => call'[q].user # Nobody /\ call'[q].integration # Nobody
           /\ call'[r] = c
           /\ \A q \in Calls \ {r} :
                 /\ call'[q].pc = call[q].pc /\ call'[q].user = call[q].user
                 /\ call'[q].integration = call[q].integration /\ call'[q].read = call[q].read
                 /\ ~call'[q].stale => ~call[q].stale /\ call[q].user # call[r].user
  <1>0. /\ call \in [Calls -> Call]
        /\ \A q \in Calls : call[q] \in Call
    BY DEF IntegrationTypeOK
  <1>1. \A q \in Calls : [call[q] EXCEPT !.stale = TRUE] \in Call
    BY <1>0 DEF Call
  <1>2. call'[r] = c /\ \A q \in Calls \ {r} :
           call'[q] = IF call[q].user = call[r].user
                     THEN [call[q] EXCEPT !.stale = TRUE] ELSE call[q]
    BY DEF Others
  <1>3. call' \in [Calls -> Call]
    BY <1>0, <1>1 DEF Others
  <1>4. \A q \in Calls \ {r} :
           /\ call'[q].pc = call[q].pc /\ call'[q].user = call[q].user
           /\ call'[q].integration = call[q].integration /\ call'[q].read = call[q].read
           /\ ~call'[q].stale => ~call[q].stale /\ call[q].user # call[r].user
    <2> SUFFICES ASSUME NEW q \in Calls \ {r}
                 PROVE  /\ call'[q].pc = call[q].pc /\ call'[q].user = call[q].user
                        /\ call'[q].integration = call[q].integration
                        /\ call'[q].read = call[q].read
                        /\ ~call'[q].stale => ~call[q].stale /\ call[q].user # call[r].user
      OBVIOUS
    <2> DEFINE marked == [call[q] EXCEPT !.stale = TRUE]
    <2>1. /\ marked.pc = call[q].pc /\ marked.user = call[q].user /\ marked.stale
          /\ marked.integration = call[q].integration /\ marked.read = call[q].read
      BY <1>0 DEF Call
    <2>2. call'[q] = IF call[q].user = call[r].user THEN marked ELSE call[q]
      BY <1>2
    <2> HIDE DEF marked
    <2> QED
      BY <2>1, <2>2
  <1>6. call'[r] = c
    BY <1>2
  <1>5. \A q \in Calls :
           call'[q].pc # "idle" => call'[q].user # Nobody /\ call'[q].integration # Nobody
    <2> SUFFICES ASSUME NEW q \in Calls
                 PROVE  call'[q].pc # "idle" =>
                            call'[q].user # Nobody /\ call'[q].integration # Nobody
      OBVIOUS
    <2>1. CASE q = r
      BY <1>6, <2>1
    <2>2. CASE q # r
      <3>1. call[q].pc # "idle" => call[q].user # Nobody /\ call[q].integration # Nobody
        BY DEF IntegrationTypeOK
      <3>2. call'[q].pc = call[q].pc /\ call'[q].user = call[q].user
            /\ call'[q].integration = call[q].integration
        BY <1>4, <2>2
      <3> QED
        BY <3>1, <3>2
    <2> QED
      BY <2>1, <2>2
  <1> QED
    BY <1>6, <1>3, <1>4, <1>5

\* Flipping stays within the integrations.
LEMMA FlipType ==
    ASSUME NEW set \in SUBSET Integrations, NEW i \in Integrations
    PROVE  Flip(set, i) \in SUBSET Integrations
  BY DEF Flip

\* IntegrationTypeOK is inductive.
LEMMA NextType ==
    IntegrationTypeOK /\ [IntegrationNext]_callVars => IntegrationTypeOK'
  <1> SUFFICES ASSUME IntegrationTypeOK, [IntegrationNext]_callVars
               PROVE  IntegrationTypeOK'
    OBVIOUS
  <1>0. /\ ids \in [Users -> SUBSET Integrations] /\ rows \subseteq ConfigureRow
        /\ lastRow \in Nat /\ call \in [Calls -> Call]
        /\ NoCall \in Call /\ NoCall.pc = "idle"
        /\ \A r \in Calls : call[r] \in Call
    BY DEF IntegrationTypeOK, NoCall, Call
  <1>1. ASSUME NEW r \in Calls, NEW u \in Users, NEW i \in Integrations, ReadIds(r, u, i)
        PROVE  IntegrationTypeOK'
    <2> DEFINE c == [pc |-> "configure", user |-> u, integration |-> i, read |-> ids[u],
                     stale |-> FALSE]
    <2>1. c \in Call /\ c.user # Nobody /\ c.integration # Nobody
      BY <1>0, IntegrationAssumption DEF Call
    <2>2. call' = [call EXCEPT ![r] = c]
      BY <1>1 DEF ReadIds
    <2> HIDE DEF c
    <2> QED
      BY <1>0, <1>1, <2>1, <2>2 DEF IntegrationTypeOK, ReadIds
  <1>2. ASSUME NEW r \in Calls, DeleteConfiguration(r)
        PROVE  IntegrationTypeOK'
    <2>1. /\ [call[r] EXCEPT !.pc = "save"] \in Call
          /\ [call[r] EXCEPT !.pc = "save"].user # Nobody
          /\ [call[r] EXCEPT !.pc = "save"].integration # Nobody
      BY <1>0, <1>2 DEF Call, IntegrationTypeOK, DeleteConfiguration
    <2>2. /\ call' \in [Calls -> Call]
          /\ \A q \in Calls :
                call'[q].pc # "idle" => call'[q].user # Nobody /\ call'[q].integration # Nobody
      BY <1>2, <2>1, OthersType DEF DeleteConfiguration
    <2> QED
      BY <1>0, <1>2, <2>2 DEF IntegrationTypeOK, DeleteConfiguration
  <1>3. ASSUME NEW r \in Calls, InsertConfiguration(r)
        PROVE  IntegrationTypeOK'
    <2> DEFINE row == [id |-> lastRow + 1, user |-> call[r].user,
                       integration |-> call[r].integration, isEnableNow |-> FALSE]
    <2>1. /\ [call[r] EXCEPT !.pc = "save"] \in Call
          /\ [call[r] EXCEPT !.pc = "save"].user # Nobody
          /\ [call[r] EXCEPT !.pc = "save"].integration # Nobody
          /\ call[r].user \in Users /\ call[r].integration \in Integrations
      BY <1>0, <1>3 DEF Call, IntegrationTypeOK, InsertConfiguration
    <2>2. /\ call' \in [Calls -> Call]
          /\ \A q \in Calls :
                call'[q].pc # "idle" => call'[q].user # Nobody /\ call'[q].integration # Nobody
      BY <1>3, <2>1, OthersType DEF InsertConfiguration
    <2>3. row \in ConfigureRow /\ row.id = lastRow + 1 /\ rows' = rows \cup {row}
      BY <1>0, <1>3, <2>1 DEF ConfigureRow, InsertConfiguration
    <2>4. \A a \in rows : a.id \in Nat /\ a.id <= lastRow
      BY <1>0 DEF ConfigureRow, IntegrationTypeOK
    <2> HIDE DEF row
    <2>5. (\A a \in rows : a.id <= lastRow)' /\ (\A a, b \in rows : a.id = b.id => a = b)'
      BY <1>0, <1>3, <2>3, <2>4 DEF InsertConfiguration, IntegrationTypeOK
    <2> QED
      BY <1>0, <1>3, <2>2, <2>3, <2>5 DEF IntegrationTypeOK, InsertConfiguration
  <1>4. ASSUME NEW r \in Calls, SaveIds(r)
        PROVE  IntegrationTypeOK'
    <2>1. /\ call' \in [Calls -> Call]
          /\ \A q \in Calls :
                call'[q].pc # "idle" => call'[q].user # Nobody /\ call'[q].integration # Nobody
      BY <1>0, <1>4, OthersType DEF SaveIds
    <2>2. Flip(call[r].read, call[r].integration) \in SUBSET Integrations
      BY <1>0, <1>4, FlipType DEF SaveIds, IntegrationTypeOK, Call
    <2>3. ids' \in [Users -> SUBSET Integrations]
      BY <1>0, <1>4, <2>2 DEF SaveIds
    <2> QED
      BY <1>0, <1>4, <2>1, <2>3 DEF IntegrationTypeOK, SaveIds
  <1>5. ASSUME NEW r \in Calls, CallFails(r)
        PROVE  IntegrationTypeOK'
    <2>1. call[r].user \in Users /\ call[r].integration \in Integrations
      BY <1>0, <1>5 DEF Call, CallFails, IntegrationTypeOK
    <2>2. broken' \subseteq Users \X Integrations
      BY <1>5, <2>1 DEF CallFails, IntegrationTypeOK
    <2> QED
      BY <1>0, <1>5, <2>2 DEF CallFails, IntegrationTypeOK
  <1>6. ASSUME NEW u \in Users, NEW i \in Integrations, NEW enable \in BOOLEAN,
               UpdateIntegrationConfig(u, i, enable)
        PROVE  IntegrationTypeOK'
    <2> DEFINE new(a) == IF a.user = u /\ a.integration = i
                         THEN [a EXCEPT !.isEnableNow = enable] ELSE a
    <2>1. \A a \in rows : new(a) \in ConfigureRow /\ new(a).id = a.id
      BY <1>0 DEF ConfigureRow
    <2>2. rows' = {new(a) : a \in rows}
      BY <1>6 DEF UpdateIntegrationConfig
    <2> HIDE DEF new
    <2> QED
      BY <1>0, <1>6, <2>1, <2>2 DEF IntegrationTypeOK, UpdateIntegrationConfig
  <1>7. CASE UNCHANGED callVars
    BY <1>7 DEF IntegrationTypeOK, callVars
  <1> QED
    BY <1>1, <1>2, <1>3, <1>4, <1>5, <1>6, <1>7 DEF IntegrationNext

\* Both stores, the sequence and the calls always have their types, and a row
\* id names one row.
THEOREM TypeCorrect == IntegrationSpec => []IntegrationTypeOK
  <1>1. IntegrationInit => IntegrationTypeOK
    BY DEF IntegrationInit, IntegrationTypeOK, NoCall, Call
  <1> QED
    BY <1>1, NextType, PTL DEF IntegrationSpec

-----------------------------------------------------------------------------
(***************************************************************************)
(* A call that nobody of its user has overtaken knows its own row.         *)
(***************************************************************************)
HasRow(u, i) == \E a \in rows : a.user = u /\ a.integration = i

HasRowNext(u, i) == \E a \in rows' : a.user = u /\ a.integration = i

\* A call about to save, and not marked stale, has or lacks its row as it read
\* that it lacked or had the integration.
RowKnown(r) ==
    call[r].pc = "save" /\ ~call[r].stale =>
        (call[r].integration \notin call[r].read <=> HasRow(call[r].user, call[r].integration))

AnswerInv == IntegrationTypeOK /\ \A r \in Calls : RowKnown(r)

\* A change of rows of other users, or of calls that were marked, is harmless.
LEMMA KnownQuiet ==
    ASSUME AnswerInv, NEW q \in Calls,
           \/ call'[q].pc # "save"
           \/ call'[q].stale
           \/ /\ call'[q].pc = call[q].pc /\ call'[q].user = call[q].user /\ ~call[q].stale
              /\ call'[q].integration = call[q].integration /\ call'[q].read = call[q].read
              /\ \A i : HasRow(call[q].user, i) <=> HasRowNext(call[q].user, i)
    PROVE  RowKnown(q)'
  <1> SUFFICES ASSUME call'[q].pc = "save", ~call'[q].stale
               PROVE  call'[q].integration \notin call'[q].read <=>
                         (\E a \in rows' : a.user = call'[q].user /\
                                           a.integration = call'[q].integration)
    BY DEF RowKnown, HasRow
  <1> QED
    BY DEF AnswerInv, RowKnown, HasRow, HasRowNext

\* AnswerInv is inductive.
LEMMA NextAnswer ==
    AnswerInv /\ [IntegrationNext]_callVars => AnswerInv'
  <1> SUFFICES ASSUME AnswerInv, [IntegrationNext]_callVars
               PROVE  AnswerInv'
    OBVIOUS
  <1>0. /\ IntegrationTypeOK /\ IntegrationTypeOK' /\ rows \subseteq ConfigureRow
        /\ call \in [Calls -> Call] /\ NoCall \in Call /\ NoCall.pc = "idle"
        /\ \A r \in Calls : call[r] \in Call
    BY NextType DEF AnswerInv, IntegrationTypeOK, NoCall, Call
  <1> SUFFICES ASSUME NEW q \in Calls
               PROVE  RowKnown(q)'
    BY <1>0 DEF AnswerInv
  <1>1. ASSUME rows' = rows, call'[q] = call[q]
        PROVE  RowKnown(q)'
    BY <1>1 DEF AnswerInv, RowKnown, HasRow
  <1>2. ASSUME NEW r \in Calls, NEW u \in Users, NEW i \in Integrations, ReadIds(r, u, i)
        PROVE  RowKnown(q)'
    <2>1. CASE q = r
      <3>1. call'[q].pc = "configure"
        BY <1>0, <1>2, <2>1 DEF ReadIds
      <3> QED
        BY <3>1, KnownQuiet
    <2>2. CASE q # r
      BY <1>0, <1>1, <1>2, <2>2 DEF ReadIds
    <2> QED
      BY <2>1, <2>2
  <1>3. ASSUME NEW r \in Calls, DeleteConfiguration(r)
        PROVE  RowKnown(q)'
    <2> DEFINE c == [call[r] EXCEPT !.pc = "save"]
    <2>1. /\ c \in Call /\ c.pc = "save" /\ c.user = call[r].user /\ c.read = call[r].read
          /\ c.integration = call[r].integration /\ call' = Others(r, c)
          /\ c.user # Nobody /\ c.integration # Nobody
      BY <1>0, <1>3 DEF Call, DeleteConfiguration, IntegrationTypeOK
    <2> HIDE DEF c
    <2>2. CASE q = r
      <3>1. call'[q] = c
        BY <1>0, <2>1, <2>2, OthersType
      <3>2. ~HasRowNext(call[r].user, call[r].integration) /\ call[r].integration \in call[r].read
        BY <1>3 DEF DeleteConfiguration, HasRow, HasRowNext
      <3> QED
        BY <2>1, <2>2, <3>1, <3>2 DEF RowKnown, HasRow, HasRowNext
    <2>3. CASE q # r
      <3>1. /\ call'[q].pc = call[q].pc /\ call'[q].user = call[q].user
            /\ call'[q].integration = call[q].integration /\ call'[q].read = call[q].read
            /\ ~call'[q].stale => ~call[q].stale /\ call[q].user # call[r].user
        BY <1>0, <2>1, <2>3, OthersType
      <3>2. call[q].user # call[r].user =>
               \A i : HasRow(call[q].user, i) <=> HasRowNext(call[q].user, i)
        BY <1>3 DEF DeleteConfiguration, HasRow, HasRowNext
      <3> QED
        BY <3>1, <3>2, KnownQuiet
    <2> QED
      BY <2>2, <2>3
  <1>4. ASSUME NEW r \in Calls, InsertConfiguration(r)
        PROVE  RowKnown(q)'
    <2> DEFINE c == [call[r] EXCEPT !.pc = "save"]
               row == [id |-> lastRow + 1, user |-> call[r].user,
                       integration |-> call[r].integration, isEnableNow |-> FALSE]
    <2>1. /\ c \in Call /\ c.pc = "save" /\ c.user = call[r].user /\ c.read = call[r].read
          /\ c.integration = call[r].integration /\ call' = Others(r, c)
          /\ c.user # Nobody /\ c.integration # Nobody
      BY <1>0, <1>4 DEF Call, InsertConfiguration, IntegrationTypeOK
    <2>2. /\ rows' = rows \cup {row} /\ row.user = call[r].user
          /\ row.integration = call[r].integration /\ call[r].integration \notin call[r].read
      BY <1>4 DEF InsertConfiguration
    <2> HIDE DEF c, row
    <2>3. CASE q = r
      <3>1. call'[q] = c
        BY <1>0, <2>1, <2>3, OthersType
      <3>2. \E a \in rows' : a.user = c.user /\ a.integration = c.integration
        BY <2>1, <2>2
      <3> QED
        BY <2>1, <2>2, <2>3, <3>1, <3>2 DEF RowKnown, HasRow, HasRowNext
    <2>4. CASE q # r
      <3>1. /\ call'[q].pc = call[q].pc /\ call'[q].user = call[q].user
            /\ call'[q].integration = call[q].integration /\ call'[q].read = call[q].read
            /\ ~call'[q].stale => ~call[q].stale /\ call[q].user # call[r].user
        BY <1>0, <2>1, <2>4, OthersType
      <3>2. call[q].user # call[r].user =>
               \A i : HasRow(call[q].user, i) <=> HasRowNext(call[q].user, i)
        BY <2>2 DEF HasRow, HasRowNext
      <3> QED
        BY <3>1, <3>2, KnownQuiet
    <2> QED
      BY <2>3, <2>4
  <1>5. ASSUME NEW r \in Calls, SaveIds(r)
        PROVE  RowKnown(q)'
    <2>1. call'[r].pc = "idle"
      BY <1>0, <1>5 DEF SaveIds, Others
    <2>2. CASE q # r
      <3>1. /\ call'[q].pc = call[q].pc /\ call'[q].user = call[q].user
            /\ call'[q].integration = call[q].integration /\ call'[q].read = call[q].read
            /\ ~call'[q].stale => ~call[q].stale
        BY <1>0, <1>5, <2>2, OthersType DEF SaveIds
      <3>2. rows' = rows
        BY <1>5 DEF SaveIds
      <3> QED
        BY <3>1, <3>2, KnownQuiet DEF HasRow, HasRowNext
    <2> QED
      BY <2>1, <2>2, KnownQuiet
  <1>6. ASSUME NEW r \in Calls, CallFails(r)
        PROVE  RowKnown(q)'
    <2>1. call'[r].pc = "idle" /\ (q # r => call'[q] = call[q]) /\ rows' = rows
      BY <1>0, <1>6 DEF CallFails
    <2> QED
      BY <1>1, <2>1, KnownQuiet
  <1>7. ASSUME NEW u \in Users, NEW i \in Integrations, NEW enable \in BOOLEAN,
               UpdateIntegrationConfig(u, i, enable)
        PROVE  RowKnown(q)'
    <2> DEFINE new(a) == IF a.user = u /\ a.integration = i
                         THEN [a EXCEPT !.isEnableNow = enable] ELSE a
    <2>1. \A a \in rows : new(a).user = a.user /\ new(a).integration = a.integration
      BY <1>0 DEF ConfigureRow
    <2>2. rows' = {new(a) : a \in rows} /\ call' = call
      BY <1>7 DEF UpdateIntegrationConfig
    <2> HIDE DEF new
    <2>3. \A v, j : (\E a \in rows : a.user = v /\ a.integration = j) <=>
                    (\E a \in rows' : a.user = v /\ a.integration = j)
      BY <2>1, <2>2
    <2>4. \A v, j : HasRow(v, j) <=> HasRowNext(v, j)
      BY <2>3 DEF HasRow, HasRowNext
    <2> QED
      BY <2>2, <2>4, KnownQuiet
  <1>8. CASE UNCHANGED callVars
    BY <1>1, <1>8 DEF callVars
  <1> QED
    BY <1>2, <1>3, <1>4, <1>5, <1>6, <1>7, <1>8 DEF IntegrationNext

\* However calls overlap and fail: a call that no other of its user's calls has
\* overtaken leaves both stores saying the same about its integration.
THEOREM AnswersHold == IntegrationSpec => AnswerHolds
  <1>1. IntegrationInit => AnswerInv
    <2>1. IntegrationInit => IntegrationTypeOK
      BY DEF IntegrationInit, IntegrationTypeOK, NoCall, Call
    <2> QED
      BY <2>1 DEF IntegrationInit, AnswerInv, RowKnown, NoCall
  <1>2. ASSUME AnswerInv, [IntegrationNext]_callVars, NEW r \in Calls, SaveIds(r), ~call[r].stale
        PROVE  call[r].integration \in ids'[call[r].user] <=>
                  \E a \in rows' : a.user = call[r].user /\ a.integration = call[r].integration
    <2>1. /\ ids \in [Users -> SUBSET Integrations] /\ call[r].user \in Users
      BY <1>2 DEF AnswerInv, IntegrationTypeOK, Call, SaveIds
    <2>2. ids'[call[r].user] = Flip(call[r].read, call[r].integration)
      BY <1>2, <2>1 DEF SaveIds
    <2>3. call[r].integration \in ids'[call[r].user] <=> call[r].integration \notin call[r].read
      BY <2>2 DEF Flip
    <2>4. rows' = rows /\ call[r].pc = "save"
      BY <1>2 DEF SaveIds
    <2> QED
      BY <1>2, <2>3, <2>4 DEF AnswerInv, RowKnown, HasRow
  <1>3. AnswerInv /\ [IntegrationNext]_callVars =>
          [\A r \in Calls : SaveIds(r) /\ ~call[r].stale =>
             (call[r].integration \in ids'[call[r].user] <=>
                 \E a \in rows' :
                     a.user = call[r].user /\ a.integration = call[r].integration)]_callVars
    BY <1>2
  <1> QED
    BY <1>1, <1>3, NextAnswer, PTL DEF IntegrationSpec, AnswerHolds

-----------------------------------------------------------------------------
(***************************************************************************)
(* Where the calls of one user come one after the other, a call in flight  *)
(* still has the list as it is, so writing it back is one toggle.          *)
(***************************************************************************)
\* One call per user, and its list is up to date.
OnePerUser ==
    /\ \A r \in Calls : call[r].pc = "idle" => call[r].user = Nobody
    /\ \A q, r \in Calls : call[q].user = call[r].user /\ call[r].user # Nobody => q = r
    /\ \A r \in Calls : call[r].pc # "idle" => call[r].read = ids[call[r].user]

SerialInv == IntegrationTypeOK /\ OnePerUser

\* SerialInv is inductive where calls of one user do not overlap.
LEMMA NextSerial ==
    ASSUME ~Overlap
    PROVE  SerialInv /\ [IntegrationNext]_callVars => SerialInv'
  <1> SUFFICES ASSUME SerialInv, [IntegrationNext]_callVars
               PROVE  OnePerUser'
    BY NextType DEF SerialInv
  <1>0. /\ IntegrationTypeOK /\ OnePerUser /\ ids \in [Users -> SUBSET Integrations]
        /\ call \in [Calls -> Call] /\ \A r \in Calls : call[r] \in Call
        /\ NoCall \in Call /\ NoCall.pc = "idle" /\ NoCall.user = Nobody
        /\ \A r \in Calls : call[r].pc # "idle" => call[r].user \in Users
    BY DEF SerialInv, IntegrationTypeOK, NoCall, Call
  <1>1. ASSUME NEW r \in Calls, NEW u \in Users, NEW i \in Integrations, ReadIds(r, u, i)
        PROVE  OnePerUser'
    <2> DEFINE c == [pc |-> "configure", user |-> u, integration |-> i, read |-> ids[u],
                     stale |-> FALSE]
    <2>1. c.pc = "configure" /\ c.user = u /\ c.read = ids[u] /\ u # Nobody
      BY IntegrationAssumption
    <2>2. /\ ids' = ids /\ \A q \in Calls : call'[q] = IF q = r THEN c ELSE call[q]
          /\ \A q \in Calls : call[q].user # u
      BY <1>0, <1>1 DEF ReadIds
    <2> HIDE DEF c
    <2> QED
      BY <1>0, <2>1, <2>2 DEF OnePerUser
  \* r moves on with what it has read; every other call is of another user.
  <1>2. ASSUME NEW r \in Calls, NEW c \in Call, call[r].pc # "idle",
               call' = Others(r, c), ids' = ids, c.pc # "idle", c.user = call[r].user,
               c.integration = call[r].integration, c.read = call[r].read
        PROVE  OnePerUser'
    <2>1. /\ call'[r] = c
          /\ \A q \in Calls \ {r} : /\ call'[q].pc = call[q].pc /\ call'[q].user = call[q].user
                                    /\ call'[q].read = call[q].read
      BY <1>0, <1>2, OthersType DEF IntegrationTypeOK
    <2> QED
      BY <1>0, <1>2, <2>1 DEF OnePerUser
  <1>3. ASSUME NEW r \in Calls, DeleteConfiguration(r) \/ InsertConfiguration(r)
        PROVE  OnePerUser'
    <2> DEFINE c == [call[r] EXCEPT !.pc = "save"]
    <2>1. /\ c \in Call /\ c.pc = "save" /\ c.user = call[r].user
          /\ c.integration = call[r].integration /\ c.read = call[r].read
      BY <1>0 DEF Call
    <2>2. call' = Others(r, c) /\ ids' = ids /\ call[r].pc # "idle"
      BY <1>3 DEF DeleteConfiguration, InsertConfiguration
    <2> HIDE DEF c
    <2> QED
      BY <1>2, <2>1, <2>2
  <1>4. ASSUME NEW r \in Calls, SaveIds(r)
        PROVE  OnePerUser'
    <2>1. /\ call'[r] = NoCall
          /\ \A q \in Calls \ {r} : /\ call'[q].pc = call[q].pc /\ call'[q].user = call[q].user
                                    /\ call'[q].read = call[q].read
      BY <1>0, <1>4, OthersType DEF SaveIds
    <2>2. \A u \in Users \ {call[r].user} : ids'[u] = ids[u]
      BY <1>0, <1>4 DEF SaveIds
    <2>3. \A q \in Calls \ {r} : call[q].pc # "idle" => call[q].user # call[r].user
      BY <1>0, <1>4, IntegrationAssumption DEF OnePerUser, SaveIds
    <2> QED
      BY <1>0, <2>1, <2>2, <2>3 DEF OnePerUser
  <1>5. ASSUME NEW r \in Calls, CallFails(r)
        PROVE  OnePerUser'
    <2>1. ids' = ids /\ \A q \in Calls : call'[q] = IF q = r THEN NoCall ELSE call[q]
      BY <1>0, <1>5 DEF CallFails
    <2> QED
      BY <1>0, <2>1 DEF OnePerUser
  <1>6. CASE UNCHANGED <<ids, call>>
    BY <1>0, <1>6 DEF OnePerUser
  <1> QED
    BY <1>1, <1>3, <1>4, <1>5, <1>6 DEF IntegrationNext, UpdateIntegrationConfig, callVars

\* Initially no call is in flight.
LEMMA InitSerial ==
    IntegrationInit => SerialInv
  BY DEF IntegrationInit, SerialInv, OnePerUser, IntegrationTypeOK, NoCall, Call

\* Where the calls of one user do not overlap, updateIntegration implements the
\* one-step toggle that the integration page shows, even when statements fail.
THEOREM ImplementsToggle ==
    ASSUME ~Overlap
    PROVE  IntegrationSpec => TogglesInstallation
  <1>1. IntegrationInit => Page!Init
    BY DEF IntegrationInit, Page!Init
  <1>2. SerialInv /\ [IntegrationNext]_callVars => [Page!Next]_ids
    <2> SUFFICES ASSUME SerialInv, [IntegrationNext]_callVars
                 PROVE  [Page!Next]_ids
      OBVIOUS
    <2>1. ASSUME NEW r \in Calls, SaveIds(r)
          PROVE  Page!Next
      <3>1. /\ call[r].user \in Users /\ call[r].integration \in Integrations
            /\ call[r].read = ids[call[r].user] /\ ids \in [Users -> SUBSET Integrations]
        BY <2>1 DEF SerialInv, OnePerUser, IntegrationTypeOK, Call, SaveIds
      <3>2. ids' = [ids EXCEPT ![call[r].user] =
                       Page!Flip(ids[call[r].user], call[r].integration)]
        BY <2>1, <3>1 DEF SaveIds, Flip, Page!Flip
      <3>3. Page!Toggle(call[r].user, call[r].integration)
        BY <3>2 DEF Page!Toggle
      <3> QED
        BY <3>1, <3>3 DEF Page!Next
    <2>2. CASE ids' = ids
      BY <2>2
    <2> QED
      BY <2>1, <2>2
      DEF IntegrationNext, ReadIds, DeleteConfiguration, InsertConfiguration, CallFails,
          UpdateIntegrationConfig, callVars
  <1>3. SerialInv /\ [IntegrationNext]_callVars => SerialInv'
    BY NextSerial
  <1> QED
    BY <1>1, <1>2, <1>3, InitSerial, PTL DEF IntegrationSpec, Page!Spec, TogglesInstallation

-----------------------------------------------------------------------------
(***************************************************************************)
(* The two stores.  They differ on an integration only while a call has    *)
(* changed its row and has yet to write the list, or once such a call has  *)
(* broken off.                                                             *)
(***************************************************************************)
\* No call on i has broken off between its two writes.
Sound(u, i) == <<u, i>> \notin broken

\* i has at most one row.
OneRow(u, i) ==
    \A a, b \in rows :
        a.user = u /\ b.user = u /\ a.integration = i /\ b.integration = i => a = b

Saving(r, u, i) == call[r].user = u /\ call[r].integration = i /\ call[r].pc = "save"

\* What the list says of i holds of the rows, unless a call has just changed
\* the row; then the opposite of what that call has read holds.
Agree(u, i) ==
    /\ OneRow(u, i)
    /\ (\A r \in Calls : ~Saving(r, u, i)) => (HasRow(u, i) <=> i \in ids[u])
    /\ \A r \in Calls : Saving(r, u, i) => (HasRow(u, i) <=> i \notin call[r].read)

StoresInv ==
    SerialInv /\ \A u \in Users, i \in Integrations : Sound(u, i) => Agree(u, i)

\* StoresInv is inductive where calls do not overlap.
LEMMA NextStores ==
    ASSUME ~Overlap
    PROVE  StoresInv /\ [IntegrationNext]_callVars => StoresInv'
  <1> SUFFICES ASSUME StoresInv, [IntegrationNext]_callVars,
                      NEW v \in Users, NEW j \in Integrations, Sound(v, j)'
               PROVE  Agree(v, j)'
    BY NextSerial DEF StoresInv
  <1>0. /\ IntegrationTypeOK /\ OnePerUser /\ IntegrationTypeOK'
        /\ ids \in [Users -> SUBSET Integrations] /\ rows \subseteq ConfigureRow
        /\ call \in [Calls -> Call] /\ \A r \in Calls : call[r] \in Call
        /\ NoCall \in Call /\ NoCall.pc = "idle"
        /\ \A r \in Calls : call[r].pc # "idle" => call[r].user \in Users
    BY NextSerial DEF StoresInv, SerialInv, IntegrationTypeOK, NoCall, Call
  <1>a. Agree(v, j)
    <2>1. broken \subseteq broken'
      BY DEF IntegrationNext, ReadIds, DeleteConfiguration, InsertConfiguration, SaveIds,
             CallFails, UpdateIntegrationConfig, callVars
    <2>2. Sound(v, j)
      BY <2>1 DEF Sound
    <2> QED
      BY <2>2 DEF StoresInv
  \* What a step must leave alone for j to stay as it was.
  <1>1. ASSUME ids'[v] = ids[v], OneRow(v, j)', HasRow(v, j) <=> HasRowNext(v, j),
               \A r \in Calls : Saving(r, v, j) <=> Saving(r, v, j)',
               \A r \in Calls : Saving(r, v, j) => call'[r].read = call[r].read
        PROVE  Agree(v, j)'
    <2>1. HasRow(v, j)' <=> HasRow(v, j)
      BY <1>1 DEF HasRow, HasRowNext
    <2> QED
      BY <1>1, <1>a, <2>1 DEF Agree
  <1>2. ASSUME rows' = rows
        PROVE  OneRow(v, j)' /\ (HasRow(v, j) <=> HasRowNext(v, j))
    BY <1>2, <1>a DEF Agree, OneRow, HasRow, HasRowNext
  <1>3. ASSUME NEW r \in Calls, NEW u \in Users, NEW i \in Integrations, ReadIds(r, u, i)
        PROVE  Agree(v, j)'
    <2>1. /\ ids' = ids /\ rows' = rows /\ call[r].pc = "idle" /\ call'[r].pc = "configure"
          /\ \A q \in Calls \ {r} : call'[q] = call[q]
      BY <1>0, <1>3 DEF ReadIds
    <2>2. \A q \in Calls : Saving(q, v, j) <=> Saving(q, v, j)'
      BY <2>1 DEF Saving
    <2>3. \A q \in Calls : Saving(q, v, j) => call'[q].read = call[q].read
      BY <2>1 DEF Saving
    <2> QED
      BY <1>1, <1>2, <2>1, <2>2, <2>3
  \* r has changed the row of its integration, if it changed the rows at all.
  <1>4. ASSUME NEW r \in Calls, call[r].pc = "configure", ids' = ids,
               call' = Others(r, [call[r] EXCEPT !.pc = "save"]), OneRow(v, j)',
               v # call[r].user \/ j # call[r].integration => (HasRow(v, j) <=> HasRowNext(v, j)),
               v = call[r].user /\ j = call[r].integration =>
                   (HasRowNext(v, j) <=> j \notin call[r].read)
        PROVE  Agree(v, j)'
    <2> DEFINE c == [call[r] EXCEPT !.pc = "save"]
    <2>1. /\ c \in Call /\ c.pc = "save" /\ c.user = call[r].user
          /\ c.integration = call[r].integration /\ c.read = call[r].read
          /\ c.user # Nobody /\ c.integration # Nobody
      BY <1>0, <1>4 DEF Call, IntegrationTypeOK
    <2>0. call' = Others(r, c)
      BY <1>4
    <2> HIDE DEF c
    <2>2. /\ call'[r] = c
          /\ \A q \in Calls \ {r} :
                /\ call'[q].pc = call[q].pc /\ call'[q].user = call[q].user
                /\ call'[q].integration = call[q].integration /\ call'[q].read = call[q].read
      BY <1>0, <2>0, <2>1, OthersType
    <2>3. \A q \in Calls \ {r} : call[q].pc # "idle" => call[q].user # call[r].user
      BY <1>0, <1>4, IntegrationAssumption DEF OnePerUser
    <2>4. CASE v = call[r].user /\ j = call[r].integration
      <3>1. Saving(r, v, j)'
        BY <2>1, <2>2, <2>4 DEF Saving
      <3>2. \A q \in Calls : Saving(q, v, j)' => call'[q].read = call[r].read
        BY <2>1, <2>2, <2>3, <2>4 DEF Saving
      <3>3. HasRow(v, j)' <=> j \notin call[r].read
        BY <1>4, <2>4 DEF HasRow, HasRowNext
      <3> QED
        BY <1>4, <3>1, <3>2, <3>3 DEF Agree
    <2>5. CASE v # call[r].user \/ j # call[r].integration
      <3>1. ids'[v] = ids[v] /\ (HasRow(v, j) <=> HasRowNext(v, j))
        BY <1>4, <2>5
      <3>2. \A q \in Calls : Saving(q, v, j) <=> Saving(q, v, j)'
        BY <1>4, <2>1, <2>2, <2>5 DEF Saving
      <3>3. \A q \in Calls : Saving(q, v, j) => call'[q].read = call[q].read
        BY <2>1, <2>2 DEF Saving
      <3> QED
        BY <1>1, <1>4, <3>1, <3>2, <3>3
    <2> QED
      BY <2>4, <2>5
  \* A call about to change its row finds it as its list says.
  <1>5. ASSUME NEW r \in Calls, call[r].pc = "configure", v = call[r].user, j = call[r].integration
        PROVE  HasRow(v, j) <=> j \in call[r].read
    <2>1. call[r].read = ids[v]
      BY <1>5 DEF StoresInv, SerialInv, OnePerUser
    <2>2. \A q \in Calls : ~Saving(q, v, j)
      BY <1>0, <1>5, IntegrationAssumption DEF Saving, OnePerUser
    <2> QED
      BY <1>a, <2>1, <2>2 DEF Agree
  <1>6. ASSUME NEW r \in Calls, DeleteConfiguration(r)
        PROVE  Agree(v, j)'
    <2>1. /\ call[r].pc = "configure" /\ ids' = ids
          /\ call' = Others(r, [call[r] EXCEPT !.pc = "save"])
          /\ call[r].integration \in call[r].read
          /\ rows' = {a \in rows : a.user # call[r].user \/ a.integration # call[r].integration}
      BY <1>6 DEF DeleteConfiguration
    <2>2. OneRow(v, j)'
      BY <1>a, <2>1 DEF Agree, OneRow
    <2>3. v # call[r].user \/ j # call[r].integration => (HasRow(v, j) <=> HasRowNext(v, j))
      BY <2>1 DEF HasRow, HasRowNext
    <2>4. v = call[r].user /\ j = call[r].integration => ~HasRowNext(v, j)
      BY <2>1 DEF HasRowNext
    <2> QED
      BY <1>4, <2>1, <2>2, <2>3, <2>4
  <1>7. ASSUME NEW r \in Calls, InsertConfiguration(r)
        PROVE  Agree(v, j)'
    <2> DEFINE row == [id |-> lastRow + 1, user |-> call[r].user,
                       integration |-> call[r].integration, isEnableNow |-> FALSE]
    <2>1. /\ call[r].pc = "configure" /\ ids' = ids
          /\ call' = Others(r, [call[r] EXCEPT !.pc = "save"])
          /\ call[r].integration \notin call[r].read
          /\ rows' = rows \cup {row}
          /\ row.user = call[r].user /\ row.integration = call[r].integration
      BY <1>7 DEF InsertConfiguration
    <2> HIDE DEF row
    <2>2. v = call[r].user /\ j = call[r].integration => ~HasRow(v, j)
      BY <1>5, <2>1
    <2>3. OneRow(v, j)'
      BY <1>a, <2>1, <2>2 DEF Agree, OneRow, HasRow
    <2>4. v # call[r].user \/ j # call[r].integration => (HasRow(v, j) <=> HasRowNext(v, j))
      BY <2>1 DEF HasRow, HasRowNext
    <2>5. v = call[r].user /\ j = call[r].integration => HasRowNext(v, j)
      BY <2>1 DEF HasRowNext
    <2> QED
      BY <1>4, <2>1, <2>3, <2>4, <2>5
  <1>8. ASSUME NEW r \in Calls, SaveIds(r)
        PROVE  Agree(v, j)'
    <2>1. /\ call[r].pc = "save" /\ rows' = rows /\ call[r].user \in Users
          /\ ids' = [ids EXCEPT ![call[r].user] = Flip(call[r].read, call[r].integration)]
          /\ call' = Others(r, NoCall)
      BY <1>0, <1>8 DEF SaveIds
    <2>2. /\ call'[r].pc = "idle"
          /\ \A q \in Calls \ {r} :
                /\ call'[q].pc = call[q].pc /\ call'[q].user = call[q].user
                /\ call'[q].integration = call[q].integration /\ call'[q].read = call[q].read
      BY <1>0, <2>1, OthersType
    <2>3. \A q \in Calls \ {r} : call[q].pc # "idle" => call[q].user # call[r].user
      BY <1>0, <2>1, IntegrationAssumption DEF OnePerUser
    <2>4. CASE v = call[r].user
      <3>1. \A q \in Calls : ~Saving(q, v, j)'
        BY <2>2, <2>3, <2>4 DEF Saving
      <3>2. ids'[v] = Flip(ids[v], call[r].integration) /\ call[r].read = ids[v]
        BY <1>0, <2>1, <2>4 DEF OnePerUser
      <3>3. HasRow(v, j) <=> j \in ids'[v]
        <4>1. CASE j = call[r].integration
          <5>1. Saving(r, v, j)
            BY <2>1, <2>4, <4>1 DEF Saving
          <5> QED
            BY <1>a, <3>2, <4>1, <5>1 DEF Agree, Flip
        <4>2. CASE j # call[r].integration
          <5>1. \A q \in Calls : ~Saving(q, v, j)
            BY <2>3, <2>4, <4>2 DEF Saving
          <5>2. j \in ids'[v] <=> j \in ids[v]
            BY <3>2, <4>2 DEF Flip
          <5> QED
            BY <1>a, <5>1, <5>2 DEF Agree
        <4> QED
          BY <4>1, <4>2
      <3> QED
        BY <1>2, <2>1, <3>1, <3>3 DEF Agree, HasRow
    <2>5. CASE v # call[r].user
      <3>1. ids'[v] = ids[v]
        BY <1>0, <2>1, <2>5
      <3>2. \A q \in Calls : Saving(q, v, j) <=> Saving(q, v, j)'
        BY <2>2, <2>5 DEF Saving
      <3>3. \A q \in Calls : Saving(q, v, j) => call'[q].read = call[q].read
        BY <2>2, <2>5 DEF Saving
      <3> QED
        BY <1>1, <1>2, <2>1, <3>1, <3>2, <3>3
    <2> QED
      BY <2>4, <2>5
  \* j is not the integration of a call that breaks off between its writes.
  <1>9. ASSUME NEW r \in Calls, CallFails(r)
        PROVE  Agree(v, j)'
    <2>1. /\ ids' = ids /\ rows' = rows /\ call'[r].pc = "idle"
          /\ \A q \in Calls \ {r} : call'[q] = call[q]
          /\ call[r].pc = "save" => <<call[r].user, call[r].integration>> \in broken'
      BY <1>0, <1>9 DEF CallFails
    <2>2. ~Saving(r, v, j)
      BY <2>1 DEF Saving, Sound
    <2>3. \A q \in Calls : Saving(q, v, j) <=> Saving(q, v, j)'
      BY <2>1, <2>2 DEF Saving
    <2>4. \A q \in Calls : Saving(q, v, j) => call'[q].read = call[q].read
      BY <2>1, <2>2
    <2> QED
      BY <1>1, <1>2, <2>1, <2>3, <2>4
  <1>10. ASSUME NEW u \in Users, NEW i \in Integrations, NEW enable \in BOOLEAN,
                UpdateIntegrationConfig(u, i, enable)
         PROVE  Agree(v, j)'
    <2> DEFINE new(a) == IF a.user = u /\ a.integration = i
                         THEN [a EXCEPT !.isEnableNow = enable] ELSE a
    <2>1. \A a \in rows : new(a).user = a.user /\ new(a).integration = a.integration
      BY <1>0 DEF ConfigureRow
    <2>2. rows' = {new(a) : a \in rows} /\ call' = call /\ ids' = ids
      BY <1>10 DEF UpdateIntegrationConfig
    <2> HIDE DEF new
    <2>3. OneRow(v, j)' /\ (HasRow(v, j) <=> HasRowNext(v, j))
      BY <1>a, <2>1, <2>2 DEF Agree, OneRow, HasRow, HasRowNext
    <2> QED
      BY <1>1, <2>2, <2>3 DEF Saving
  <1>11. CASE UNCHANGED callVars
    BY <1>1, <1>2, <1>11 DEF callVars, Saving
  <1> QED
    BY <1>3, <1>6, <1>7, <1>8, <1>9, <1>10, <1>11 DEF IntegrationNext

\* Where the calls of one user do not overlap, the list and the rows agree
\* whenever the user has no call in flight, on every integration no call on
\* which has broken off between its two writes.
THEOREM StoresAgree ==
    ASSUME ~Overlap
    PROVE  IntegrationSpec => []InstalledIffConfigured
  <1>1. IntegrationInit => StoresInv
    BY InitSerial DEF IntegrationInit, StoresInv, Agree, OneRow, HasRow, Saving, NoCall
  <1>2. StoresInv => InstalledIffConfigured
    <2> SUFFICES ASSUME StoresInv, NEW u \in Users, NEW i \in Integrations,
                        \A r \in Calls : call[r].user # u, <<u, i>> \notin broken
                 PROVE  /\ i \in ids[u] <=> i \in Configured(u)
                        /\ OneRow(u, i)
      BY DEF InstalledIffConfigured, OneRow
    <2>1. Agree(u, i) /\ \A r \in Calls : ~Saving(r, u, i)
      BY DEF StoresInv, Sound, Saving
    <2> QED
      BY <2>1 DEF Agree, HasRow, Configured
  <1>3. StoresInv /\ [IntegrationNext]_callVars => StoresInv'
    BY NextStores
  <1> QED
    BY <1>1, <1>2, <1>3, PTL DEF IntegrationSpec
=============================================================================
