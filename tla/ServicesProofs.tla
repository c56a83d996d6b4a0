--------------------------- MODULE ServicesProofs ---------------------------
(***************************************************************************)
(* Proofs about the mail queue, the incidents and the admins, for any      *)
(* number of mails, deaths, websites, incidents, accounts and requests in  *)
(* flight; and, with those about the monitors and the reads, about the     *)
(* services side by side.                                                  *)
(***************************************************************************)
EXTENDS MCServices, MonitorsProofs, ReadsProofs

(***************************************************************************)
(* The mail queue.                                                         *)
(***************************************************************************)
\* The mail has not been handed over since its job last began to wait.
Unsent(m) ==
    /\ job[m].state # "completed"
    /\ worker # [on |-> m, handed |-> TRUE]

\* What holds of each mail, between any two steps.
Accounted(m) ==
    /\ worker.on = m => job[m].state = "active"
    /\ job[m].stalls <= fate[m].hit
    /\ (job[m].state = "active" /\ worker.on # m) => job[m].stalls < fate[m].hit
    /\ job[m].state = "failed" => fate[m].hit > MaxStalls
    /\ fate[m].inbox <= 1 + fate[m].hit
    /\ Unsent(m) => m \notin smtp /\ fate[m].inbox <= fate[m].hit
    /\ m \in smtp => fate[m].inbox <= fate[m].hit
    /\ ~Unsent(m) => m \in smtp \/ fate[m].inbox + fate[m].refused + fate[m].cut > 0

MailsAccounted == \A m \in Mails : Accounted(m)

MailInv == MailQueueTypeOK /\ MailsAccounted

\* The fields of the rows, as numbers.
LEMMA JobFields ==
    ASSUME MailQueueTypeOK, NEW m \in Mails
    PROVE  /\ job[m] \in Job /\ fate[m] \in Fate
           /\ job[m].state \in {"none", "delayed", "waiting", "active", "completed", "failed"}
           /\ job[m].stalls \in Nat /\ job[m].stalls <= MaxStalls
           /\ fate[m].inbox \in Nat /\ fate[m].refused \in Nat
           /\ fate[m].cut \in Nat /\ fate[m].hit \in Nat
           /\ m # None
  BY MailQueueAssumption DEF MailQueueTypeOK, Job, Fate, MaxStalls

LEMMA MailInitInv == MailQueueInit => MailInv
  <1> SUFFICES ASSUME MailQueueInit PROVE MailInv
    OBVIOUS
  <1>1. MailQueueTypeOK
    BY MailQueueAssumption DEF MailQueueInit, MailQueueTypeOK, Job, Fate, IdleWorker, MaxStalls
  <1>2. ASSUME NEW m \in Mails PROVE Accounted(m)
    BY <1>2, MailQueueAssumption
       DEF MailQueueInit, Accounted, Unsent, IdleWorker
  <1> QED
    BY <1>1, <1>2 DEF MailInv, MailsAccounted

\* A step that changes only the state and the stalls of one job, from one that
\* waits to be sent to another.
LEMMA JobMoves ==
    ASSUME MailInv, NEW m \in Mails, NEW j \in Job,
           job' = [job EXCEPT ![m] = j], UNCHANGED <<worker, smtp, fate, deaths>>,
           worker.on # m, job[m].state # "completed",
           j.state \in {"delayed", "waiting", "failed"},
           j.stalls <= fate[m].hit,
           j.state = "failed" => fate[m].hit > MaxStalls
    PROVE  MailInv'
  <1>1. MailQueueTypeOK'
    BY DEF MailInv, MailQueueTypeOK
  <1>2. job'[m] = j /\ \A n \in Mails \ {m} : job'[n] = job[n]
    BY DEF MailInv, MailQueueTypeOK
  <1>3. ASSUME NEW n \in Mails PROVE Accounted(n)'
    <2>1. Accounted(n)
      BY DEF MailInv, MailsAccounted
    <2>2. CASE n # m
      BY <1>2, <2>1, <2>2 DEF Accounted, Unsent
    <2>3. CASE n = m
      <3>1. worker # [on |-> m, handed |-> TRUE]
        OBVIOUS
      <3> QED
        BY <1>2, <2>1, <2>3, <3>1 DEF Accounted, Unsent
    <2> QED
      BY <2>2, <2>3
  <1> QED
    BY <1>1, <1>3 DEF MailInv, MailsAccounted

LEMMA QueueKeeps ==
    ASSUME MailInv, NEW m \in Mails, sendMail(m) \/ DelayOver(m)
    PROVE  MailInv'
  <1> DEFINE s == IF job[m].state = "none" THEN "delayed" ELSE "waiting"
             j == [job[m] EXCEPT !.state = s]
  <1>1. job[m] \in Job /\ job[m].state \in {"none", "delayed"} /\ Accounted(m)
    BY JobFields DEF MailInv, MailsAccounted, sendMail, DelayOver
  <1>2. j \in Job /\ j.state = s /\ j.stalls = job[m].stalls
    BY <1>1 DEF Job
  <1>3. job' = [job EXCEPT ![m] = j] /\ UNCHANGED <<worker, smtp, fate, deaths>>
    BY <1>1 DEF sendMail, DelayOver
  <1>4. s \in {"delayed", "waiting"}
    OBVIOUS
  <1>5. worker.on # m /\ job[m].stalls <= fate[m].hit
    BY <1>1 DEF Accounted
  <1> HIDE DEF s, j
  <1> QED
    BY <1>1, <1>2, <1>3, <1>4, <1>5, JobMoves

LEMMA StallKeeps ==
    ASSUME MailInv, NEW m \in Mails, JobStalls(m)
    PROVE  MailInv'
  <1> DEFINE j == IF job[m].stalls < MaxStalls
                  THEN [state |-> "waiting", stalls |-> job[m].stalls + 1]
                  ELSE [state |-> "failed", stalls |-> job[m].stalls]
  <1>1. /\ job[m].stalls \in Nat /\ fate[m].hit \in Nat /\ job[m].stalls <= MaxStalls
        /\ job[m].state = "active" /\ worker.on # m /\ job[m].stalls < fate[m].hit
    BY JobFields DEF MailInv, MailsAccounted, Accounted, JobStalls, IsStalled
  <1>2. /\ j \in Job /\ j.state \in {"waiting", "failed"} /\ j.stalls <= fate[m].hit
        /\ j.state = "failed" => fate[m].hit > MaxStalls
    BY <1>1 DEF Job, MaxStalls
  <1>3. job' = [job EXCEPT ![m] = j] /\ UNCHANGED <<worker, smtp, fate, deaths>>
    BY DEF JobStalls
  <1> HIDE DEF j
  <1> QED
    BY <1>1, <1>2, <1>3, JobMoves

LEMMA TakeKeeps ==
    ASSUME MailInv, NEW m \in Mails, TakeJob(m)
    PROVE  MailInv'
  <1> DEFINE j == [job[m] EXCEPT !.state = "active"]
  <1>1. job[m] \in Job /\ m # None /\ Accounted(m) /\ job[m].state = "waiting"
    BY JobFields DEF MailInv, MailsAccounted, TakeJob
  <1>2. j \in Job /\ j.state = "active" /\ j.stalls = job[m].stalls
    BY <1>1 DEF Job
  <1>3. /\ job' = [job EXCEPT ![m] = j] /\ worker' = [on |-> m, handed |-> FALSE]
        /\ smtp' = smtp /\ fate' = fate /\ deaths' = deaths
        /\ worker.on = None
    BY DEF TakeJob, IdleWorker
  <1> HIDE DEF j
  <1>4. MailQueueTypeOK'
    BY <1>2, <1>3 DEF MailInv, MailQueueTypeOK
  <1>5. job'[m] = j /\ \A n \in Mails \ {m} : job'[n] = job[n]
    BY <1>3 DEF MailInv, MailQueueTypeOK
  <1>6. /\ worker'.on = m
        /\ \A n \in Mails : worker' # [on |-> n, handed |-> TRUE]
        /\ \A n \in Mails : worker # [on |-> n, handed |-> TRUE]
    <2>1. worker.handed = FALSE /\ worker'.handed = FALSE
      BY <1>3 DEF TakeJob, IdleWorker
    <2>2. \A n \in Mails : [on |-> n, handed |-> TRUE].handed = TRUE
      OBVIOUS
    <2>3. worker'.on = m
      BY <1>3
    <2> QED
      BY <2>1, <2>2, <2>3, Zenon
  <1>7. ASSUME NEW n \in Mails PROVE Accounted(n)'
    <2>1. Accounted(n) /\ n # None
      BY JobFields DEF MailInv, MailsAccounted
    <2>2. CASE n # m
      BY <1>3, <1>5, <1>6, <2>1, <2>2 DEF Accounted, Unsent
    <2>3. CASE n = m
      BY <1>1, <1>2, <1>3, <1>5, <1>6, <2>3 DEF Accounted, Unsent
    <2> QED
      BY <2>2, <2>3
  <1> QED
    BY <1>4, <1>7 DEF MailInv, MailsAccounted

LEMMA HandKeeps ==
    ASSUME MailInv, NEW m \in Mails, readOperationJob(m)
    PROVE  MailInv'
  <1>1. /\ worker = [on |-> m, handed |-> FALSE] /\ worker' = [on |-> m, handed |-> TRUE]
        /\ smtp' = smtp \cup {m} /\ job' = job /\ fate' = fate /\ deaths' = deaths
    BY DEF readOperationJob, Sending
  <1>2. MailQueueTypeOK'
    BY <1>1 DEF MailInv, MailQueueTypeOK
  <1>3. worker.on = m /\ worker'.on = m
    BY <1>1
  <1>4. worker # [on |-> m, handed |-> TRUE]
    <2>1. worker.handed = FALSE
      BY <1>1
    <2>2. [on |-> m, handed |-> TRUE].handed = TRUE
      OBVIOUS
    <2> QED
      BY <2>1, <2>2, Zenon
  <1>5. ASSUME NEW n \in Mails PROVE Accounted(n)'
    <2>1. Accounted(n)
      BY DEF MailInv, MailsAccounted
    <2>2. CASE n # m
      <3>1. /\ worker # [on |-> n, handed |-> TRUE] /\ worker' # [on |-> n, handed |-> TRUE]
        BY <1>3, <2>2
      <3> QED
        BY <1>1, <1>3, <2>1, <2>2, <3>1 DEF Accounted, Unsent
    <2>3. CASE n = m
      <3>1. Accounted(m) /\ job[m].state = "active"
        BY <1>3, <2>1, <2>3 DEF Accounted
      <3>2. Unsent(m) /\ ~Unsent(m)'
        BY <1>1, <1>4, <3>1 DEF Unsent
      <3> QED
        BY <1>1, <1>3, <2>3, <3>1, <3>2 DEF Accounted
    <2> QED
      BY <2>2, <2>3
  <1> QED
    BY <1>2, <1>5 DEF MailInv, MailsAccounted

LEMMA CompleteKeeps ==
    ASSUME MailInv, NEW m \in Mails, CompleteJob(m)
    PROVE  MailInv'
  <1> DEFINE j == [job[m] EXCEPT !.state = "completed"]
  <1>1. job[m] \in Job /\ m # None /\ Accounted(m)
    BY JobFields DEF MailInv, MailsAccounted
  <1>2. j \in Job /\ j.state = "completed" /\ j.stalls = job[m].stalls
    BY <1>1 DEF Job
  <1>3. /\ job' = [job EXCEPT ![m] = j] /\ worker' = IdleWorker
        /\ smtp' = smtp /\ fate' = fate /\ deaths' = deaths
        /\ worker = [on |-> m, handed |-> TRUE]
    BY DEF CompleteJob
  <1> HIDE DEF j
  <1>4. MailQueueTypeOK'
    BY <1>2, <1>3 DEF MailInv, MailQueueTypeOK, IdleWorker
  <1>5. job'[m] = j /\ \A n \in Mails \ {m} : job'[n] = job[n]
    BY <1>3 DEF MailInv, MailQueueTypeOK
  <1>6. worker'.on = None /\ worker.on = m
    BY <1>3 DEF IdleWorker
  <1>7. ASSUME NEW n \in Mails PROVE Accounted(n)'
    <2>1. Accounted(n) /\ n # None
      BY JobFields DEF MailInv, MailsAccounted
    <2>2. CASE n # m
      <3>1. worker # [on |-> n, handed |-> TRUE] /\ worker' # [on |-> n, handed |-> TRUE]
        BY <1>6, <2>1, <2>2
      <3> QED
        BY <1>3, <1>5, <1>6, <2>1, <2>2, <3>1 DEF Accounted, Unsent
    <2>3. CASE n = m
      <3>1. ~Unsent(m) /\ ~Unsent(m)'
        BY <1>2, <1>3, <1>5 DEF Unsent
      <3> QED
        BY <1>1, <1>2, <1>3, <1>5, <1>6, <2>3, <3>1 DEF Accounted
    <2> QED
      BY <2>2, <2>3
  <1> QED
    BY <1>4, <1>7 DEF MailInv, MailsAccounted

LEMMA AnswerKeeps ==
    ASSUME MailInv, NEW m \in Mails, MailSent(m) \/ MailRefused(m)
    PROVE  MailInv'
  <1> DEFINE sent == [fate[m] EXCEPT !.inbox = fate[m].inbox + 1]
             refused == [fate[m] EXCEPT !.refused = fate[m].refused + 1]
  <1>1. /\ fate[m] \in Fate /\ fate[m].inbox \in Nat /\ fate[m].refused \in Nat
        /\ fate[m].cut \in Nat /\ fate[m].hit \in Nat /\ fate \in [Mails -> Fate]
    BY JobFields DEF MailInv, MailQueueTypeOK
  <1>2. /\ sent \in Fate /\ sent.inbox = fate[m].inbox + 1 /\ sent.hit = fate[m].hit
        /\ sent.refused = fate[m].refused /\ sent.cut = fate[m].cut
        /\ refused \in Fate /\ refused.inbox = fate[m].inbox /\ refused.hit = fate[m].hit
        /\ refused.refused = fate[m].refused + 1 /\ refused.cut = fate[m].cut
    BY <1>1 DEF Fate
  <1>3. /\ m \in smtp /\ smtp' = smtp \ {m}
        /\ job' = job /\ worker' = worker /\ deaths' = deaths
        /\ \/ fate' = [fate EXCEPT ![m] = sent]
           \/ fate' = [fate EXCEPT ![m] = refused]
    BY <1>1 DEF MailSent, MailRefused
  <1> HIDE DEF sent, refused
  <1>4. MailQueueTypeOK'
    BY <1>2, <1>3 DEF MailInv, MailQueueTypeOK
  <1>5. /\ fate'[m] = sent \/ fate'[m] = refused
        /\ \A n \in Mails \ {m} : fate'[n] = fate[n]
    BY <1>1, <1>3
  <1>6. ASSUME NEW n \in Mails PROVE Accounted(n)'
    <2>1. Accounted(n)
      BY DEF MailInv, MailsAccounted
    <2>2. Unsent(n)' <=> Unsent(n)
      BY <1>3 DEF Unsent
    <2>3. CASE n # m
      BY <1>3, <1>5, <2>1, <2>2, <2>3 DEF Accounted
    <2>4. CASE n = m
      BY <1>1, <1>2, <1>3, <1>5, <2>1, <2>2, <2>4 DEF Accounted
    <2> QED
      BY <2>3, <2>4
  <1> QED
    BY <1>4, <1>6 DEF MailInv, MailsAccounted

LEMMA DeathKeeps ==
    ASSUME MailInv, MailProcessDies
    PROVE  MailInv'
  <1> DEFINE cut(m) == IF m \in smtp THEN fate[m].cut + 1 ELSE fate[m].cut
             hit(m) == IF job[m].state = "active" THEN fate[m].hit + 1 ELSE fate[m].hit
             after(m) == [inbox |-> fate[m].inbox, refused |-> fate[m].refused,
                         cut |-> cut(m), hit |-> hit(m)]
  <1>1. fate' = [m \in Mails |-> after(m)]
    BY DEF MailProcessDies
  <1>2. /\ job' = job /\ smtp' = {}
        /\ worker' = IdleWorker /\ deaths' = deaths + 1 /\ deaths < MaxDeaths
    BY DEF MailProcessDies
  <1>3. ASSUME NEW m \in Mails
        PROVE  /\ after(m) \in Fate /\ after(m).inbox = fate[m].inbox
               /\ after(m).refused = fate[m].refused
               /\ after(m).cut = cut(m) /\ after(m).hit = hit(m)
    <2>1. fate[m] \in Fate /\ cut(m) \in Nat /\ hit(m) \in Nat
      BY JobFields DEF MailInv
    <2>2. fate[m].inbox \in Nat /\ fate[m].refused \in Nat
      BY JobFields DEF MailInv
    <2> HIDE DEF cut, hit
    <2> QED
      BY <2>1, <2>2 DEF Fate
  <1>4. ASSUME NEW m \in Mails
        PROVE  /\ fate'[m].inbox = fate[m].inbox
               /\ fate'[m].refused = fate[m].refused
               /\ fate'[m].cut = IF m \in smtp THEN fate[m].cut + 1 ELSE fate[m].cut
               /\ fate'[m].hit = IF job[m].state = "active"
                                 THEN fate[m].hit + 1 ELSE fate[m].hit
    <2>1. fate'[m] = after(m)
      BY <1>1
    <2>2. cut(m) = IF m \in smtp THEN fate[m].cut + 1 ELSE fate[m].cut
      OBVIOUS
    <2>3. hit(m) = IF job[m].state = "active" THEN fate[m].hit + 1 ELSE fate[m].hit
      OBVIOUS
    <2> HIDE DEF cut, hit, after
    <2> QED
      BY <1>3, <2>1, <2>2, <2>3
  <1>5. MailQueueTypeOK'
    <2>1. fate' \in [Mails -> Fate]
      <3> HIDE DEF after
      <3> QED
        BY <1>1, <1>3
    <2>2. deaths' \in 0 .. MaxDeaths
      <3>1. deaths \in 0 .. MaxDeaths
        BY DEF MailInv, MailQueueTypeOK
      <3> HIDE DEF cut, hit, after
      <3> QED
        BY <1>2, <3>1, MailQueueAssumption
    <2> QED
      BY <1>2, <2>1, <2>2 DEF MailInv, MailQueueTypeOK, IdleWorker
  <1> HIDE DEF cut, hit, after
  <1>6. worker'.on = None
    BY <1>2 DEF IdleWorker
  <1>7. ASSUME NEW m \in Mails PROVE Accounted(m)'
    <2>1. Accounted(m) /\ m # None
      BY JobFields DEF MailInv, MailsAccounted
    <2>2. /\ fate[m].inbox \in Nat /\ fate[m].refused \in Nat
          /\ fate[m].cut \in Nat /\ fate[m].hit \in Nat /\ job[m].stalls \in Nat
      BY JobFields DEF MailInv
    <2>3. worker'.on # m
      BY <1>6, <2>1
    <2>4. Unsent(m)' <=> job[m].state # "completed"
      <3>1. worker' # [on |-> m, handed |-> TRUE]
        BY <2>3
      <3> QED
        BY <1>2, <3>1 DEF Unsent
    <2>5. job[m].state # "active" => worker # [on |-> m, handed |-> TRUE]
      BY <2>1 DEF Accounted
    <2>6. job[m].state = "completed" => ~Unsent(m)
      BY DEF Unsent
    <2>7. job[m].state \notin {"active", "completed"} => Unsent(m)
      BY <2>5 DEF Unsent
    <2>8. CASE job[m].state = "active"
      <3>1. /\ job[m].stalls <= fate[m].hit /\ fate[m].inbox <= 1 + fate[m].hit
            /\ fate'[m].hit = fate[m].hit + 1 /\ fate'[m].inbox = fate[m].inbox
        BY <1>4, <2>1, <2>8 DEF Accounted
      <3>2. Unsent(m)'
        BY <2>4, <2>8
      <3> QED
        BY <1>2, <2>2, <2>3, <2>8, <3>1, <3>2 DEF Accounted
    <2>9. CASE job[m].state # "active"
      <3>1. /\ fate'[m].hit = fate[m].hit /\ fate'[m].inbox = fate[m].inbox
            /\ fate'[m].refused = fate[m].refused
        BY <1>4, <2>9
      <3>2. Unsent(m)' => Unsent(m)
        BY <2>4, <2>7, <2>9
      <3>3. fate'[m].cut = IF m \in smtp THEN fate[m].cut + 1 ELSE fate[m].cut
        BY <1>4
      <3>4. ~Unsent(m)' => fate'[m].inbox + fate'[m].refused + fate'[m].cut > 0
        <4> SUFFICES ASSUME ~Unsent(m)'
                     PROVE  fate'[m].inbox + fate'[m].refused + fate'[m].cut > 0
          OBVIOUS
        <4>1. m \in smtp \/ fate[m].inbox + fate[m].refused + fate[m].cut > 0
          BY <2>1, <2>4, <2>6 DEF Accounted
        <4> QED
          BY <2>2, <3>1, <3>3, <4>1
      <3> QED
        BY <1>2, <2>1, <2>2, <2>3, <2>9, <3>1, <3>2, <3>4 DEF Accounted
    <2> QED
      BY <2>8, <2>9
  <1> QED
    BY <1>5, <1>7 DEF MailInv, MailsAccounted

\* MailInv is inductive.
LEMMA MailNextInv ==
    MailInv /\ [MailQueueNext]_mailVars => MailInv'
  <1> SUFFICES ASSUME MailInv, [MailQueueNext]_mailVars PROVE MailInv'
    OBVIOUS
  <1>1. CASE UNCHANGED mailVars
    BY <1>1 DEF mailVars, MailInv, MailQueueTypeOK, MailsAccounted, Accounted, Unsent
  <1>2. CASE MailQueueNext
    BY <1>2, QueueKeeps, StallKeeps, TakeKeeps, HandKeeps, CompleteKeeps, AnswerKeeps,
       DeathKeeps DEF MailQueueNext, MailStep
  <1> QED
    BY <1>1, <1>2

LEMMA MailInductive == MailQueueSpec => []MailInv
  BY MailInitInv, MailNextInv, PTL DEF MailQueueSpec

\* Jobs, worker and fates stay well formed.
THEOREM MailTypeCorrect == MailQueueSpec => []MailQueueTypeOK
  <1>1. MailInv => MailQueueTypeOK
    BY DEF MailInv
  <1> QED
    BY <1>1, MailInductive, PTL

LEMMA MailsHold == MailInv => OneCopy /\ LossExplained
  <1>1. ASSUME MailInv, NEW m \in Mails
        PROVE  /\ (job[m].state = "completed" /\ m \notin smtp /\ fate[m].inbox = 0) =>
                     fate[m].refused + fate[m].cut > 0
               /\ job[m].state = "failed" => fate[m].hit > MaxStalls
    BY <1>1, JobFields DEF MailInv, MailsAccounted, Accounted, Unsent
  <1>2. MailInv => LossExplained
    BY <1>1 DEF LossExplained
  <1>3. MailInv => OneCopy
    BY DEF MailInv, MailsAccounted, Accounted, OneCopy
  <1> QED
    BY <1>2, <1>3

\* OneCopy: a copy more at most for each death that hit the job.
THEOREM CopiesBounded == MailQueueSpec => []OneCopy
  BY MailsHold, MailInductive, PTL

\* LossExplained: no mail gets lost between the queue and the transport.
THEOREM LossesExplained == MailQueueSpec => []LossExplained
  BY MailsHold, MailInductive, PTL

(***************************************************************************)
(* Incidents.                                                              *)
(***************************************************************************)
\* An incident there, and a record that has ever been there, are of a website;
\* a record comes with the incident of its id.
SitesKnown ==
    \A a \in Alarms :
       /\ incident[a].state = "there" => incident[a].site \in Sites
       /\ record[a].state # "free" =>
             record[a].site \in Sites /\ incident[a].state # "free"

\* What a handler in flight knows of its record.
HandlersKnow ==
    \A r \in Resolvers :
       resolve[r].pc # "idle" =>
          /\ resolve[r].id \in Alarms
          /\ resolve[r].site # None =>
                /\ record[resolve[r].id].state # "free"
                /\ record[resolve[r].id].site = resolve[r].site
          /\ resolve[r].pc = "clear" =>
                /\ resolve[r].site \in Sites
                /\ record[resolve[r].id].state = "gone"
                /\ record[resolve[r].id].by = r

IncidentsInv == IncidentsTypeOK /\ SitesKnown /\ HandlersKnow /\ FlagsAnswered

LEMMA IncidentsInitInv == IncidentsInit => IncidentsInv
  <1> SUFFICES ASSUME IncidentsInit PROVE IncidentsInv
    OBVIOUS
  <1>1. NoIncident \in Incident /\ NoRecord \in Record /\ NoResolve \in ResolveRequest
    BY DEF NoIncident, NoRecord, NoResolve, Incident, Record, ResolveRequest
  <1>2. IncidentsTypeOK
    BY <1>1 DEF IncidentsInit, IncidentsTypeOK
  <1>3. SitesKnown /\ HandlersKnow /\ FlagsAnswered
    BY DEF IncidentsInit, SitesKnown, HandlersKnow, FlagsAnswered, NoIncident, NoRecord,
           NoResolve
  <1> QED
    BY <1>2, <1>3 DEF IncidentsInv

LEMMA RaiseKeeps ==
    ASSUME IncidentsInv, NEW a \in Alarms, NEW s \in Sites,
           NEW type \in {"loadTime", "responseCode"}, RaiseAlarm(a, s, type)
    PROVE  IncidentsInv'
  <1> DEFINE up == [state |-> "there", site |-> s, type |-> type, isOccured |-> 1]
             waiting == [state |-> "there", site |-> s, by |-> None]
  <1>1. /\ up \in Incident /\ up.state = "there" /\ up.site = s
        /\ waiting \in Record /\ waiting.state = "there" /\ waiting.site = s
    BY DEF Incident, Record
  <1>2. /\ incident' = [incident EXCEPT ![a] = up]
        /\ record' = [record EXCEPT ![a] = waiting]
        /\ incident[a].state = "free"
        /\ resolve' = resolve /\ orphaned' = orphaned
    BY DEF RaiseAlarm
  <1> HIDE DEF up, waiting
  <1>3. /\ incident \in [Alarms -> Incident] /\ record \in [Alarms -> Record]
        /\ resolve \in [Resolvers -> ResolveRequest] /\ orphaned \subseteq Sites
    BY DEF IncidentsInv, IncidentsTypeOK
  <1>4. IncidentsTypeOK'
    BY <1>1, <1>2, <1>3 DEF IncidentsTypeOK
  <1>5. SitesKnown'
    BY <1>1, <1>2, <1>3 DEF SitesKnown, IncidentsInv
  <1>6. record[a].state = "free"
    BY <1>2 DEF SitesKnown, IncidentsInv
  <1>7. \A b \in Alarms \ {a} : record'[b] = record[b] /\ incident'[b] = incident[b]
    BY <1>2, <1>3
  <1>8. HandlersKnow'
    BY <1>2, <1>6, <1>7 DEF HandlersKnow, IncidentsInv
  <1>9. FlagsAnswered'
    <2> SUFFICES ASSUME NEW x \in Alarms, incident'[x].state = "there",
                        incident'[x].type = "loadTime", incident'[x].isOccured = 1
                 PROVE  \/ \E b \in Alarms : /\ record'[b].state = "there"
                                             /\ record'[b].site = incident'[x].site
                        \/ \E r \in Resolvers : /\ resolve'[r].pc = "clear"
                                                /\ resolve'[r].site = incident'[x].site
                        \/ incident'[x].site \in orphaned'
      BY DEF FlagsAnswered
    <2>1. CASE x = a
      BY <1>1, <1>2, <1>3, <2>1
    <2>2. CASE x # a
      <3>1. incident'[x] = incident[x]
        BY <1>7, <2>2
      <3>2. \A b \in Alarms : record[b].state = "there" => record'[b] = record[b]
        BY <1>6, <1>7
      <3> QED
        BY <1>2, <3>1, <3>2 DEF FlagsAnswered, IncidentsInv
    <2> QED
      BY <2>1, <2>2
  <1> QED
    BY <1>4, <1>5, <1>8, <1>9 DEF IncidentsInv

LEMMA DeleteIncidentKeeps ==
    ASSUME IncidentsInv, NEW s \in Sites, deleteIncident(s)
    PROVE  IncidentsInv'
  <1> DEFINE over == [NoIncident EXCEPT !.state = "gone"]
  <1>1. over \in Incident /\ over.state = "gone"
    BY DEF NoIncident, Incident
  <1>2. /\ incident' = [a \in Alarms |->
              IF incident[a].state = "there" /\ incident[a].site = s
              THEN over ELSE incident[a]]
        /\ record' = record /\ resolve' = resolve /\ orphaned' = orphaned
    BY DEF deleteIncident
  <1> HIDE DEF over
  <1>3. \A a \in Alarms : incident'[a] = incident[a] \/
                          (incident'[a].state = "gone" /\ incident[a].state = "there")
    BY <1>1, <1>2
  <1>4. IncidentsTypeOK'
    BY <1>1, <1>2 DEF IncidentsInv, IncidentsTypeOK
  <1>5. SitesKnown' /\ HandlersKnow'
    BY <1>2, <1>3 DEF IncidentsInv, SitesKnown, HandlersKnow
  <1>6. FlagsAnswered'
    BY <1>2, <1>3 DEF IncidentsInv, FlagsAnswered
  <1> QED
    BY <1>4, <1>5, <1>6 DEF IncidentsInv

LEMMA FindRecordKeeps ==
    ASSUME IncidentsInv, NEW r \in Resolvers, NEW a \in Alarms, deleteResolve(r, a)
    PROVE  IncidentsInv'
  <1> DEFINE q == [pc |-> "delete", id |-> a,
                   site |-> IF record[a].state = "there" THEN record[a].site ELSE None]
  <1>1. /\ resolve' = [resolve EXCEPT ![r] = q] /\ resolve[r].pc = "idle"
        /\ record' = record /\ incident' = incident /\ orphaned' = orphaned
    BY DEF deleteResolve
  <1>2. /\ q.pc = "delete" /\ q.id = a
        /\ q.site = IF record[a].state = "there" THEN record[a].site ELSE None
    OBVIOUS
  <1>3. q \in ResolveRequest
    BY DEF IncidentsInv, IncidentsTypeOK, ResolveRequest, Record
  <1> HIDE DEF q
  <1>4. /\ resolve \in [Resolvers -> ResolveRequest]
        /\ resolve'[r] = q /\ \A x \in Resolvers \ {r} : resolve'[x] = resolve[x]
    BY <1>1 DEF IncidentsInv, IncidentsTypeOK
  <1>5. IncidentsTypeOK'
    BY <1>1, <1>3 DEF IncidentsInv, IncidentsTypeOK
  <1>6. SitesKnown'
    BY <1>1 DEF IncidentsInv, SitesKnown
  <1>7. HandlersKnow'
    BY <1>1, <1>2, <1>4 DEF IncidentsInv, HandlersKnow
  <1>8. FlagsAnswered'
    BY <1>1, <1>4 DEF IncidentsInv, FlagsAnswered
  <1> QED
    BY <1>5, <1>6, <1>7, <1>8 DEF IncidentsInv

LEMMA DeleteRecordKeeps ==
    ASSUME IncidentsInv, NEW r \in Resolvers, DeleteRecord(r)
    PROVE  IncidentsInv'
  <1> DEFINE i == resolve[r].id
             removed == [state |-> "gone", site |-> record[i].site, by |-> r]
             on == [resolve[r] EXCEPT !.pc = "clear"]
  <1>1. /\ incident \in [Alarms -> Incident] /\ record \in [Alarms -> Record]
        /\ resolve \in [Resolvers -> ResolveRequest] /\ orphaned \subseteq Sites
        /\ resolve[r].pc = "delete" /\ i \in Alarms
        /\ \A a \in Alarms : record[a] \in Record
        /\ \A x \in Resolvers : resolve[x] \in ResolveRequest
    BY DEF DeleteRecord, IncidentsInv, IncidentsTypeOK, HandlersKnow
  <1>2. /\ removed \in Record /\ removed.state = "gone"
        /\ removed.site = record[i].site /\ removed.by = r
    BY <1>1 DEF Record
  <1>3. /\ on \in ResolveRequest /\ on.pc = "clear"
        /\ on.id = i /\ on.site = resolve[r].site
    BY <1>1 DEF ResolveRequest
  <1>4. NoResolve \in ResolveRequest /\ NoResolve.pc = "idle"
    BY DEF NoResolve, ResolveRequest
  <1>5. /\ record' = [record EXCEPT ![i] =
                 IF record[i].state = "there" THEN removed ELSE record[i]]
        /\ resolve' = [resolve EXCEPT ![r] =
                 IF record[i].state = "there" /\ resolve[r].site # None
                 THEN on ELSE NoResolve]
        /\ orphaned' = orphaned \cup
              {s \in Sites : /\ resolve[r].site = None /\ record[i].state = "there"
                             /\ record[i].site = s}
        /\ incident' = incident
    BY DEF DeleteRecord, Affected
  <1> HIDE DEF i, removed, on
  <1>6. /\ record'[i] = IF record[i].state = "there" THEN removed ELSE record[i]
        /\ \A a \in Alarms \ {i} : record'[a] = record[a]
        /\ resolve'[r] = IF record[i].state = "there" /\ resolve[r].site # None
                         THEN on ELSE NoResolve
        /\ \A x \in Resolvers \ {r} : resolve'[x] = resolve[x]
    BY <1>1, <1>5
  <1>7. IncidentsTypeOK'
    BY <1>1, <1>2, <1>3, <1>4, <1>5 DEF IncidentsTypeOK
  <1>8. SitesKnown'
    BY <1>1, <1>2, <1>5, <1>6 DEF SitesKnown, IncidentsInv
  <1>9. resolve[r].site # None => record[i].site = resolve[r].site /\ record[i].site \in Sites
    BY <1>1 DEF HandlersKnow, SitesKnown, IncidentsInv, i
  <1>10. HandlersKnow'
    <2> SUFFICES ASSUME NEW x \in Resolvers, resolve'[x].pc # "idle"
                 PROVE  /\ resolve'[x].id \in Alarms
                        /\ resolve'[x].site # None =>
                              /\ record'[resolve'[x].id].state # "free"
                              /\ record'[resolve'[x].id].site = resolve'[x].site
                        /\ resolve'[x].pc = "clear" =>
                              /\ resolve'[x].site \in Sites
                              /\ record'[resolve'[x].id].state = "gone"
                              /\ record'[resolve'[x].id].by = x
      BY DEF HandlersKnow
    <2>1. CASE x = r
      BY <1>1, <1>2, <1>3, <1>4, <1>6, <1>9, <2>1
    <2>2. CASE x # r
      <3>1. resolve'[x] = resolve[x]
        BY <1>6, <2>2
      <3>2. /\ resolve[x].id \in Alarms
            /\ resolve[x].site # None =>
                  /\ record[resolve[x].id].state # "free"
                  /\ record[resolve[x].id].site = resolve[x].site
            /\ resolve[x].pc = "clear" =>
                  /\ resolve[x].site \in Sites
                  /\ record[resolve[x].id].state = "gone"
                  /\ record[resolve[x].id].by = x
        BY <3>1 DEF HandlersKnow, IncidentsInv
      <3>3. CASE resolve[x].id = i /\ record[i].state = "there"
        BY <1>2, <1>6, <3>1, <3>2, <3>3
      <3>4. CASE ~(resolve[x].id = i /\ record[i].state = "there")
        <4>1. record'[resolve[x].id] = record[resolve[x].id]
          BY <1>6, <3>2, <3>4
        <4> QED
          BY <3>1, <3>2, <4>1
      <3> QED
        BY <3>3, <3>4
    <2> QED
      BY <2>1, <2>2
  <1>11. FlagsAnswered'
    <2> SUFFICES ASSUME NEW x \in Alarms, incident[x].state = "there",
                        incident[x].type = "loadTime", incident[x].isOccured = 1
                 PROVE  \/ \E b \in Alarms : /\ record'[b].state = "there"
                                             /\ record'[b].site = incident[x].site
                        \/ \E y \in Resolvers : /\ resolve'[y].pc = "clear"
                                                /\ resolve'[y].site = incident[x].site
                        \/ incident[x].site \in orphaned'
      BY <1>5 DEF FlagsAnswered
    <2>1. \/ \E b \in Alarms : record[b].state = "there" /\ record[b].site = incident[x].site
          \/ \E y \in Resolvers : resolve[y].pc = "clear" /\ resolve[y].site = incident[x].site
          \/ incident[x].site \in orphaned
      BY DEF FlagsAnswered, IncidentsInv
    <2>2. incident[x].site \in Sites
      BY DEF SitesKnown, IncidentsInv
    <2>3. ASSUME NEW b \in Alarms, record[b].state = "there",
                 record[b].site = incident[x].site, b = i
          PROVE  \/ \E y \in Resolvers : /\ resolve'[y].pc = "clear"
                                         /\ resolve'[y].site = incident[x].site
                 \/ incident[x].site \in orphaned'
      <3>1. CASE resolve[r].site = None
        BY <1>5, <2>2, <2>3, <3>1
      <3>2. CASE resolve[r].site # None
        BY <1>3, <1>6, <1>9, <2>3, <3>2
      <3> QED
        BY <3>1, <3>2
    <2>4. ASSUME NEW b \in Alarms, record[b].state = "there",
                 record[b].site = incident[x].site, b # i
          PROVE  record'[b].state = "there" /\ record'[b].site = incident[x].site
      BY <1>6, <2>4
    <2>5. ASSUME NEW y \in Resolvers, resolve[y].pc = "clear"
          PROVE  resolve'[y] = resolve[y]
      BY <1>1, <1>6, <2>5
    <2>6. orphaned \subseteq orphaned'
      BY <1>5
    <2> QED
      BY <2>1, <2>3, <2>4, <2>5, <2>6
  <1> QED
    BY <1>7, <1>8, <1>10, <1>11 DEF IncidentsInv

LEMMA ClearKeeps ==
    ASSUME IncidentsInv, NEW r \in Resolvers, ClearFlags(r)
    PROVE  IncidentsInv'
  <1>1. /\ incident \in [Alarms -> Incident] /\ record \in [Alarms -> Record]
        /\ resolve \in [Resolvers -> ResolveRequest] /\ orphaned \subseteq Sites
        /\ \A a \in Alarms : incident[a] \in Incident
        /\ NoResolve \in ResolveRequest /\ NoResolve.pc = "idle"
    BY DEF IncidentsInv, IncidentsTypeOK, NoResolve, ResolveRequest
  <1>2. /\ resolve' = [resolve EXCEPT ![r] = NoResolve] /\ resolve[r].pc = "clear"
        /\ record' = record /\ orphaned' = orphaned
        /\ resolve'[r].pc = "idle"
        /\ \A x \in Resolvers \ {r} : resolve'[x] = resolve[x]
    BY <1>1 DEF ClearFlags
  <1>3. \A a \in Alarms :
           /\ incident'[a] \in Incident
           /\ incident'[a].state = incident[a].state
           /\ incident'[a].site = incident[a].site
           /\ incident'[a].type = incident[a].type
           /\ incident'[a].isOccured =
                 IF a \in LoadTimeOf(resolve[r].site) THEN 0 ELSE incident[a].isOccured
    BY <1>1 DEF ClearFlags, Incident
  <1>4. IncidentsTypeOK'
    <2>1. incident' \in [Alarms -> Incident]
      BY <1>3 DEF ClearFlags
    <2> QED
      BY <1>1, <1>2, <2>1 DEF IncidentsTypeOK
  <1>5. SitesKnown'
    BY <1>2, <1>3 DEF SitesKnown, IncidentsInv
  <1>6. HandlersKnow'
    BY <1>2 DEF HandlersKnow, IncidentsInv
  <1>7. FlagsAnswered'
    <2> SUFFICES ASSUME NEW x \in Alarms, incident'[x].state = "there",
                        incident'[x].type = "loadTime", incident'[x].isOccured = 1
                 PROVE  \/ \E b \in Alarms : /\ record'[b].state = "there"
                                             /\ record'[b].site = incident'[x].site
                        \/ \E y \in Resolvers : /\ resolve'[y].pc = "clear"
                                                /\ resolve'[y].site = incident'[x].site
                        \/ incident'[x].site \in orphaned'
      BY DEF FlagsAnswered
    <2>1. /\ incident[x].state = "there" /\ incident[x].type = "loadTime"
          /\ incident'[x].site = incident[x].site
      BY <1>3
    <2>2. incident[x].isOccured = 1 /\ incident[x].site # resolve[r].site
      BY <1>3, <2>1 DEF LoadTimeOf
    <2> QED
      BY <1>2, <2>1, <2>2 DEF FlagsAnswered, IncidentsInv
  <1> QED
    BY <1>4, <1>5, <1>6, <1>7 DEF IncidentsInv

LEMMA FailKeeps ==
    ASSUME IncidentsInv, NEW r \in Resolvers, ResolveFails(r)
    PROVE  IncidentsInv'
  <1>1. /\ resolve \in [Resolvers -> ResolveRequest] /\ orphaned \subseteq Sites
        /\ NoResolve \in ResolveRequest /\ NoResolve.pc = "idle"
    BY DEF IncidentsInv, IncidentsTypeOK, NoResolve, ResolveRequest
  <1>2. /\ resolve' = [resolve EXCEPT ![r] = NoResolve] /\ resolve[r].pc # "idle"
        /\ record' = record /\ incident' = incident
        /\ resolve'[r].pc = "idle"
        /\ \A x \in Resolvers \ {r} : resolve'[x] = resolve[x]
        /\ orphaned' = IF resolve[r].pc = "clear"
                       THEN orphaned \cup {resolve[r].site} ELSE orphaned
    BY <1>1 DEF ResolveFails
  <1>3. resolve[r].pc = "clear" => resolve[r].site \in Sites
    BY <1>2 DEF HandlersKnow, IncidentsInv
  <1>4. IncidentsTypeOK'
    BY <1>1, <1>2, <1>3 DEF IncidentsInv, IncidentsTypeOK
  <1>5. SitesKnown' /\ HandlersKnow'
    BY <1>2 DEF IncidentsInv, SitesKnown, HandlersKnow
  <1>6. FlagsAnswered'
    BY <1>2 DEF IncidentsInv, FlagsAnswered
  <1> QED
    BY <1>4, <1>5, <1>6 DEF IncidentsInv

\* IncidentsInv is inductive.
LEMMA IncidentsNextInv ==
    IncidentsInv /\ [IncidentsNext]_incidentVars => IncidentsInv'
  <1> SUFFICES ASSUME IncidentsInv, [IncidentsNext]_incidentVars PROVE IncidentsInv'
    OBVIOUS
  <1>1. CASE UNCHANGED incidentVars
    BY <1>1 DEF incidentVars, IncidentsInv, IncidentsTypeOK, SitesKnown, HandlersKnow,
                FlagsAnswered
  <1>2. CASE IncidentsNext
    BY <1>2, RaiseKeeps, DeleteIncidentKeeps, FindRecordKeeps, DeleteRecordKeeps, ClearKeeps,
       FailKeeps DEF IncidentsNext
  <1> QED
    BY <1>1, <1>2

LEMMA IncidentsInductive == IncidentsSpec => []IncidentsInv
  BY IncidentsInitInv, IncidentsNextInv, PTL DEF IncidentsSpec

\* The tables and the handlers stay well formed.
THEOREM IncidentsTypeCorrect == IncidentsSpec => []IncidentsTypeOK
  <1>1. IncidentsInv => IncidentsTypeOK
    BY DEF IncidentsInv
  <1> QED
    BY <1>1, IncidentsInductive, PTL

\* FlagsAnswered: a flag that is up can be resolved, or its handler broke off.
THEOREM FlagsCanBeResolved == IncidentsSpec => []FlagsAnswered
  <1>1. IncidentsInv => FlagsAnswered
    BY DEF IncidentsInv
  <1> QED
    BY <1>1, IncidentsInductive, PTL

\* One step lowers a flag only as LoweredByRemover says.
LEMMA StepLowers ==
    ASSUME IncidentsInv, [IncidentsNext]_incidentVars, NEW a \in Alarms,
           incident[a].isOccured = 1, incident'[a].state = "there",
           incident'[a].isOccured = 0
    PROVE  \E r \in Resolvers :
              /\ resolve[r].pc = "clear" /\ resolve'[r].pc = "idle"
              /\ record[resolve[r].id].by = r
              /\ record[resolve[r].id].site = incident[a].site
  <1>0. /\ incident \in [Alarms -> Incident] /\ resolve \in [Resolvers -> ResolveRequest]
    BY DEF IncidentsInv, IncidentsTypeOK
  <1>1. CASE UNCHANGED incidentVars
    BY <1>1 DEF incidentVars
  <1>2. ASSUME NEW b \in Alarms, NEW s \in Sites, NEW type \in {"loadTime", "responseCode"},
               RaiseAlarm(b, s, type)
        PROVE  FALSE
    <2>1. incident'[a].isOccured = 1
      BY <1>0, <1>2 DEF RaiseAlarm
    <2> QED
      BY <2>1
  <1>3. ASSUME NEW s \in Sites, deleteIncident(s)
        PROVE  FALSE
    <2>1. incident'[a] = incident[a] \/ incident'[a].state = "gone"
      BY <1>3 DEF deleteIncident, NoIncident
    <2> QED
      BY <2>1
  <1>4. ASSUME NEW r \in Resolvers, ClearFlags(r)
        PROVE  /\ resolve[r].pc = "clear" /\ resolve'[r].pc = "idle"
               /\ record[resolve[r].id].by = r
               /\ record[resolve[r].id].site = incident[a].site
    <2>1. resolve[r].pc = "clear" /\ resolve'[r].pc = "idle"
      BY <1>0, <1>4 DEF ClearFlags, NoResolve
    <2>2. a \in LoadTimeOf(resolve[r].site)
      BY <1>4 DEF ClearFlags
    <2>3. incident[a].site = resolve[r].site
      BY <2>2 DEF LoadTimeOf
    <2>4. /\ resolve[r].site # None /\ record[resolve[r].id].by = r
          /\ record[resolve[r].id].site = resolve[r].site
      BY <2>1, IncidentsAssumption DEF HandlersKnow, IncidentsInv
    <2> QED
      BY <2>1, <2>3, <2>4
  <1>5. ASSUME NEW r \in Resolvers, NEW b \in Alarms, deleteResolve(r, b) PROVE FALSE
    BY <1>5 DEF deleteResolve
  <1>6. ASSUME NEW r \in Resolvers, DeleteRecord(r) \/ ResolveFails(r) PROVE FALSE
    BY <1>6 DEF DeleteRecord, ResolveFails
  <1> QED
    BY <1>1, <1>2, <1>3, <1>4, <1>5, <1>6 DEF IncidentsNext

\* LoweredByRemover: of two requests for one record only one lowers flags.
THEOREM RemoverLowers == IncidentsSpec => LoweredByRemover
  <1>1. IncidentsInv /\ [IncidentsNext]_incidentVars =>
           [\A a \in Alarms :
              (incident[a].isOccured = 1 /\ incident'[a].state = "there"
                 /\ incident'[a].isOccured = 0) =>
                 \E r \in Resolvers :
                    /\ resolve[r].pc = "clear" /\ resolve'[r].pc = "idle"
                    /\ record[resolve[r].id].by = r
                    /\ record[resolve[r].id].site = incident[a].site]_incidentVars
    BY StepLowers
  <1> QED
    BY <1>1, IncidentsInductive, PTL DEF IncidentsSpec, LoweredByRemover

(***************************************************************************)
(* The admins.                                                             *)
(***************************************************************************)
\* What becomes of requests, as one operator per form.
SigningUp(a, p) == [NoDesk EXCEPT !.pc = "save", !.user = a, !.new = p, !.signUp = TRUE]

SigningIn(a, p) == [NoDesk EXCEPT !.pc = "store", !.user = a, !.old = p]

Changing(a, o, p) == [NoDesk EXCEPT !.pc = "change", !.user = a, !.old = o, !.new = p]

Mailing(a) == [NoDesk EXCEPT !.pc = "mail", !.user = a]

MailingNew(a, p) == [NoDesk EXCEPT !.pc = "mail", !.user = a, !.new = p]

Storing(q) == [q EXCEPT !.pc = "store", !.old = q.new]

Overtaken(q) == [q EXCEPT !.stale = TRUE]

LEMMA NoDeskShape ==
    /\ NoDesk \in DeskRequest /\ NoDesk.pc = "idle" /\ NoDesk.user = None /\ NoDesk.new = None
  BY DEF NoDesk, DeskRequest

LEMMA SigningUpShape ==
    ASSUME NEW a \in Addresses, NEW p \in Secrets, NEW d, d = SigningUp(a, p)
    PROVE  d \in DeskRequest /\ d.pc = "save" /\ d.user = a /\ d.new = p
  BY DEF SigningUp, NoDesk, DeskRequest

LEMMA SigningInShape ==
    ASSUME NEW a \in Addresses, NEW p \in Secrets, NEW d, d = SigningIn(a, p)
    PROVE  d \in DeskRequest /\ d.pc = "store" /\ d.user = a /\ d.old = p /\ ~d.signUp
  BY DEF SigningIn, NoDesk, DeskRequest

LEMMA ChangingShape ==
    ASSUME NEW a \in Addresses, NEW o \in Secrets, NEW p \in Secrets, NEW d, d = Changing(a, o, p)
    PROVE  d \in DeskRequest /\ d.pc = "change" /\ d.user = a /\ d.old = o /\ d.new = p
  BY DEF Changing, NoDesk, DeskRequest

LEMMA MailingShape ==
    ASSUME NEW a \in Addresses, NEW d, d = Mailing(a)
    PROVE  d \in DeskRequest /\ d.pc = "mail" /\ d.user = a
  BY DEF Mailing, NoDesk, DeskRequest

LEMMA MailingNewShape ==
    ASSUME NEW a \in Addresses, NEW p \in Secrets, NEW d, d = MailingNew(a, p)
    PROVE  d \in DeskRequest /\ d.pc = "mail" /\ d.user = a
  BY DEF MailingNew, NoDesk, DeskRequest

LEMMA StoringShape ==
    ASSUME NEW q \in DeskRequest, q.new \in Secrets, NEW d, d = Storing(q)
    PROVE  d \in DeskRequest /\ d.pc = "store" /\ d.user = q.user /\ d.old = q.new
  BY DEF Storing, DeskRequest

LEMMA OvertakenShape ==
    ASSUME NEW q \in DeskRequest, NEW d, d = Overtaken(q)
    PROVE  /\ d \in DeskRequest /\ d.pc = q.pc /\ d.user = q.user /\ d.old = q.old
           /\ d.new = q.new /\ d.stale
  BY DEF Overtaken, DeskRequest

\* What a request in flight knows: whose it is, what it will write, and the
\* password that it compared - unless another request wrote one since.
Knows(d) ==
    /\ d.pc # "idle" => d.user \in Addresses
    /\ d.pc \in {"save", "change"} => d.new \in Secrets
    /\ d.pc \in {"store", "change"} =>
          SignedUp(d.user) /\ (d.stale \/ d.old = admin[d.user].password)

DesksKnow == \A r \in Desks : Knows(desk[r])

AdminsInv == AdminsTypeOK /\ DesksKnow

\* The step of AdminsByRight.
ByRight ==
    \A a \in Addresses :
       /\ (SignedUp(a) /\ admin'[a].password # admin[a].password) =>
             \E r \in Desks :
                /\ desk[r].pc = "change" /\ desk[r].user = a /\ desk'[r].pc = "mail"
                /\ desk[r].stale \/ desk[r].old = admin[a].password
       /\ (admin'[a].hashedRt /\ ~admin[a].hashedRt) =>
             \E r \in Desks :
                /\ desk[r].pc = "store" /\ desk[r].user = a
                /\ desk'[r].pc \in {"idle", "mail"}
                /\ desk[r].stale \/ desk[r].old = admin[a].password

\* An account as its two fields.
Account(p, h) == [password |-> p, hashedRt |-> h]

LEMMA AccountShape ==
    ASSUME NEW p \in Secrets \cup {None}, NEW h \in BOOLEAN, NEW x, x = Account(p, h)
    PROVE  x \in Admin /\ x.password = p /\ (x.hashedRt <=> h)
  BY DEF Account, Admin

LEMMA SessionShape ==
    ASSUME NEW p \in Secrets \cup {None}
    PROVE  /\ Account(p, TRUE) \in Admin /\ Account(p, TRUE).password = p
           /\ Account(p, FALSE) \in Admin /\ Account(p, FALSE).password = p
           /\ ~Account(p, FALSE).hashedRt
  BY DEF Account, Admin

LEMMA AccountFields ==
    ASSUME AdminsTypeOK, NEW a \in Addresses
    PROVE  /\ admin[a] \in Admin
           /\ admin[a].password \in Secrets \cup {None} /\ admin[a].hashedRt \in BOOLEAN
  BY DEF AdminsTypeOK, Admin

\* A step that writes no password: one request moves on, to what it may know.
LEMMA DeskMoves ==
    ASSUME AdminsInv, NEW r \in Desks, NEW q \in DeskRequest, Knows(q),
           desk' = [desk EXCEPT ![r] = q],
           admin' \in [Addresses -> Admin],
           \A a \in Addresses : admin'[a].password = admin[a].password,
           letters' \in [Addresses -> SUBSET {"login", "changed"}]
    PROVE  AdminsInv'
  <1>1. desk \in [Desks -> DeskRequest] /\ DesksKnow
    BY DEF AdminsInv, AdminsTypeOK
  <1>2. AdminsTypeOK'
    BY <1>1 DEF AdminsTypeOK
  <1>3. \A x \in Desks : Knows(desk'[x])
    BY <1>1 DEF DesksKnow
  <1>4. \A x \in Desks : Knows(desk[x])'
    BY <1>3 DEF Knows, SignedUp
  <1> QED
    BY <1>2, <1>4 DEF AdminsInv, DesksKnow

\* A password is written: the other requests of its admin are stale.
LEMMA WriteMoves ==
    ASSUME AdminsInv, NEW r \in Desks, NEW a \in Addresses, NEW p \in Secrets,
           NEW q \in DeskRequest, q.user = a, q.pc \in {"store", "mail"},
           q.pc = "store" => q.old = p,
           desk' = AfterWrite(r, a, q),
           admin' = [admin EXCEPT ![a] = Account(p, admin[a].hashedRt)],
           letters' = letters
    PROVE  /\ AdminsInv' /\ desk'[r] = q
           /\ \A b \in Addresses :
                 /\ b # a => admin'[b] = admin[b]
                 /\ admin'[b].hashedRt <=> admin[b].hashedRt
  <1>1. /\ desk \in [Desks -> DeskRequest] /\ admin \in [Addresses -> Admin]
        /\ letters \in [Addresses -> SUBSET {"login", "changed"}]
        /\ AdminsTypeOK /\ DesksKnow
    BY DEF AdminsInv, AdminsTypeOK
  <1>2. /\ admin' \in [Addresses -> Admin] /\ admin'[a].password = p
        /\ admin'[a].hashedRt <=> admin[a].hashedRt
        /\ \A b \in Addresses \ {a} : admin'[b] = admin[b]
    <2>1. /\ Account(p, admin[a].hashedRt) \in Admin
          /\ Account(p, admin[a].hashedRt).password = p
          /\ Account(p, admin[a].hashedRt).hashedRt <=> admin[a].hashedRt
      BY <1>1, AccountFields, AccountShape
    <2> QED
      BY <1>1, <2>1
  <1>3. /\ desk'[r] = q
        /\ \A x \in Desks \ {r} :
              desk'[x] = IF desk[x].user = a THEN Overtaken(desk[x]) ELSE desk[x]
    BY DEF AfterWrite, Overtaken
  <1>4. \A x \in Desks : desk'[x] \in DeskRequest
    BY <1>1, <1>3, OvertakenShape
  <1>5. desk' \in [Desks -> DeskRequest]
    <2>1. desk' = [x \in Desks |-> desk'[x]]
      BY DEF AfterWrite
    <2> QED
      BY <1>4, <2>1
  <1>6. \A x \in Desks : Knows(desk[x])'
    <2> SUFFICES ASSUME NEW x \in Desks PROVE Knows(desk[x])'
      OBVIOUS
    <2>1. p # None
      BY AdminsAssumption DEF AdminsAssumption
    <2>2. CASE x = r
      BY <1>2, <1>3, <2>1, <2>2 DEF Knows, SignedUp
    <2>3. CASE x # r /\ desk[x].user = a
      <3>1. desk'[x] = Overtaken(desk[x])
        BY <1>3, <2>3
      <3>2. /\ desk'[x].pc = desk[x].pc /\ desk'[x].user = a /\ desk'[x].stale
            /\ desk'[x].new = desk[x].new
        BY <1>1, <2>3, <3>1, OvertakenShape
      <3>3. Knows(desk[x])
        BY <1>1 DEF DesksKnow
      <3> QED
        BY <1>2, <2>1, <3>2, <3>3 DEF Knows, SignedUp
    <2>4. CASE x # r /\ desk[x].user # a
      <3>1. desk'[x] = desk[x]
        BY <1>3, <2>4
      <3>2. Knows(desk[x])
        BY <1>1 DEF DesksKnow
      <3> QED
        BY <1>2, <2>4, <3>1, <3>2 DEF Knows, SignedUp
    <2> QED
      BY <2>2, <2>3, <2>4
  <1>7. AdminsTypeOK'
    BY <1>1, <1>2, <1>5 DEF AdminsTypeOK
  <1> QED
    BY <1>2, <1>3, <1>6, <1>7 DEF AdminsInv, DesksKnow

LEMMA BeginKeeps ==
    ASSUME AdminsInv, NEW r \in Desks, NEW q \in DeskRequest, Knows(q), Begin(r, q)
    PROVE  AdminsInv' /\ ByRight
  <1>1. desk' = [desk EXCEPT ![r] = q] /\ admin' = admin /\ letters' = letters
    BY DEF Begin
  <1>2. AdminsInv'
    BY <1>1, DeskMoves DEF AdminsInv, AdminsTypeOK
  <1> QED
    BY <1>1, <1>2 DEF ByRight

LEMMA RequestsKeep ==
    ASSUME AdminsInv, NEW r \in Desks, NEW a \in Addresses,
           \/ signinLocal(r, a)
           \/ \E p \in Secrets : signupLocal(r, a, p) \/ passwordChanged(r, a, p)
    PROVE  AdminsInv' /\ ByRight
  <1>1. CASE signinLocal(r, a)
    <2>1. SignedUp(a) /\ Begin(r, SigningIn(a, admin[a].password))
      BY <1>1 DEF signinLocal, SigningIn
    <2>2. admin[a].password \in Secrets
      BY <2>1, AccountFields DEF SignedUp, AdminsInv
    <2> DEFINE d == SigningIn(a, admin[a].password)
    <2>3. d \in DeskRequest /\ d.pc = "store" /\ d.user = a /\ d.old = admin[a].password
      BY <2>2, SigningInShape
    <2> HIDE DEF d
    <2>4. Knows(d)
      BY <2>1, <2>3 DEF Knows
    <2> QED
      BY <2>1, <2>3, <2>4, BeginKeeps DEF d
  <1>2. ASSUME NEW p \in Secrets, signupLocal(r, a, p)
        PROVE  AdminsInv' /\ ByRight
    <2>1. Begin(r, SigningUp(a, p))
      BY <1>2 DEF signupLocal, SigningUp
    <2> DEFINE d == SigningUp(a, p)
    <2>2. d \in DeskRequest /\ d.pc = "save" /\ d.user = a /\ d.new = p
      BY SigningUpShape
    <2> HIDE DEF d
    <2>3. Knows(d)
      BY <2>2 DEF Knows
    <2> QED
      BY <2>1, <2>2, <2>3, BeginKeeps DEF d
  <1>3. ASSUME NEW p \in Secrets, passwordChanged(r, a, p)
        PROVE  AdminsInv' /\ ByRight
    <2>1. SignedUp(a) /\ Begin(r, Changing(a, admin[a].password, p))
      BY <1>3 DEF passwordChanged, Changing, OldPassword
    <2>2. admin[a].password \in Secrets
      BY <2>1, AccountFields DEF SignedUp, AdminsInv
    <2> DEFINE d == Changing(a, admin[a].password, p)
    <2>3. /\ d \in DeskRequest /\ d.pc = "change" /\ d.user = a
          /\ d.old = admin[a].password /\ d.new = p
      BY <2>2, ChangingShape
    <2> HIDE DEF d
    <2>4. Knows(d)
      BY <2>1, <2>3 DEF Knows
    <2> QED
      BY <2>1, <2>3, <2>4, BeginKeeps DEF d
  <1> QED
    BY <1>1, <1>2, <1>3

LEMMA DeskEnds == NoDesk \in DeskRequest /\ Knows(NoDesk)
  BY NoDeskShape DEF Knows

LEMMA SaveKeeps ==
    ASSUME AdminsInv, NEW r \in Desks, SaveAdmin(r)
    PROVE  AdminsInv' /\ ByRight
  <1> DEFINE a == desk[r].user
  <1>1. desk[r].pc = "save" /\ letters' = letters
    BY DEF SaveAdmin
  <1>2. desk[r] \in DeskRequest /\ Knows(desk[r])
    BY DEF AdminsInv, AdminsTypeOK, DesksKnow
  <1>3. a \in Addresses /\ desk[r].new \in Secrets
    BY <1>1, <1>2 DEF Knows
  <1>4. CASE EmailUnused(a)
    <2> DEFINE q == Storing(desk[r])
    <2>1. /\ admin' = [admin EXCEPT ![a] = Account(desk[r].new, admin[a].hashedRt)]
          /\ desk' = AfterWrite(r, a, q)
      BY <1>4 DEF SaveAdmin, Account, Storing
    <2>2. q \in DeskRequest /\ q.pc = "store" /\ q.user = a /\ q.old = desk[r].new
      BY <1>2, <1>3, StoringShape
    <2> HIDE DEF q
    <2>3. /\ AdminsInv'
          /\ \A b \in Addresses : /\ b # a => admin'[b] = admin[b]
                                  /\ admin'[b].hashedRt <=> admin[b].hashedRt
      BY <1>1, <1>3, <2>1, <2>2, WriteMoves
    <2>4. ~SignedUp(a)
      BY <1>4 DEF EmailUnused
    <2> QED
      BY <2>3, <2>4 DEF ByRight
  <1>5. CASE ~EmailUnused(a)
    <2>1. desk' = [desk EXCEPT ![r] = NoDesk] /\ admin' = admin
      BY <1>5 DEF SaveAdmin
    <2>2. AdminsInv'
      BY <1>1, <2>1, DeskEnds, DeskMoves DEF AdminsInv, AdminsTypeOK
    <2> QED
      BY <2>1, <2>2 DEF ByRight
  <1> QED
    BY <1>4, <1>5

LEMMA StoreKeeps ==
    ASSUME AdminsInv, NEW r \in Desks, updateRtHash(r)
    PROVE  AdminsInv' /\ ByRight
  <1> DEFINE a == desk[r].user
             q == IF desk[r].signUp THEN NoDesk ELSE Mailing(a)
  <1>1. /\ desk[r].pc = "store" /\ letters' = letters
        /\ admin' = [admin EXCEPT ![a] = Account(admin[a].password, TRUE)]
        /\ desk' = [desk EXCEPT ![r] = q]
    BY DEF updateRtHash, Account, Mailing
  <1>2. /\ desk[r] \in DeskRequest /\ Knows(desk[r]) /\ AdminsTypeOK
        /\ admin \in [Addresses -> Admin] /\ desk \in [Desks -> DeskRequest]
    BY DEF AdminsInv, AdminsTypeOK, DesksKnow
  <1>3. a \in Addresses /\ (desk[r].stale \/ desk[r].old = admin[a].password)
    BY <1>1, <1>2 DEF Knows
  <1>4. q \in DeskRequest /\ q.pc \in {"idle", "mail"} /\ (q.pc = "mail" => q.user = a)
    BY <1>3, NoDeskShape, MailingShape
  <1> HIDE DEF q
  <1>5. Knows(q)
    BY <1>3, <1>4 DEF Knows
  <1>6. /\ Account(admin[a].password, TRUE) \in Admin
        /\ Account(admin[a].password, TRUE).password = admin[a].password
    BY <1>2, <1>3, AccountFields, SessionShape
  <1>7. /\ admin' \in [Addresses -> Admin]
        /\ \A b \in Addresses : /\ admin'[b].password = admin[b].password
                                /\ b # a => admin'[b] = admin[b]
    BY <1>1, <1>2, <1>3, <1>6
  <1>8. AdminsInv'
    BY <1>1, <1>2, <1>4, <1>5, <1>7, DeskMoves DEF AdminsTypeOK
  <1>9. desk'[r] = q
    BY <1>1, <1>2
  <1> QED
    BY <1>1, <1>3, <1>4, <1>7, <1>8, <1>9 DEF ByRight

LEMMA ChangeKeeps ==
    ASSUME AdminsInv, NEW r \in Desks, ChangePassword(r)
    PROVE  AdminsInv' /\ ByRight
  <1> DEFINE a == desk[r].user
             q == MailingNew(a, desk[r].new)
  <1>1. /\ desk[r].pc = "change" /\ letters' = letters
        /\ admin' = [admin EXCEPT ![a] = Account(desk[r].new, admin[a].hashedRt)]
        /\ desk' = AfterWrite(r, a, q)
    BY DEF ChangePassword, Account, MailingNew
  <1>2. desk[r] \in DeskRequest /\ Knows(desk[r])
    BY DEF AdminsInv, AdminsTypeOK, DesksKnow
  <1>3. /\ a \in Addresses /\ desk[r].new \in Secrets
        /\ desk[r].stale \/ desk[r].old = admin[a].password
    BY <1>1, <1>2 DEF Knows
  <1>4. q \in DeskRequest /\ q.pc = "mail" /\ q.user = a
    BY <1>3, MailingNewShape
  <1> HIDE DEF q
  <1>5. /\ AdminsInv' /\ desk'[r] = q
        /\ \A b \in Addresses : /\ b # a => admin'[b] = admin[b]
                                /\ admin'[b].hashedRt <=> admin[b].hashedRt
    BY <1>1, <1>3, <1>4, WriteMoves
  <1> QED
    BY <1>1, <1>3, <1>4, <1>5 DEF ByRight

LEMMA MailKeeps ==
    ASSUME AdminsInv, NEW r \in Desks, MailAdmin(r) \/ DeskFails(r)
    PROVE  AdminsInv' /\ ByRight
  <1>1. /\ desk' = [desk EXCEPT ![r] = NoDesk] /\ admin' = admin
        /\ letters' \in [Addresses -> SUBSET {"login", "changed"}]
    BY DEF MailAdmin, DeskFails, AdminsInv, AdminsTypeOK
  <1>2. AdminsInv'
    BY <1>1, DeskEnds, DeskMoves DEF AdminsInv, AdminsTypeOK
  <1> QED
    BY <1>1, <1>2 DEF ByRight

LEMMA LogoutKeeps ==
    ASSUME AdminsInv, NEW a \in Addresses, logout(a)
    PROVE  AdminsInv' /\ ByRight
  <1>1. /\ admin' = [admin EXCEPT ![a] = Account(admin[a].password, FALSE)]
        /\ desk' = desk /\ letters' = letters
    BY DEF logout, Account
  <1>2. AdminsTypeOK /\ DesksKnow /\ admin \in [Addresses -> Admin]
    BY DEF AdminsInv, AdminsTypeOK
  <1>3. /\ Account(admin[a].password, FALSE) \in Admin
        /\ Account(admin[a].password, FALSE).password = admin[a].password
        /\ ~Account(admin[a].password, FALSE).hashedRt
    BY <1>2, AccountFields, SessionShape
  <1>4. /\ admin' \in [Addresses -> Admin]
        /\ \A b \in Addresses : /\ admin'[b].password = admin[b].password
                                /\ admin'[b].hashedRt => admin[b].hashedRt
    BY <1>1, <1>2, <1>3
  <1>5. AdminsTypeOK'
    BY <1>1, <1>2, <1>4 DEF AdminsTypeOK
  <1>6. \A x \in Desks : Knows(desk[x])'
    BY <1>1, <1>2, <1>4 DEF DesksKnow, Knows, SignedUp
  <1> QED
    BY <1>4, <1>5, <1>6 DEF AdminsInv, DesksKnow, ByRight

LEMMA AdminsStay ==
    ASSUME AdminsInv, UNCHANGED adminVars
    PROVE  AdminsInv' /\ ByRight
  <1>1. admin' = admin /\ desk' = desk /\ letters' = letters
    BY DEF adminVars
  <1> QED
    BY <1>1 DEF AdminsInv, AdminsTypeOK, DesksKnow, Knows, SignedUp, ByRight

LEMMA AdminsNextKeeps == AdminsInv /\ [AdminsNext]_adminVars => AdminsInv' /\ ByRight
  <1> SUFFICES ASSUME AdminsInv, [AdminsNext]_adminVars PROVE AdminsInv' /\ ByRight
    OBVIOUS
  <1>1. CASE \E r \in Desks, a \in Addresses :
                \/ signinLocal(r, a)
                \/ \E p \in Secrets : signupLocal(r, a, p) \/ passwordChanged(r, a, p)
    BY <1>1, RequestsKeep
  <1>2. CASE \E r \in Desks : \/ SaveAdmin(r) \/ updateRtHash(r) \/ ChangePassword(r)
                              \/ MailAdmin(r) \/ DeskFails(r)
    BY <1>2, SaveKeeps, StoreKeeps, ChangeKeeps, MailKeeps
  <1>3. CASE \E a \in Addresses : logout(a) \/ refreshTokens(a)
    BY <1>3, LogoutKeeps, AdminsStay DEF refreshTokens
  <1>4. CASE UNCHANGED adminVars
    BY <1>4, AdminsStay
  <1> QED
    BY <1>1, <1>2, <1>3, <1>4 DEF AdminsNext

LEMMA AdminsInitInv == AdminsInit => AdminsInv
  <1> SUFFICES ASSUME AdminsInit PROVE AdminsInv
    OBVIOUS
  <1>1. NoAdmin \in Admin
    BY DEF NoAdmin, Admin
  <1>2. AdminsTypeOK
    BY <1>1, NoDeskShape DEF AdminsInit, AdminsTypeOK
  <1>3. DesksKnow
    BY DeskEnds DEF AdminsInit, DesksKnow
  <1> QED
    BY <1>2, <1>3 DEF AdminsInv

LEMMA AdminsInductive == AdminsSpec => []AdminsInv
  BY AdminsInitInv, AdminsNextKeeps, PTL DEF AdminsSpec

\* Accounts, requests and mails of the admins keep their types.
THEOREM AdminsTypeCorrect == AdminsSpec => []AdminsTypeOK
  <1>1. AdminsInv => AdminsTypeOK
    BY DEF AdminsInv
  <1> QED
    BY <1>1, AdminsInductive, PTL

\* AuthService and UserService: who changes an admin's password and who starts
\* a session knew the password in force, or was overtaken by another write.
THEOREM AdminsActByRight == AdminsSpec => AdminsByRight
  <1>1. AdminsInv /\ [AdminsNext]_adminVars => [ByRight]_adminVars
    BY AdminsNextKeeps
  <1>2. AdminsSpec => [][ByRight]_adminVars
    BY <1>1, AdminsInductive, PTL DEF AdminsSpec
  <1> QED
    BY <1>2 DEF AdminsByRight, ByRight

(***************************************************************************)
(* The services side by side: a step of one leaves the variables of the    *)
(* others as they are.                                                     *)
(***************************************************************************)
ServicesInv ==
    /\ Inv /\ ListingsInv /\ OverviewInv /\ ChartInv
    /\ MailInv /\ IncidentsInv /\ AdminsInv

LEMMA ServicesInitInv == MCInit => ServicesInv
  <1>1. ChartInit => ChartInv
    BY ChartAssumption DEF ChartInit, ChartInv, ChartAssumption
  <1> QED
    BY <1>1, InitInv, ListingsInitInv, OverviewInitInv, MailInitInv, IncidentsInitInv,
       AdminsInitInv DEF MCInit, ServicesInv

LEMMA ServicesStay ==
    ASSUME ServicesInv
    PROVE  /\ UNCHANGED monitorVars => Inv'
           /\ UNCHANGED listingVars => ListingsInv'
           /\ UNCHANGED overviewVars => OverviewInv'
           /\ UNCHANGED chart => ChartInv'
           /\ UNCHANGED mailVars => MailInv'
           /\ UNCHANGED incidentVars => IncidentsInv'
           /\ UNCHANGED adminVars => AdminsInv'
  <1>1. UNCHANGED monitorVars => Inv'
    BY NextKeeps DEF ServicesInv, Good
  <1>2. UNCHANGED listingVars => ListingsInv'
    BY ListingsNextInv DEF ServicesInv
  <1>3. UNCHANGED overviewVars => OverviewInv'
    BY OverviewNextInv DEF ServicesInv
  <1>4. UNCHANGED chart => ChartInv'
    BY DEF ServicesInv, ChartInv
  <1>5. UNCHANGED mailVars => MailInv'
    BY MailNextInv DEF ServicesInv
  <1>6. UNCHANGED incidentVars => IncidentsInv'
    BY IncidentsNextInv DEF ServicesInv
  <1>7. UNCHANGED adminVars => AdminsInv'
    BY AdminsNextKeeps DEF ServicesInv
  <1> QED
    BY <1>1, <1>2, <1>3, <1>4, <1>5, <1>6, <1>7

LEMMA ServicesNextInv == ServicesInv /\ [MCNext]_serviceVars => ServicesInv'
  <1> SUFFICES ASSUME ServicesInv, [MCNext]_serviceVars PROVE ServicesInv'
    OBVIOUS
  <1>1. CASE MonitorsRuns
    <2>1. Inv'
      BY <1>1, NextKeeps DEF MonitorsRuns, ServicesInv, Good
    <2> QED
      BY <1>1, <2>1, ServicesStay DEF MonitorsRuns, ServicesInv
  <1>2. CASE ListingsRuns
    <2>1. ListingsInv'
      BY <1>2, ListingsNextInv DEF ListingsRuns, ServicesInv
    <2> QED
      BY <1>2, <2>1, ServicesStay DEF ListingsRuns, ServicesInv
  <1>3. CASE OverviewRuns
    <2>1. OverviewInv'
      BY <1>3, OverviewNextInv DEF OverviewRuns, ServicesInv
    <2> QED
      BY <1>3, <2>1, ServicesStay DEF OverviewRuns, ServicesInv
  <1>4. CASE MailQueueRuns
    <2>1. MailInv'
      BY <1>4, MailNextInv DEF MailQueueRuns, ServicesInv
    <2> QED
      BY <1>4, <2>1, ServicesStay DEF MailQueueRuns, ServicesInv
  <1>5. CASE IncidentsRuns
    <2>1. IncidentsInv'
      BY <1>5, IncidentsNextInv DEF IncidentsRuns, ServicesInv
    <2> QED
      BY <1>5, <2>1, ServicesStay DEF IncidentsRuns, ServicesInv
  <1>6. CASE AdminsRun
    <2>1. AdminsInv'
      BY <1>6, AdminsNextKeeps DEF AdminsRun, ServicesInv
    <2> QED
      BY <1>6, <2>1, ServicesStay DEF AdminsRun, ServicesInv
  <1>7. CASE UNCHANGED serviceVars
    BY <1>7, ServicesStay DEF serviceVars, ServicesInv
  <1> QED
    BY <1>1, <1>2, <1>3, <1>4, <1>5, <1>6, <1>7 DEF MCNext

LEMMA ServicesInductive == MCSpec => []ServicesInv
  BY ServicesInitInv, ServicesNextInv, PTL DEF MCSpec

\* Every variable of the smaller services keeps its type, side by side as the
\* runs check them.
THEOREM ServicesTypeCorrect == MCSpec => []ServicesTypeOK
  <1>1. ServicesInv => ServicesTypeOK
    BY DEF ServicesInv, ServicesTypeOK, Inv, ListingsInv, OverviewInv, MailInv, IncidentsInv,
           AdminsInv
  <1> QED
    BY <1>1, ServicesInductive, PTL

ServicesRight ==
    /\ VerdictsHold /\ OneCopy /\ LossExplained /\ FlagsAnswered
    /\ WalkShowsAll /\ TiedWalkShowsAsMany /\ OverviewAddsUp
    /\ BarsShowFirstReadings /\ HourLabelsTell /\ LastMonthCharted

\* Nor does any of them, as they run side by side, break what another promises.
THEOREM ServicesKeepPromises == MCSpec => []ServicesRight
  <1>1. ServicesInv => VerdictsHold /\ FlagsAnswered
    BY DEF ServicesInv, Inv, IncidentsInv
  <1>2. ServicesInv => OneCopy /\ LossExplained
    BY MailsHold DEF ServicesInv
  <1>3. ServicesInv => WalkShowsAll /\ TiedWalkShowsAsMany /\ OverviewAddsUp
    BY WalksHold, SumsHold DEF ServicesInv
  <1>4. ServicesInv => BarsShowFirstReadings /\ HourLabelsTell /\ LastMonthCharted
    BY BarsHold, HoursHold, MonthHolds DEF ServicesInv
  <1>5. ServicesInv => ServicesRight
    BY <1>1, <1>2, <1>3, <1>4 DEF ServicesRight
  <1> QED
    BY <1>5, ServicesInductive, PTL
=============================================================================
