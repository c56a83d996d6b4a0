----------------------------- MODULE MailQueue ------------------------------
(***************************************************************************)
(* The mail queue: QueueMailService adds jobs to Bull, which keeps them in *)
(* Redis; QueueMailConsumer hands each one to the SMTP transport and       *)
(* returns without waiting for it.  Bull is modelled as the code uses it,  *)
(* with the defaults: one job at a time, no retry of a job that failed,    *)
(* and one more run of a job that stalled, because its process died.       *)
(***************************************************************************)
EXTENDS Platform, Naturals

CONSTANTS
    Mails,           \* the mails the services ask for
    MaxDeaths        \* bound: deaths of the process

ASSUME MailQueueAssumption == MaxDeaths \in Nat /\ None \notin Mails

VARIABLES
    job,             \* Bull's job for each mail
    worker,          \* the job the process runs, and whether it was handed over
    smtp,            \* mails the transport is sending
    fate,            \* history: what became of each mail
    deaths           \* deaths so far

mailVars == <<job, worker, smtp, fate, deaths>>

\* maxStalledCount of Bull
MaxStalls == 1

Job ==
    [state: {"none", "delayed", "waiting", "active", "completed", "failed"},
     stalls: 0 .. MaxStalls]

\* inbox: copies the mail server took; refused: calls it refused; cut: calls
\* the process did not survive; hit: deaths while the job was active.
Fate == [inbox: Nat, refused: Nat, cut: Nat, hit: Nat]

IdleWorker == [on |-> None, handed |-> FALSE]

MailQueueTypeOK ==
    /\ job \in [Mails -> Job]
    /\ worker \in [on: Mails \cup {None}, handed: BOOLEAN]
    /\ smtp \subseteq Mails
    /\ fate \in [Mails -> Fate]
    /\ deaths \in 0 .. MaxDeaths

MailQueueInit ==
    /\ job = [m \in Mails |-> [state |-> "none", stalls |-> 0]]
    /\ worker = IdleWorker
    /\ smtp = {}
    /\ fate = [m \in Mails |-> [inbox |-> 0, refused |-> 0, cut |-> 0, hit |-> 0]]
    /\ deaths = 0

\* queue.add('mail-job', data, { delay: 2000 })
sendMail(m) ==
    /\ job[m].state = "none"
    /\ job' = [job EXCEPT ![m].state = "delayed"]
    /\ UNCHANGED <<worker, smtp, fate, deaths>>

DelayOver(m) ==
    /\ job[m].state = "delayed"
    /\ job' = [job EXCEPT ![m].state = "waiting"]
    /\ UNCHANGED <<worker, smtp, fate, deaths>>

TakeJob(m) ==
    /\ worker = IdleWorker
    /\ job[m].state = "waiting"
    /\ job' = [job EXCEPT ![m].state = "active"]
    /\ worker' = [on |-> m, handed |-> FALSE]
    /\ UNCHANGED <<smtp, fate, deaths>>

\* Mutant: a job may end without a call of the transport.
NothingSent(m) == smtp

\* this.mailerService.sendMail(...), in both branches, without await
Sending(m) == smtp \cup {m}

readOperationJob(m) ==
    /\ worker = [on |-> m, handed |-> FALSE]
    /\ worker' = [on |-> m, handed |-> TRUE]
    /\ smtp' = Sending(m)
    /\ UNCHANGED <<job, fate, deaths>>

\* The handler has returned: Bull writes that the job is done.
CompleteJob(m) ==
    /\ worker = [on |-> m, handed |-> TRUE]
    /\ job' = [job EXCEPT ![m].state = "completed"]
    /\ worker' = IdleWorker
    /\ UNCHANGED <<smtp, fate, deaths>>

\* .then and .catch of the transport's promise only write to the log.
MailSent(m) ==
    /\ m \in smtp
    /\ smtp' = smtp \ {m}
    /\ fate' = [fate EXCEPT ![m].inbox = fate[m].inbox + 1]
    /\ UNCHANGED <<job, worker, deaths>>

MailRefused(m) ==
    /\ m \in smtp
    /\ smtp' = smtp \ {m}
    /\ fate' = [fate EXCEPT ![m].refused = fate[m].refused + 1]
    /\ UNCHANGED <<job, worker, deaths>>

\* The process dies and is restarted; Redis and the mail server live on.
MailProcessDies ==
    /\ Faults /\ deaths < MaxDeaths
    /\ deaths' = deaths + 1
    /\ worker' = IdleWorker
    /\ smtp' = {}
    /\ fate' = [m \in Mails |->
          [inbox |-> fate[m].inbox, refused |-> fate[m].refused,
           cut |-> IF m \in smtp THEN fate[m].cut + 1 ELSE fate[m].cut,
           hit |-> IF job[m].state = "active" THEN fate[m].hit + 1 ELSE fate[m].hit]]
    /\ job' = job

\* Mutant: a job whose handler is still running counts as stalled.
Active(m) == job[m].state = "active"

\* Mutant: nobody looks for stalled jobs.
NeverStalled(m) == FALSE

\* An active job that nobody renews the lock of.
IsStalled(m) == job[m].state = "active" /\ worker.on # m

JobStalls(m) ==
    /\ IsStalled(m)
    /\ job' = [job EXCEPT ![m] =
          IF job[m].stalls < MaxStalls
          THEN [state |-> "waiting", stalls |-> job[m].stalls + 1]
          ELSE [state |-> "failed", stalls |-> job[m].stalls]]
    /\ UNCHANGED <<worker, smtp, fate, deaths>>

\* What Bull, the consumer and the transport owe a queued mail.
MailStep ==
    \E m \in Mails :
       \/ DelayOver(m) \/ TakeJob(m) \/ readOperationJob(m) \/ CompleteJob(m)
       \/ MailSent(m) \/ MailRefused(m) \/ JobStalls(m)

MailQueueNext == (\E m \in Mails : sendMail(m)) \/ MailStep \/ MailProcessDies

\* The process is restarted after a death, and the transport times out.
MailQueueFairness == WF_mailVars(MailStep)

MailQueueSpec == MailQueueInit /\ [][MailQueueNext]_mailVars /\ MailQueueFairness

(***************************************************************************)
(* Properties.                                                             *)
(***************************************************************************)
\* However the end of a job, the answer of the transport and deaths of the
\* process are ordered, a mail arrives once, and once more at most for every
\* death that hit its job while it was active.
OneCopy == \A m \in Mails : fate[m].inbox <= 1 + fate[m].hit

\* A job that is completed says nothing of its mail, which the consumer does
\* not wait for; but a mail that never arrives was refused by the mail server
\* or cut off by a death, and a failed job was hit by two.
LossExplained ==
    \A m \in Mails :
       /\ (job[m].state = "completed" /\ m \notin smtp /\ fate[m].inbox = 0) =>
             fate[m].refused + fate[m].cut > 0
       /\ job[m].state = "failed" => fate[m].hit > MaxStalls

\* Every mail that was queued is settled in the end: its job is over and the
\* transport is done with it.
MailSettles ==
    \A m \in Mails :
       job[m].state # "none" ~>
          (job[m].state \in {"completed", "failed"} /\ m \notin smtp)
=============================================================================
