------------------------------ MODULE JobQueue ------------------------------
(***************************************************************************)
(* The job queue (internal/queue/queue.go): goroutines submit jobs to a    *)
(* bounded channel, workers take them and run their handlers, and Stop     *)
(* ends the workers.  Start runs before anything else does.                *)
(***************************************************************************)
EXTENDS Integers, Sequences

CONSTANTS
  Submitters,  \* goroutines that submit jobs
  Workers,     \* goroutines that the queue starts
  Buffer,      \* capacity of the channel
  MaxJobs,     \* bound: number of jobs
  NoJob        \* no job

ASSUME QueueAssumption ==
  Buffer \in Nat \ {0} /\ MaxJobs \in Nat /\ NoJob \notin Nat

VARIABLES
  running,     \* Queue.running
  cancelled,   \* the queue's context is cancelled
  nextJob,     \* Queue.nextID
  jobs,        \* the channel: ids of jobs
  submitting,  \* per submitter: the job it is about to send
  worker       \* per worker: where it is

queueVars == <<running, cancelled, nextJob, jobs, submitting, worker>>

Stages == {"select", "handle", "exited"}
-----------------------------------------------------------------------------
(* Submit looks at the flag and sends in two steps.  A stopped queue       *)
(* refuses the job, a full channel drops it.                               *)
SubmitCheck(g) ==
  /\ submitting[g] = NoJob
  /\ running
  /\ nextJob < MaxJobs
  /\ nextJob' = nextJob + 1
  /\ submitting' = [submitting EXCEPT ![g] = nextJob + 1]
  /\ UNCHANGED <<running, cancelled, jobs, worker>>

SubmitSend(g) ==
  /\ submitting[g] # NoJob
  /\ jobs' = IF Len(jobs) < Buffer THEN Append(jobs, submitting[g]) ELSE jobs
  /\ submitting' = [submitting EXCEPT ![g] = NoJob]
  /\ UNCHANGED <<running, cancelled, nextJob, worker>>

(* The select of a worker takes either of the ways that are open.          *)
FaultMayExit == cancelled \/ jobs = <<>>

MayExit == cancelled

WorkerExit(w) ==
  /\ worker[w] = "select"
  /\ MayExit
  /\ worker' = [worker EXCEPT ![w] = "exited"]
  /\ UNCHANGED <<running, cancelled, nextJob, jobs, submitting>>

(* Every handler begins with a look at its context: a job that is taken    *)
(* after the queue's context was cancelled is lost.                        *)
TakeJob(w) ==
  /\ worker[w] = "select"
  /\ jobs # <<>>
  /\ jobs' = Tail(jobs)
  /\ worker' = [worker EXCEPT ![w] = IF cancelled THEN "select" ELSE "handle"]
  /\ UNCHANGED <<running, cancelled, nextJob, submitting>>

HandlerReturns(w) ==
  /\ worker[w] = "handle"
  /\ worker' = [worker EXCEPT ![w] = "select"]
  /\ UNCHANGED <<running, cancelled, nextJob, jobs, submitting>>

(* Stop: clear the flag, cancel the context, wait for the workers.         *)
StopRunning ==
  /\ running' = FALSE
  /\ UNCHANGED <<cancelled, nextJob, jobs, submitting, worker>>

StopCancel ==
  /\ ~running
  /\ cancelled' = TRUE
  /\ UNCHANGED <<running, nextJob, jobs, submitting, worker>>

WorkersDone == \A w \in Workers : worker[w] = "exited"
-----------------------------------------------------------------------------
QueueInit ==
  /\ running = TRUE
  /\ cancelled = FALSE
  /\ nextJob = 0
  /\ jobs = <<>>
  /\ submitting = [g \in Submitters |-> NoJob]
  /\ worker = [w \in Workers |-> "select"]

QueueNext ==
  \/ \E g \in Submitters : SubmitCheck(g) \/ SubmitSend(g)
  \/ \E w \in Workers : WorkerExit(w) \/ TakeJob(w) \/ HandlerReturns(w)
  \/ StopRunning
  \/ StopCancel

QueueSpec == QueueInit /\ [][QueueNext]_queueVars
-----------------------------------------------------------------------------
(* Every variable keeps its type, the channel its bound, and a worker that *)
(* has ended was told to.                                                  *)
QueueTypeOK ==
  /\ running \in BOOLEAN /\ cancelled \in BOOLEAN
  /\ nextJob \in Nat
  /\ jobs \in Seq(Nat) /\ Len(jobs) <= Buffer
  /\ submitting \in [Submitters -> Nat \cup {NoJob}]
  /\ worker \in [Workers -> Stages]

(* The job is in the channel.                                              *)
Queued(n) == \E i \in DOMAIN jobs : jobs[i] = n
=============================================================================
