------------------------------ MODULE Shutdown ------------------------------
(***************************************************************************)
(* The process as cmd/orbitd/main.go puts it together: an HTTP server whose*)
(* requests and event streams use the event bus and the job queue, whose   *)
(* workers use both too, and the goroutine that shuts everything down in an*)
(* order: server, workers, bus.  main returns once the server has begun to *)
(* shut down, which ends the process at any later point.                   *)
(*                                                                         *)
(* What a request or a job does to the repository is the subject of the    *)
(* other modules; here it emits events and submits jobs in any order.      *)
(***************************************************************************)
EXTENDS EventBus, JobQueue

CONSTANT Requests  \* goroutines that serve requests other than event streams

ASSUME ShutdownAssumption ==
  /\ Publishers = Requests \cup Workers
  /\ Submitters = Requests \cup Workers
  /\ Requests \cap Workers = {}

VARIABLES
  stage,     \* the shutdown goroutine: what it does next
  accepted,  \* requests and streams that the server has accepted
  returned,  \* requests whose handler has returned
  exited     \* the process has ended

vars == <<busVars, queueVars, stage, accepted, returned, exited>>

procVars == <<stage, accepted, returned, exited>>
-----------------------------------------------------------------------------
FaultAfter(s) ==
  CASE s = "serve"  -> "server"
    [] s = "server" -> "bus"
    [] s = "bus"    -> "running"
    [] s = "running" -> "cancel"
    [] s = "cancel" -> "wait"
    [] s = "wait"   -> "done"

(* httpServer.Shutdown, the three steps of workers.Stop, and bus.Close.    *)
After(s) ==
  CASE s = "serve"   -> "server"
    [] s = "server"  -> "running"
    [] s = "running" -> "cancel"
    [] s = "cancel"  -> "wait"
    [] s = "wait"    -> "bus"
    [] s = "bus"     -> "done"

Proceed(s) ==
  /\ stage = s
  /\ stage' = After(s)
  /\ UNCHANGED <<accepted, returned, exited>>

(* The goroutine runs a handler and is not within a call of bus or queue.  *)
Handling(g) ==
  /\ emitting[g] = None /\ submitting[g] = NoJob
  /\ \/ g \in Requests /\ g \in accepted \ returned
     \/ g \in Workers /\ worker[g] = "handle"
-----------------------------------------------------------------------------
(* Shutdown closes the listener before anything else.                      *)
Accept ==
  /\ stage = "serve"
  /\ \E x \in (Requests \cup Streams) \ accepted : accepted' = accepted \cup {x}
  /\ UNCHANGED <<busVars, queueVars, stage, returned, exited>>

Emit(g) ==
  /\ Handling(g)
  /\ NewEvent(g)
  /\ UNCHANGED <<queueVars, procVars>>

Submit(g) ==
  /\ Handling(g)
  /\ SubmitCheck(g)
  /\ UNCHANGED <<busVars, procVars>>

Return(g) ==
  /\ Handling(g)
  /\ \/ /\ g \in Requests
        /\ returned' = returned \cup {g}
        /\ UNCHANGED queueVars
     \/ /\ g \in Workers
        /\ HandlerReturns(g)
        /\ UNCHANGED returned
  /\ UNCHANGED <<busVars, stage, accepted, exited>>

(* A call of the bus or the queue that a handler has begun goes on.        *)
GoOn(g) ==
  \/ Publish(g) /\ UNCHANGED <<queueVars, procVars>>
  \/ SubmitSend(g) /\ UNCHANGED <<busVars, procVars>>

Work(w) == (WorkerExit(w) \/ TakeJob(w)) /\ UNCHANGED <<busVars, procVars>>

Open(s) == s \in accepted /\ Subscribe(s) /\ UNCHANGED <<queueVars, procVars>>

Stream(s) == Serve(s) /\ UNCHANGED <<queueVars, procVars>>

Leave(s) == Disconnect(s) /\ UNCHANGED <<queueVars, procVars>>

Signal == Proceed("serve") /\ UNCHANGED <<busVars, queueVars>>

(* Shutdown waits for the requests, five seconds at most: it returns with  *)
(* or without requests under way.                                          *)
ServerShutdown == Proceed("server") /\ UNCHANGED <<busVars, queueVars>>

Stop ==
  /\ \/ Proceed("running") /\ StopRunning
     \/ Proceed("cancel") /\ StopCancel
     \/ Proceed("wait") /\ WorkersDone /\ UNCHANGED queueVars
  /\ UNCHANGED busVars

BusClose == Proceed("bus") /\ CloseBus /\ UNCHANGED queueVars

(* ListenAndServe returns as soon as Shutdown is called, and then main.    *)
Exit ==
  /\ stage # "serve"
  /\ exited' = TRUE
  /\ UNCHANGED <<busVars, queueVars, stage, accepted, returned>>
-----------------------------------------------------------------------------
Init ==
  /\ BusInit
  /\ QueueInit
  /\ stage = "serve"
  /\ accepted = {}
  /\ returned = {}
  /\ exited = FALSE

Handlers == Requests \cup Workers

Next ==
  /\ ~exited
  /\ \/ Accept
     \/ \E g \in Handlers : Emit(g) \/ Submit(g) \/ Return(g) \/ GoOn(g)
     \/ \E w \in Workers : Work(w)
     \/ \E s \in Streams : Open(s) \/ Stream(s) \/ Leave(s)
     \/ Signal \/ ServerShutdown \/ Stop \/ BusClose
     \/ Exit

Spec == Init /\ [][Next]_vars

(* The Go scheduler runs every goroutine that can run, handlers return     *)
(* after finitely many calls, and the shutdown goroutine goes on once it   *)
(* has been woken.  No client has to make a request, no signal has to      *)
(* come, and the process is not assumed to exit.                           *)
Fairness ==
  /\ \A g \in Handlers : WF_vars(~exited /\ (Return(g) \/ GoOn(g)))
  /\ \A w \in Workers : WF_vars(~exited /\ Work(w))
  /\ \A s \in Streams : WF_vars(~exited /\ (Open(s) \/ Stream(s)))
  /\ WF_vars(~exited /\ (ServerShutdown \/ Stop \/ BusClose))

FairSpec == Spec /\ Fairness
-----------------------------------------------------------------------------
(***************************************************************************)
(* Properties                                                              *)
(***************************************************************************)
(* The types of the parts, and of what the process adds.                   *)
TypeOK ==
  /\ BusTypeOK
  /\ QueueTypeOK
  /\ stage \in {"serve", "server", "running", "cancel", "wait", "bus", "done"}
  /\ accepted \subseteq Requests \cup Streams
  /\ returned \subseteq Requests
  /\ exited \in BOOLEAN

(* No worker runs a handler once the bus may be closed: an event stream    *)
(* that takes the bus's mutex with it (Subscription.Close after Bus.Close) *)
(* finds no worker that still has to publish.                              *)
WorkersEndFirst == closed \/ lost => WorkersDone

(* Stop returns: the workers finish their jobs, whatever they publish and  *)
(* submit, and end.                                                        *)
StopReturns == (stage = "wait") ~> (stage # "wait" \/ exited)

(* A publisher is never held up for good, be its subscribers as slow as    *)
(* they like, as long as the bus is not closed.                            *)
PublishersProceed ==
  \A p \in Publishers : (emitting[p] # None) ~> (emitting[p] = None \/ closed \/ exited)

(* A job that the queue has accepted is taken, unless the queue is stopped.*)
JobsTaken == \A n \in 1..MaxJobs : Queued(n) ~> (~Queued(n) \/ ~running \/ exited)
=============================================================================
