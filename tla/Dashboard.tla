----------------------------- MODULE Dashboard -----------------------------
(***************************************************************************)
(* The dashboard server (src/dashboard/app.py, routes.py, persistence.py): *)
(* tasks started and cancelled over REST, the pipeline each runs in a task *)
(* of its own, the queue of gates, the audit log, and the broadcasts they  *)
(* all await.  What SQLite holds survives a restart of the process.        *)
(*                                                                         *)
(* A step runs from one await of a coroutine to the next.  The coroutines  *)
(* are: the handler that creates a task, its run_and_persist, and the      *)
(* requests that cancel, decide or change something.                       *)
(***************************************************************************)
EXTENDS Broadcast

CONSTANTS
  Tasks,       \* the tasks clients create
  Requests,    \* the other requests of clients
  Outcomes,    \* the gate decisions a pipeline can end with
  MaxCrashes   \* bound on the restarts

Creator(t) == <<"create", t>>
Runner(t) == <<"run", t>>
Request(r) == <<"request", r>>

ASSUME DashboardAssumption ==
  /\ Outcomes \subseteq {"AUTO_PASS", "L1_REWORK", "L2_HUMAN", "L3_HALT", "L4_DEPLOY"}
  /\ MaxCrashes \in Nat
  /\ Senders = ({"create", "run"} \X Tasks) \cup ({"request"} \X Requests)

ForHuman == {"L2_HUMAN", "L3_HALT", "L4_DEPLOY"}
Active == {"PENDING", "RUNNING"}
Final == {"SUCCEEDED", "FAILED", "CANCELLED"}
Decided == {"approved", "rejected"}
Announcing == {"announces_run", "announces_gate", "announces_end"}
Failing == {"announces_cancel", "announces_failure"}
Alive == {"scheduled", "pipeline"} \cup Announcing \cup Failing

VARIABLES
  status,      \* stored: the status of each task, "absent" before it is created
  decision,    \* stored: gate_decision of each task, "none" before it is set
  gate,        \* stored: the row of the task's handoff in `gates`
  audit,       \* stored: the coroutines that have written their audit event
  creating,    \* where the handler of POST /api/tasks is
  runner,      \* where run_and_persist() of each task is
  registered,  \* _running_tasks
  cancelling,  \* the tasks whose CancelledError has not been delivered
  result,      \* what the pipeline of each task has returned, while it is needed
  about,       \* the task each request is about
  phase,       \* where each request is
  crashes,     \* history: the restarts so far
  orphaned,    \* history: the tasks that were active at a restart
  early        \* history: the tasks cancelled while their creation was announced

stored == <<status, decision, gate, audit>>
coroutines == <<creating, runner, registered, cancelling, result>>
requests == <<about, phase>>
history == <<crashes, orphaned, early>>
dashboardVars == <<broadcastVars, stored, coroutines, requests, history>>

DashboardTypeOK ==
  /\ BroadcastTypeOK
  /\ status \in [Tasks -> {"absent"} \cup Active \cup Final]
  /\ decision \in [Tasks -> {"none"} \cup Outcomes]
  /\ gate \in [Tasks -> {"none", "pending"} \cup Decided]
  /\ audit \subseteq Senders
  /\ creating \in [Tasks -> {"no", "announces", "over"}]
  /\ runner \in [Tasks -> {"none", "ended"} \cup Alive]
  /\ registered \subseteq Tasks /\ cancelling \subseteq Tasks
  /\ result \in [Tasks -> {"none"} \cup Outcomes]
  /\ about \in [Requests -> Tasks]
  /\ phase \in [Requests -> {"idle", "waits", "announces", "over", "failed",
                         "refused", "killed"}]
  /\ crashes \in 0 .. MaxCrashes
  /\ orphaned \subseteq Tasks /\ early \subseteq Tasks

DashboardInit ==
  /\ BroadcastInit
  /\ status = [t \in Tasks |-> "absent"]
  /\ decision = [t \in Tasks |-> "none"]
  /\ gate = [t \in Tasks |-> "none"]
  /\ audit = {}
  /\ creating = [t \in Tasks |-> "no"]
  /\ runner = [t \in Tasks |-> "none"]
  /\ registered = {} /\ cancelling = {}
  /\ result = [t \in Tasks |-> "none"]
  /\ about \in [Requests -> Tasks]
  /\ phase = [r \in Requests |-> "idle"]
  /\ crashes = 0 /\ orphaned = {} /\ early = {}
-----------------------------------------------------------------------------
(***************************************************************************)
(* The stores.  Each call is one transaction.                              *)
(***************************************************************************)
\* TaskStore.create().
Create(t) == status' = [status EXCEPT ![t] = "PENDING"]

\* TaskStore.transition(): whatever the status was.
Transition(t, to) == status' = [status EXCEPT ![t] = to]

\* AuditStore.emit(): the event a coroutine leaves.
Record(s) == audit' = audit \cup {s}

\* GateStore.enqueue(): INSERT OR REPLACE, by a handoff id that is derived from the
\* task's own.
Enqueue(t) == gate' = [gate EXCEPT ![t] = "pending"]

\* WHERE handoff_id = ? AND status = 'pending'.
Decidable(t) == gate[t] = "pending"
-----------------------------------------------------------------------------
(***************************************************************************)
(* Awaiting a broadcast.  A coroutine goes on when its broadcast is over;  *)
(* _emit() swallows what a broadcast raises, a REST handler does not.      *)
(***************************************************************************)
Announce(s) == sending' = [sending EXCEPT ![s] = Begun]

Announced(s) == sending[s].phase \in {"returned", "raised"}

\* The sender is done with its broadcast, or it is cancelled in the middle of it.
Hush(s) == sending' = [sending EXCEPT ![s] = Quiet]
-----------------------------------------------------------------------------
(***************************************************************************)
(* POST /api/tasks.                                                        *)
(***************************************************************************)
CreateTask(t) ==
  /\ creating[t] = "no"
  /\ Create(t)
  /\ creating' = [creating EXCEPT ![t] = "announces"]
  /\ Announce(Creator(t))
  /\ UNCHANGED <<connections, closed, decision, gate, audit, runner, registered,
                 cancelling, result, requests, history>>

\* create_task(run_and_persist()), _running_tasks, and the audit event.
StartTask(t) ==
  /\ creating[t] = "announces" /\ Announced(Creator(t))
  /\ creating' = [creating EXCEPT ![t] = "over"]
  /\ runner' = [runner EXCEPT ![t] = "scheduled"]
  /\ registered' = registered \cup {t}
  /\ Record(Creator(t))
  /\ Hush(Creator(t))
  /\ UNCHANGED <<connections, closed, status, decision, gate, cancelling, result,
                 requests, history>>
-----------------------------------------------------------------------------
(***************************************************************************)
(* run_and_persist().  A CancelledError on its way comes before anything   *)
(* else.                                                                   *)
(***************************************************************************)
\* It announces the status it has written, at phase p.
Goes(t, p) ==
  /\ runner' = [runner EXCEPT ![t] = p]
  /\ Announce(Runner(t))

\* The finally clause.
Ends(t) ==
  /\ runner' = [runner EXCEPT ![t] = "ended"]
  /\ registered' = registered \ {t}

RunnerStarts(t) ==
  /\ runner[t] = "scheduled" /\ t \notin cancelling
  /\ Transition(t, "RUNNING")
  /\ Goes(t, "announces_run")
  /\ UNCHANGED <<connections, closed, decision, gate, audit, creating, registered,
                 cancelling, result, requests, history>>

PipelineStarts(t) ==
  /\ runner[t] = "announces_run" /\ Announced(Runner(t)) /\ t \notin cancelling
  /\ runner' = [runner EXCEPT ![t] = "pipeline"]
  /\ Hush(Runner(t))
  /\ UNCHANGED <<connections, closed, stored, creating, registered, cancelling, result,
                 requests, history>>

\* A decision for a human is queued and announced first.
PipelineQueuesGate(t, d) ==
  /\ runner[t] = "pipeline" /\ t \notin cancelling
  /\ d \in ForHuman
  /\ Enqueue(t)
  /\ result' = [result EXCEPT ![t] = d]
  /\ Goes(t, "announces_gate")
  /\ UNCHANGED <<connections, closed, status, decision, audit, creating, registered,
                 cancelling, requests, history>>

\* The last transition: only a halt fails.
Concludes(t, d) ==
  /\ Transition(t, IF d = "L3_HALT" THEN "FAILED" ELSE "SUCCEEDED")
  /\ decision' = [decision EXCEPT ![t] = d]
  /\ result' = [result EXCEPT ![t] = "none"]
  /\ Goes(t, "announces_end")
  /\ UNCHANGED <<connections, closed, gate, audit, creating, registered, cancelling,
                 requests, history>>

\* Mutant of PipelineConcludes: a decision for a human is recorded before it is queued.
PipelineConcludes_first(t, d) ==
  /\ runner[t] = "pipeline" /\ t \notin cancelling
  /\ Concludes(t, d)

PipelineConcludes(t, d) ==
  /\ runner[t] = "pipeline" /\ t \notin cancelling
  /\ d \notin ForHuman
  /\ Concludes(t, d)

GateConcludes(t) ==
  /\ runner[t] = "announces_gate" /\ Announced(Runner(t)) /\ t \notin cancelling
  /\ Concludes(t, result[t])

\* Mutant of PipelineRaises: the clause only announces the failure.
PipelineRaises_silent(t) ==
  /\ runner[t] = "pipeline" /\ t \notin cancelling
  /\ Goes(t, "announces_failure")
  /\ UNCHANGED <<connections, closed, stored, creating, registered, cancelling, result,
                 requests, history>>

\* except Exception: the pipeline raised.
PipelineRaises(t) ==
  /\ runner[t] = "pipeline" /\ t \notin cancelling
  /\ Transition(t, "FAILED")
  /\ Goes(t, "announces_failure")
  /\ UNCHANGED <<connections, closed, decision, gate, audit, creating, registered,
                 cancelling, result, requests, history>>

RunnerEnds(t) ==
  /\ runner[t] \in {"announces_end"} \cup Failing
  /\ Announced(Runner(t)) /\ t \notin cancelling
  /\ Ends(t)
  /\ Hush(Runner(t))
  /\ UNCHANGED <<connections, closed, stored, creating, cancelling, result, requests,
                 history>>

\* except CancelledError.
CancelledInTry(t) ==
  /\ t \in cancelling
  /\ runner[t] \in {"pipeline"} \cup Announcing
  /\ cancelling' = cancelling \ {t}
  /\ Transition(t, "CANCELLED")
  /\ result' = [result EXCEPT ![t] = "none"]
  /\ Goes(t, "announces_cancel")
  /\ UNCHANGED <<connections, closed, decision, gate, audit, creating, registered,
                 requests, history>>

\* The error is thrown before the coroutine has begun, whose finally is then not
\* reached, or in the clause that handles an exception.
CancelledElsewhere(t) ==
  /\ t \in cancelling
  /\ runner[t] \in {"scheduled"} \cup Failing
  /\ cancelling' = cancelling \ {t}
  /\ runner' = [runner EXCEPT ![t] = "ended"]
  /\ registered' = IF runner[t] = "scheduled" THEN registered ELSE registered \ {t}
  /\ Hush(Runner(t))
  /\ UNCHANGED <<connections, closed, stored, creating, result, requests, history>>
-----------------------------------------------------------------------------
(***************************************************************************)
(* POST /api/tasks/{id}/cancel.                                            *)
(***************************************************************************)
Asks(r, p) ==
  /\ phase' = [phase EXCEPT ![r] = p]
  /\ UNCHANGED about

\* The status is written and the audit event with it.
RecordCancel(r, t) ==
  /\ Transition(t, "CANCELLED")
  /\ Record(Request(r))
  /\ early' = IF creating[t] = "announces" THEN early \cup {t} ELSE early
  /\ UNCHANGED <<broadcastVars, decision, gate, creating, runner, result, crashes, orphaned>>

\* The task is running: it is cancelled and awaited.
CancelRunning(r, t) ==
  /\ phase[r] = "idle" /\ about[r] = t
  /\ t \in registered
  /\ registered' = registered \ {t}
  /\ cancelling' = cancelling \cup {t}
  /\ Asks(r, "waits")
  /\ UNCHANGED <<broadcastVars, stored, creating, runner, result, history>>

\* Mutant of CancelOther: the status is written whether the task runs or not.
CancelOther_unchecked(r, t) ==
  /\ phase[r] = "idle" /\ about[r] = t
  /\ status[t] # "absent"
  /\ RecordCancel(r, t)
  /\ Asks(r, "over")
  /\ UNCHANGED <<registered, cancelling>>

\* Nothing is running under this id: the status is written at once.
CancelOther(r, t) ==
  /\ phase[r] = "idle" /\ about[r] = t
  /\ t \notin registered /\ status[t] # "absent"
  /\ RecordCancel(r, t)
  /\ Asks(r, "over")
  /\ UNCHANGED <<registered, cancelling>>

CancelUnknown(r, t) ==
  /\ phase[r] = "idle" /\ about[r] = t
  /\ status[t] = "absent"
  /\ Asks(r, "refused")
  /\ UNCHANGED <<broadcastVars, stored, coroutines, history>>

\* Mutant of CancelReturns: the task is trusted to have written its status.
CancelReturns_trusting(r, t) ==
  /\ phase[r] = "waits" /\ about[r] = t
  /\ runner[t] = "ended"
  /\ Record(Request(r))
  /\ phase' = [phase EXCEPT ![r] = "over"]
  /\ UNCHANGED <<broadcastVars, status, decision, gate, coroutines, about, history>>

\* The awaited task is over, however it ended.
CancelReturns(r, t) ==
  /\ phase[r] = "waits" /\ about[r] = t
  /\ runner[t] = "ended"
  /\ RecordCancel(r, t)
  /\ phase' = [phase EXCEPT ![r] = "over"]
  /\ UNCHANGED <<about, registered, cancelling>>
-----------------------------------------------------------------------------
(***************************************************************************)
(* Requests that write, broadcast what they wrote, and then audit it.      *)
(***************************************************************************)
Decide(r, t, verdict) ==
  /\ phase[r] = "idle" /\ about[r] = t
  /\ Decidable(t)
  /\ gate' = [gate EXCEPT ![t] = IF verdict = "approve" THEN "approved" ELSE "rejected"]
  /\ Asks(r, "announces")
  /\ Announce(Request(r))
  /\ UNCHANGED <<connections, closed, status, decision, audit, coroutines, history>>

\* No pending gate of this id, or a rejection without a comment.
DecideRefused(r, t, verdict) ==
  /\ phase[r] = "idle" /\ about[r] = t
  /\ ~Decidable(t) \/ verdict = "reject"
  /\ Asks(r, "refused")
  /\ UNCHANGED <<broadcastVars, stored, coroutines, history>>

\* An agent's configuration or a budget is replaced.
Update(r) ==
  /\ phase[r] = "idle"
  /\ Asks(r, "announces")
  /\ Announce(Request(r))
  /\ UNCHANGED <<connections, closed, stored, coroutines, history>>

\* What the broadcast raises ends the handler before the audit.
RequestReturns(r) ==
  /\ phase[r] = "announces" /\ Announced(Request(r))
  /\ IF sending[Request(r)].phase = "returned"
     THEN /\ Record(Request(r))
          /\ phase' = [phase EXCEPT ![r] = "over"]
     ELSE /\ phase' = [phase EXCEPT ![r] = "failed"]
          /\ UNCHANGED audit
  /\ Hush(Request(r))
  /\ UNCHANGED <<connections, closed, status, decision, gate, coroutines, about, history>>
-----------------------------------------------------------------------------
\* The process dies and a new one opens the same database: connections, coroutines
\* and _running_tasks are gone, and nothing looks at the tasks left active.
Restart ==
  /\ crashes < MaxCrashes
  /\ crashes' = crashes + 1
  /\ orphaned' = orphaned \cup {t \in Tasks : status[t] \in Active}
  /\ connections' = <<>> /\ closed' = {}
  /\ sending' = [s \in Senders |-> Quiet]
  /\ creating' = [t \in Tasks |-> IF creating[t] = "announces" THEN "over" ELSE creating[t]]
  /\ runner' = [t \in Tasks |-> IF runner[t] \in Alive THEN "none" ELSE runner[t]]
  /\ registered' = {} /\ cancelling' = {}
  /\ result' = [t \in Tasks |-> "none"]
  /\ phase' = [r \in Requests |->
                 IF phase[r] \in {"waits", "announces"} THEN "killed" ELSE phase[r]]
  /\ UNCHANGED <<stored, about, early>>

Connections ==
  /\ \/ \E c \in Conns : Connect(c) \/ ClientLeaves(c) \/ Disconnect(c)
     \/ \E s \in Senders : SendReturns(s)
  /\ UNCHANGED <<stored, coroutines, requests, history>>

RunnerStep(t) ==
  \/ RunnerStarts(t) \/ PipelineStarts(t)
  \/ \E d \in Outcomes : PipelineQueuesGate(t, d) \/ PipelineConcludes(t, d)
  \/ GateConcludes(t) \/ PipelineRaises(t) \/ RunnerEnds(t)
  \/ CancelledInTry(t) \/ CancelledElsewhere(t)

DashboardNext ==
  \/ \E t \in Tasks : CreateTask(t) \/ StartTask(t) \/ RunnerStep(t)
  \/ \E r \in Requests, t \in Tasks :
       \/ CancelRunning(r, t) \/ CancelOther(r, t) \/ CancelUnknown(r, t) \/ CancelReturns(r, t)
       \/ \E v \in {"approve", "reject"} : Decide(r, t, v) \/ DecideRefused(r, t, v)
  \/ \E r \in Requests : Update(r) \/ RequestReturns(r)
  \/ Connections
  \/ Restart

\* The event loop runs what is ready, and sends and pipelines end.  Nobody has to
\* connect, ask or cancel.
DashboardSpec ==
  /\ DashboardInit /\ [][DashboardNext]_dashboardVars
  /\ \A t \in Tasks : WF_dashboardVars(StartTask(t)) /\ WF_dashboardVars(RunnerStep(t))
  /\ \A s \in Senders :
       WF_dashboardVars(SendReturns(s) /\ UNCHANGED <<stored, coroutines, requests, history>>)
  /\ \A r \in Requests :
       /\ WF_dashboardVars(\E t \in Tasks : CancelReturns(r, t))
       /\ WF_dashboardVars(RequestReturns(r))
-----------------------------------------------------------------------------
(***************************************************************************)
(* Properties.                                                             *)
(***************************************************************************)
\* A status that ends a task is changed only by cancel_task, which writes CANCELLED
\* over whatever is there (routes.py:267), and by run_and_persist of a task that was
\* cancelled while its creation was still being announced: it runs all the same.
FinalUnlessCancelled ==
  [][\A t \in Tasks :
       status[t] \in Final /\ status'[t] # status[t] =>
         \/ status'[t] = "CANCELLED"
         \/ status[t] = "CANCELLED" /\ status'[t] = "RUNNING" /\ t \in early]_dashboardVars

\* The stored status is true of the coroutines (routes.py:134): a task shown as active
\* is being created, run or cancelled, unless a restart has orphaned it; of a task
\* shown as ended only the announcement is left to do, or its cancellation is on its
\* way, unless it was cancelled while its creation was announced.
StatusIsTrue ==
  \A t \in Tasks :
    /\ status[t] \in Active =>
         \/ runner[t] \in Alive \/ creating[t] = "announces"
         \/ \E r \in Requests : phase[r] = "waits" /\ about[r] = t
         \/ t \in orphaned
    /\ status[t] \in Final /\ runner[t] \in Alive =>
         runner[t] \in {"announces_end"} \cup Failing \/ t \in cancelling \cup early

\* Whenever the process dies, a task whose recorded decision is for a human has its
\* gate in the queue, and a gate that was decided stays as it was decided, whoever else
\* decides and however the task ends (persistence.py:546, routes.py:157).
GatesAreKept ==
  [][\A t \in Tasks :
       /\ decision'[t] \in ForHuman => gate'[t] # "none"
       /\ gate[t] \in Decided => gate'[t] = gate[t]]_dashboardVars

\* A request that wrote something and was answered is in the audit log; what keeps it
\* out is a broadcast that raises, and it raises only if a connection it has tried was
\* taken out of the list by someone else meanwhile (websocket.py:68, app.py:406).
AuditedUnlessRaced ==
  /\ \A r \in Requests : phase[r] = "over" => Request(r) \in audit
  /\ \A s \in Senders : sending[s].phase = "raised" => sending[s].raced

\* In the end no task is shown as active, but for those a restart has orphaned.
TaskSettles ==
  \A t \in Tasks : <>[](status[t] \in Active => t \in orphaned)
=============================================================================
