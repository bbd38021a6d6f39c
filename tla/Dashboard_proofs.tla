-------------------------- MODULE Dashboard_proofs --------------------------
(***************************************************************************)
(* What the dashboard's run checks on a small instance, proved for every   *)
(* number of tasks, requests, connections and restarts: first the stored   *)
(* status and gates, for which the broadcasts only pace the coroutines,    *)
(* then the list of connections, the broadcasts that go through it, and    *)
(* the audit log.                                                          *)
(***************************************************************************)
EXTENDS Dashboard, Sums, TLAPS

Working == {"announces_run", "pipeline", "announces_gate"}
Closing == {"announces_end"} \cup Failing

\* A request awaits the task it has cancelled.
Awaited(t) == \E r \in Requests : phase[r] = "waits" /\ about[r] = t

Typed ==
  /\ status \in [Tasks -> {"absent"} \cup Active \cup Final]
  /\ decision \in [Tasks -> {"none"} \cup Outcomes]
  /\ gate \in [Tasks -> {"none", "pending"} \cup Decided]
  /\ creating \in [Tasks -> {"no", "announces", "over"}]
  /\ runner \in [Tasks -> {"none", "ended"} \cup Alive]
  /\ registered \subseteq Tasks /\ cancelling \subseteq Tasks
  /\ result \in [Tasks -> {"none"} \cup Outcomes]
  /\ about \in [Requests -> Tasks]
  /\ phase \in [Requests -> {"idle", "waits", "announces", "over", "failed",
                         "refused", "killed"}]

\* A task is stored from its creation on, and runs from the end of its creation on.
\* What runs is registered until it is cancelled, and from then on somebody awaits it.
Lives(t) ==
  /\ status[t] = "absent" <=> creating[t] = "no"
  /\ runner[t] # "none" => creating[t] = "over"
  /\ t \in registered => runner[t] \in Alive /\ t \notin cancelling
  /\ t \in cancelling => runner[t] \in Alive /\ Awaited(t)
  /\ runner[t] \in Alive =>
       t \in registered \/ t \in cancelling \/ runner[t] = "announces_cancel"

\* What the stored status can be at each place of the coroutines.
StatusFits(t) ==
  /\ creating[t] = "announces" =>
       status[t] = "PENDING" \/ (status[t] = "CANCELLED" /\ t \in early)
  /\ runner[t] = "scheduled" =>
       status[t] = "PENDING" \/ (status[t] = "CANCELLED" /\ t \in cancelling \cup early)
  /\ runner[t] \in Working => status[t] = "RUNNING" \/ t \in cancelling
  /\ runner[t] \in Closing => status[t] \in Final
  /\ status[t] \in Active =>
       runner[t] \in Alive \/ creating[t] = "announces" \/ Awaited(t) \/ t \in orphaned

\* A gate is queued once, by the pipeline, before the decision it is about is stored.
GateFits(t) ==
  /\ creating[t] # "over" \/ runner[t] \in {"scheduled", "announces_run", "pipeline"} =>
       gate[t] = "none"
  /\ runner[t] = "announces_gate" => gate[t] # "none" /\ result[t] \in Outcomes
  /\ decision[t] \in ForHuman => gate[t] # "none"

IInv == Typed /\ \A t \in Tasks : Lives(t) /\ StatusFits(t) /\ GateFits(t)
-----------------------------------------------------------------------------
TaskInv(t) == Lives(t) /\ StatusFits(t) /\ GateFits(t)

\* Nothing a coroutine of another task or a request about another task does to it.
Spared(t) ==
  /\ status'[t] = status[t] /\ decision'[t] = decision[t] /\ gate'[t] = gate[t]
  /\ creating'[t] = creating[t] /\ runner'[t] = runner[t] /\ result'[t] = result[t]
  /\ t \in registered' <=> t \in registered
  /\ t \in cancelling' <=> t \in cancelling
  /\ t \in early => t \in early'
  /\ t \in orphaned => t \in orphaned'
  /\ Awaited(t) => Awaited(t)'

LEMMA SparedKeeps ==
  ASSUME NEW t, TaskInv(t), Spared(t)
  PROVE  TaskInv(t)'
BY DEF Spared, TaskInv, Lives, StatusFits, GateFits

\* A request that is not waiting can go anywhere: who was awaited still is.
LEMMA AskingKeepsAwaited ==
  ASSUME Typed, NEW r \in Requests, NEW p, phase[r] # "waits",
         phase' = [phase EXCEPT ![r] = p], about' = about, NEW t
  PROVE  Awaited(t) => Awaited(t)'
BY DEF Typed, Awaited

LEMMA SameKeepsAwaited ==
  ASSUME UNCHANGED requests, NEW t
  PROVE  Awaited(t)' <=> Awaited(t)
BY DEF requests, Awaited
-----------------------------------------------------------------------------
(***************************************************************************)
(* The handler that creates a task.                                        *)
(***************************************************************************)
LEMMA CreateTaskKeeps ==
  ASSUME IInv, NEW t \in Tasks, CreateTask(t)
  PROVE  IInv'
<1>1. Typed'
  BY DEF IInv, Typed, CreateTask, Create, requests, history, Active
<1>2. ASSUME NEW k \in Tasks PROVE TaskInv(k)'
  <2>1. TaskInv(k)
    BY DEF IInv, TaskInv
  <2>2. CASE k # t
    <3>1. Spared(k)
      BY <2>2, SameKeepsAwaited
         DEF IInv, Typed, CreateTask, Create, requests, history, Spared
    <3>2. QED
      BY <2>1, <3>1, SparedKeeps
  <2>3. CASE k = t
    BY <2>1, <2>3
       DEF IInv, Typed, CreateTask, Create, history, TaskInv, Lives, StatusFits, GateFits,
           Alive, Announcing, Failing, Working, Closing
  <2>4. QED
    BY <2>2, <2>3
<1>3. QED
  BY <1>1, <1>2 DEF IInv, TaskInv

LEMMA StartTaskKeeps ==
  ASSUME IInv, NEW t \in Tasks, StartTask(t)
  PROVE  IInv'
<1>1. Typed'
  BY DEF IInv, Typed, StartTask, requests, history, Alive
<1>2. ASSUME NEW k \in Tasks PROVE TaskInv(k)'
  <2>1. TaskInv(k)
    BY DEF IInv, TaskInv
  <2>2. CASE k # t
    <3>1. Spared(k)
      BY <2>2, SameKeepsAwaited
         DEF IInv, Typed, StartTask, requests, history, Spared
    <3>2. QED
      BY <2>1, <3>1, SparedKeeps
  <2>3. CASE k = t
    BY <2>1, <2>3
       DEF IInv, Typed, StartTask, history, TaskInv, Lives, StatusFits, GateFits,
           Alive, Announcing, Failing, Working, Closing
  <2>4. QED
    BY <2>2, <2>3
<1>3. QED
  BY <1>1, <1>2 DEF IInv, TaskInv
-----------------------------------------------------------------------------
(***************************************************************************)
(* run_and_persist().                                                      *)
(***************************************************************************)
LEMMA RunnerStartsKeeps ==
  ASSUME IInv, NEW t \in Tasks, RunnerStarts(t)
  PROVE  IInv'
<1>1. Typed'
  BY DEF IInv, Typed, RunnerStarts, Transition, Goes, Active, Final, requests, history, Alive, Announcing, Failing
<1>2. ASSUME NEW k \in Tasks PROVE TaskInv(k)'
  <2>1. TaskInv(k)
    BY DEF IInv, TaskInv
  <2>2. CASE k # t
    <3>1. Spared(k)
      BY <2>2, SameKeepsAwaited
         DEF IInv, Typed, RunnerStarts, Transition, Goes, Active, Final, requests, history, Spared
    <3>2. QED
      BY <2>1, <3>1, SparedKeeps
  <2>3. CASE k = t
    BY <2>1, <2>3, SameKeepsAwaited
       DEF IInv, Typed, RunnerStarts, Transition, Goes, Active, Final, requests, history, TaskInv, Lives, StatusFits, GateFits,
           Alive, Announcing, Failing, Working, Closing
  <2>4. QED
    BY <2>2, <2>3
<1>3. QED
  BY <1>1, <1>2 DEF IInv, TaskInv

LEMMA PipelineStartsKeeps ==
  ASSUME IInv, NEW t \in Tasks, PipelineStarts(t)
  PROVE  IInv'
<1>1. Typed'
  BY DEF IInv, Typed, PipelineStarts, stored, Active, Final, requests, history, Alive, Announcing, Failing
<1>2. ASSUME NEW k \in Tasks PROVE TaskInv(k)'
  <2>1. TaskInv(k)
    BY DEF IInv, TaskInv
  <2>2. CASE k # t
    <3>1. Spared(k)
      BY <2>2, SameKeepsAwaited
         DEF IInv, Typed, PipelineStarts, stored, Active, Final, requests, history, Spared
    <3>2. QED
      BY <2>1, <3>1, SparedKeeps
  <2>3. CASE k = t
    BY <2>1, <2>3, SameKeepsAwaited
       DEF IInv, Typed, PipelineStarts, stored, Active, Final, requests, history, TaskInv, Lives, StatusFits, GateFits,
           Alive, Announcing, Failing, Working, Closing
  <2>4. QED
    BY <2>2, <2>3
<1>3. QED
  BY <1>1, <1>2 DEF IInv, TaskInv

LEMMA PipelineQueuesGateKeeps ==
  ASSUME IInv, NEW t \in Tasks, NEW d \in Outcomes, PipelineQueuesGate(t, d)
  PROVE  IInv'
<1>1. Typed'
  BY DEF IInv, Typed, PipelineQueuesGate, Enqueue, Goes, Active, Final, requests, history, Alive, Announcing, Failing
<1>2. ASSUME NEW k \in Tasks PROVE TaskInv(k)'
  <2>1. TaskInv(k)
    BY DEF IInv, TaskInv
  <2>2. CASE k # t
    <3>1. Spared(k)
      BY <2>2, SameKeepsAwaited
         DEF IInv, Typed, PipelineQueuesGate, Enqueue, Goes, Active, Final, requests, history, Spared
    <3>2. QED
      BY <2>1, <3>1, SparedKeeps
  <2>3. CASE k = t
    BY <2>1, <2>3, SameKeepsAwaited
       DEF IInv, Typed, PipelineQueuesGate, Enqueue, Goes, Active, Final, requests, history, TaskInv, Lives, StatusFits, GateFits,
           Alive, Announcing, Failing, Working, Closing
  <2>4. QED
    BY <2>2, <2>3
<1>3. QED
  BY <1>1, <1>2 DEF IInv, TaskInv

LEMMA PipelineConcludesKeeps ==
  ASSUME IInv, NEW t \in Tasks, NEW d \in Outcomes, PipelineConcludes(t, d)
  PROVE  IInv'
<1>1. Typed'
  BY DEF IInv, Typed, PipelineConcludes, Concludes, Transition, Goes, Active, Final, requests, history, Alive, Announcing, Failing
<1>2. ASSUME NEW k \in Tasks PROVE TaskInv(k)'
  <2>1. TaskInv(k)
    BY DEF IInv, TaskInv
  <2>2. CASE k # t
    <3>1. Spared(k)
      BY <2>2, SameKeepsAwaited
         DEF IInv, Typed, PipelineConcludes, Concludes, Transition, Goes, Active, Final, requests, history, Spared
    <3>2. QED
      BY <2>1, <3>1, SparedKeeps
  <2>3. CASE k = t
    BY <2>1, <2>3, SameKeepsAwaited
       DEF IInv, Typed, PipelineConcludes, Concludes, Transition, Goes, Active, Final, requests, history, TaskInv, Lives, StatusFits, GateFits,
           Alive, Announcing, Failing, Working, Closing
  <2>4. QED
    BY <2>2, <2>3
<1>3. QED
  BY <1>1, <1>2 DEF IInv, TaskInv

LEMMA GateConcludesKeeps ==
  ASSUME IInv, NEW t \in Tasks, GateConcludes(t)
  PROVE  IInv'
<1>1. Typed'
  BY DEF IInv, Typed, GateConcludes, Concludes, Transition, Goes, Active, Final, requests, history, Alive, Announcing, Failing
<1>2. ASSUME NEW k \in Tasks PROVE TaskInv(k)'
  <2>1. TaskInv(k)
    BY DEF IInv, TaskInv
  <2>2. CASE k # t
    <3>1. Spared(k)
      BY <2>2, SameKeepsAwaited
         DEF IInv, Typed, GateConcludes, Concludes, Transition, Goes, Active, Final, requests, history, Spared
    <3>2. QED
      BY <2>1, <3>1, SparedKeeps
  <2>3. CASE k = t
    BY <2>1, <2>3, SameKeepsAwaited
       DEF IInv, Typed, GateConcludes, Concludes, Transition, Goes, Active, Final, requests, history, TaskInv, Lives, StatusFits, GateFits,
           Alive, Announcing, Failing, Working, Closing
  <2>4. QED
    BY <2>2, <2>3
<1>3. QED
  BY <1>1, <1>2 DEF IInv, TaskInv

LEMMA PipelineRaisesKeeps ==
  ASSUME IInv, NEW t \in Tasks, PipelineRaises(t)
  PROVE  IInv'
<1>1. Typed'
  BY DEF IInv, Typed, PipelineRaises, Transition, Goes, Active, Final, requests, history, Alive, Announcing, Failing
<1>2. ASSUME NEW k \in Tasks PROVE TaskInv(k)'
  <2>1. TaskInv(k)
    BY DEF IInv, TaskInv
  <2>2. CASE k # t
    <3>1. Spared(k)
      BY <2>2, SameKeepsAwaited
         DEF IInv, Typed, PipelineRaises, Transition, Goes, Active, Final, requests, history, Spared
    <3>2. QED
      BY <2>1, <3>1, SparedKeeps
  <2>3. CASE k = t
    BY <2>1, <2>3, SameKeepsAwaited
       DEF IInv, Typed, PipelineRaises, Transition, Goes, Active, Final, requests, history, TaskInv, Lives, StatusFits, GateFits,
           Alive, Announcing, Failing, Working, Closing
  <2>4. QED
    BY <2>2, <2>3
<1>3. QED
  BY <1>1, <1>2 DEF IInv, TaskInv

LEMMA RunnerEndsKeeps ==
  ASSUME IInv, NEW t \in Tasks, RunnerEnds(t)
  PROVE  IInv'
<1>1. Typed'
  BY DEF IInv, Typed, RunnerEnds, Ends, stored, Active, Final, requests, history, Alive, Announcing, Failing
<1>2. ASSUME NEW k \in Tasks PROVE TaskInv(k)'
  <2>1. TaskInv(k)
    BY DEF IInv, TaskInv
  <2>2. CASE k # t
    <3>1. Spared(k)
      BY <2>2, SameKeepsAwaited
         DEF IInv, Typed, RunnerEnds, Ends, stored, Active, Final, requests, history, Spared
    <3>2. QED
      BY <2>1, <3>1, SparedKeeps
  <2>3. CASE k = t
    BY <2>1, <2>3, SameKeepsAwaited
       DEF IInv, Typed, RunnerEnds, Ends, stored, Active, Final, requests, history, TaskInv, Lives, StatusFits, GateFits,
           Alive, Announcing, Failing, Working, Closing
  <2>4. QED
    BY <2>2, <2>3
<1>3. QED
  BY <1>1, <1>2 DEF IInv, TaskInv

LEMMA CancelledInTryKeeps ==
  ASSUME IInv, NEW t \in Tasks, CancelledInTry(t)
  PROVE  IInv'
<1>1. Typed'
  BY DEF IInv, Typed, CancelledInTry, Transition, Goes, Active, Final, requests, history, Alive, Announcing, Failing
<1>2. ASSUME NEW k \in Tasks PROVE TaskInv(k)'
  <2>1. TaskInv(k)
    BY DEF IInv, TaskInv
  <2>2. CASE k # t
    <3>1. Spared(k)
      BY <2>2, SameKeepsAwaited
         DEF IInv, Typed, CancelledInTry, Transition, Goes, Active, Final, requests, history, Spared
    <3>2. QED
      BY <2>1, <3>1, SparedKeeps
  <2>3. CASE k = t
    BY <2>1, <2>3, SameKeepsAwaited
       DEF IInv, Typed, CancelledInTry, Transition, Goes, Active, Final, requests, history, TaskInv, Lives, StatusFits, GateFits,
           Alive, Announcing, Failing, Working, Closing
  <2>4. QED
    BY <2>2, <2>3
<1>3. QED
  BY <1>1, <1>2 DEF IInv, TaskInv

LEMMA CancelledElsewhereKeeps ==
  ASSUME IInv, NEW t \in Tasks, CancelledElsewhere(t)
  PROVE  IInv'
<1>1. Typed'
  BY DEF IInv, Typed, CancelledElsewhere, stored, Active, Final, requests, history, Alive, Announcing, Failing
<1>2. ASSUME NEW k \in Tasks PROVE TaskInv(k)'
  <2>1. TaskInv(k)
    BY DEF IInv, TaskInv
  <2>2. CASE k # t
    <3>1. Spared(k)
      BY <2>2, SameKeepsAwaited
         DEF IInv, Typed, CancelledElsewhere, stored, Active, Final, requests, history, Spared
    <3>2. QED
      BY <2>1, <3>1, SparedKeeps
  <2>3. CASE k = t
    BY <2>1, <2>3, SameKeepsAwaited
       DEF IInv, Typed, CancelledElsewhere, stored, Active, Final, requests, history, TaskInv, Lives, StatusFits, GateFits,
           Alive, Announcing, Failing, Working, Closing
  <2>4. QED
    BY <2>2, <2>3
<1>3. QED
  BY <1>1, <1>2 DEF IInv, TaskInv
-----------------------------------------------------------------------------
(***************************************************************************)
(* The requests.                                                           *)
(***************************************************************************)
LEMMA CancelRunningKeeps ==
  ASSUME IInv, NEW r \in Requests, NEW t \in Tasks, CancelRunning(r, t)
  PROVE  IInv'
<1>1. Typed'
  BY DEF IInv, Typed, CancelRunning, Asks, stored, history
<1>2. ASSUME NEW k \in Tasks PROVE TaskInv(k)'
  <2>1. TaskInv(k)
    BY DEF IInv, TaskInv
  <2>2. Awaited(k) => Awaited(k)'
    BY AskingKeepsAwaited DEF IInv, CancelRunning, Asks
  <2>3. CASE k # t
    <3>1. Spared(k)
      BY <2>2, <2>3 DEF CancelRunning, stored, history, Spared
    <3>2. QED
      BY <2>1, <3>1, SparedKeeps
  <2>4. CASE k = t
    <3>1. Awaited(t)'
      BY DEF IInv, Typed, CancelRunning, Asks, Awaited
    <3>2. QED
      BY <2>1, <2>4, <3>1
         DEF CancelRunning, stored, history, TaskInv, Lives, StatusFits, GateFits
  <2>5. QED
    BY <2>3, <2>4
<1>3. QED
  BY <1>1, <1>2 DEF IInv, TaskInv

\* cancel_task writes the status, where nothing of the task can run on: it is not
\* registered, so it is being cancelled, its creation is announced, or it is over.
LEMMA RecordCancelKeeps ==
  ASSUME IInv, NEW r \in Requests, NEW t \in Tasks, RecordCancel(r, t),
         t \notin registered, status[t] # "absent",
         UNCHANGED <<registered, cancelling>>, Typed',
         \A k \in Tasks : k # t => (Awaited(k) => Awaited(k)'),
         t \in cancelling => Awaited(t)'
  PROVE  IInv'
<1>1. ASSUME NEW k \in Tasks PROVE TaskInv(k)'
  <2>1. TaskInv(k)
    BY DEF IInv, TaskInv
  <2>2. CASE k # t
    <3>1. Spared(k)
      BY <2>2 DEF IInv, Typed, RecordCancel, Transition, Spared
    <3>2. QED
      BY <2>1, <3>1, SparedKeeps
  <2>3. CASE k = t
    BY <2>1, <2>3
       DEF IInv, Typed, RecordCancel, Transition, TaskInv, Lives, StatusFits, GateFits,
           Alive, Announcing, Failing, Working, Closing, Active, Final
  <2>4. QED
    BY <2>2, <2>3
<1>2. QED
  BY <1>1 DEF IInv, TaskInv

LEMMA CancelOtherKeeps ==
  ASSUME IInv, NEW r \in Requests, NEW t \in Tasks, CancelOther(r, t)
  PROVE  IInv'
<1>1. Typed'
  BY DEF IInv, Typed, CancelOther, RecordCancel, Transition, Asks, Final
<1>2. \A k \in Tasks : Awaited(k) => Awaited(k)'
  BY AskingKeepsAwaited DEF IInv, CancelOther, Asks
<1>3. t \in cancelling => Awaited(t)
  BY DEF IInv, Lives
<1>4. QED
  BY <1>1, <1>2, <1>3, RecordCancelKeeps DEF CancelOther

LEMMA CancelReturnsKeeps ==
  ASSUME IInv, NEW r \in Requests, NEW t \in Tasks, CancelReturns(r, t)
  PROVE  IInv'
<1>1. Typed'
  BY DEF IInv, Typed, CancelReturns, RecordCancel, Transition, Final
<1>2. Lives(t) /\ runner[t] = "ended"
  BY DEF IInv, CancelReturns
<1>3. t \notin registered /\ t \notin cancelling /\ status[t] # "absent"
  BY <1>2 DEF Lives, Alive, Announcing, Failing
<1>4. ASSUME NEW k \in Tasks, k # t, Awaited(k) PROVE Awaited(k)'
  BY <1>4 DEF IInv, Typed, CancelReturns, Awaited
<1>5. QED
  BY <1>1, <1>3, <1>4, RecordCancelKeeps DEF CancelReturns

LEMMA DecideKeeps ==
  ASSUME IInv, NEW r \in Requests, NEW t \in Tasks, NEW v \in {"approve", "reject"}, Decide(r, t, v)
  PROVE  IInv'
<1>1. Typed'
  BY DEF IInv, Typed, Decide, Asks, coroutines, history, Decided
<1>2. ASSUME NEW k \in Tasks PROVE TaskInv(k)'
  <2>1. TaskInv(k)
    BY DEF IInv, TaskInv
  <2>2. Awaited(k) => Awaited(k)'
    BY AskingKeepsAwaited DEF IInv, Decide, Asks
  <2>3. CASE k # t
    <3>1. Spared(k)
      BY <2>2, <2>3 DEF IInv, Typed, Decide, coroutines, history, Spared
    <3>2. QED
      BY <2>1, <3>1, SparedKeeps
  <2>4. CASE k = t
    BY <2>1, <2>2, <2>4
       DEF IInv, Typed, Decide, Decidable, coroutines, history, TaskInv, Lives,
           StatusFits, GateFits
  <2>5. QED
    BY <2>3, <2>4
<1>3. QED
  BY <1>1, <1>2 DEF IInv, TaskInv

\* The other requests leave every task as it is.
LEMMA AskingKeeps ==
  ASSUME IInv, NEW r \in Requests, NEW p, phase[r] # "waits", Typed',
         phase' = [phase EXCEPT ![r] = p],
         UNCHANGED <<status, decision, gate, coroutines, about, history>>
  PROVE  IInv'
<1>1. ASSUME NEW k \in Tasks PROVE TaskInv(k)'
  <2>1. TaskInv(k)
    BY DEF IInv, TaskInv
  <2>2. Awaited(k) => Awaited(k)'
    BY AskingKeepsAwaited DEF IInv
  <2>3. Spared(k)
    BY <2>2 DEF coroutines, history, Spared
  <2>4. QED
    BY <2>1, <2>3, SparedKeeps
<1>2. QED
  BY <1>1 DEF IInv, TaskInv

LEMMA RefusedKeeps ==
  ASSUME IInv, NEW r \in Requests, NEW t \in Tasks, NEW v \in {"approve", "reject"},
         CancelUnknown(r, t) \/ DecideRefused(r, t, v)
  PROVE  IInv'
<1>1. /\ phase[r] # "waits" /\ Asks(r, "refused")
      /\ UNCHANGED <<status, decision, gate, coroutines, history>>
  BY DEF CancelUnknown, DecideRefused, stored
<1>2. Typed'
  BY <1>1 DEF IInv, Typed, Asks, coroutines
<1>3. QED
  BY <1>1, <1>2, AskingKeeps DEF Asks

LEMMA UpdateKeeps ==
  ASSUME IInv, NEW r \in Requests, Update(r)
  PROVE  IInv'
<1>1. Typed'
  BY DEF IInv, Typed, Update, Asks, stored, coroutines
<1>2. QED
  BY <1>1, AskingKeeps DEF Update, Asks, stored

LEMMA RequestReturnsKeeps ==
  ASSUME IInv, NEW r \in Requests, RequestReturns(r)
  PROVE  IInv'
<1>1. Typed'
  BY DEF IInv, Typed, RequestReturns, coroutines
<1>2. PICK p \in {"over", "failed"} : phase' = [phase EXCEPT ![r] = p]
  BY DEF RequestReturns
<1>3. QED
  BY <1>1, <1>2, AskingKeeps DEF RequestReturns
-----------------------------------------------------------------------------
(***************************************************************************)
(* A restart leaves the tasks as they are stored, and those it finds       *)
(* active to nobody.                                                       *)
(***************************************************************************)
LEMMA RestartKeeps ==
  ASSUME IInv, Restart
  PROVE  IInv'
<1>1. Typed'
  BY DEF IInv, Typed, Restart, stored
<1>2. ASSUME NEW k \in Tasks PROVE TaskInv(k)'
  <2>1. TaskInv(k)
    BY DEF IInv, TaskInv
  <2>2. /\ creating'[k] = IF creating[k] = "announces" THEN "over" ELSE creating[k]
        /\ runner'[k] = IF runner[k] \in Alive THEN "none" ELSE runner[k]
        /\ k \notin registered' /\ k \notin cancelling'
        /\ status[k] \in Active => k \in orphaned'
    BY DEF Restart
  <2>3. UNCHANGED <<status, decision, gate>>
    BY DEF Restart, stored
  <2>4. QED
    BY <2>1, <2>2, <2>3
       DEF IInv, Typed, TaskInv, Lives, StatusFits, GateFits,
           Alive, Announcing, Failing, Working, Closing
<1>3. QED
  BY <1>1, <1>2 DEF IInv, TaskInv

LEMMA UnchangedKeeps ==
  ASSUME IInv, UNCHANGED <<stored, coroutines, requests, history>>
  PROVE  IInv'
BY DEF IInv, Typed, Lives, StatusFits, GateFits, Awaited,
       stored, coroutines, requests, history

LEMMA InitIInv == DashboardInit => IInv
BY DEF DashboardInit, IInv, Typed, Lives, StatusFits, GateFits, Active, Final,
       Alive, Announcing, Failing, Working, Closing, ForHuman

LEMMA NextKeeps ==
  ASSUME IInv, [DashboardNext]_dashboardVars
  PROVE  IInv'
<1>1. ASSUME NEW t \in Tasks, CreateTask(t) \/ StartTask(t)
      PROVE  IInv'
  BY <1>1, CreateTaskKeeps, StartTaskKeeps
<1>2. ASSUME NEW t \in Tasks, RunnerStep(t)
      PROVE  IInv'
  BY <1>2, RunnerStartsKeeps, PipelineStartsKeeps, PipelineQueuesGateKeeps,
     PipelineConcludesKeeps, GateConcludesKeeps, PipelineRaisesKeeps, RunnerEndsKeeps,
     CancelledInTryKeeps, CancelledElsewhereKeeps DEF RunnerStep
<1>3. ASSUME NEW r \in Requests, NEW t \in Tasks,
             CancelRunning(r, t) \/ CancelOther(r, t) \/ CancelUnknown(r, t)
               \/ CancelReturns(r, t)
      PROVE  IInv'
  BY <1>3, CancelRunningKeeps, CancelOtherKeeps, RefusedKeeps, CancelReturnsKeeps
<1>4. ASSUME NEW r \in Requests, NEW t \in Tasks, NEW v \in {"approve", "reject"},
             Decide(r, t, v) \/ DecideRefused(r, t, v)
      PROVE  IInv'
  BY <1>4, DecideKeeps, RefusedKeeps
<1>5. ASSUME NEW r \in Requests, Update(r) \/ RequestReturns(r)
      PROVE  IInv'
  BY <1>5, UpdateKeeps, RequestReturnsKeeps
<1>6. CASE Connections
  BY <1>6, UnchangedKeeps DEF Connections
<1>7. CASE Restart
  BY <1>7, RestartKeeps
<1>8. CASE UNCHANGED dashboardVars
  BY <1>8, UnchangedKeeps DEF dashboardVars
<1>9. QED
  BY <1>1, <1>2, <1>3, <1>4, <1>5, <1>6, <1>7, <1>8 DEF DashboardNext
-----------------------------------------------------------------------------
(***************************************************************************)
(* Theorems.                                                               *)
(***************************************************************************)
\* The inductive invariant: what can be stored of a task, and of its gate, at each place
\* of its coroutines and of the requests about it.
THEOREM Inductive == DashboardSpec => []IInv
BY InitIInv, NextKeeps, PTL DEF DashboardSpec

\* The stored status is true of the coroutines, whatever races and restarts there are
\* (routes.py:134).
THEOREM StatusStaysTrue == DashboardSpec => []StatusIsTrue
<1>1. IInv => StatusIsTrue
  BY DEF IInv, Typed, Lives, StatusFits, StatusIsTrue, Awaited, Working, Closing, Alive,
         Announcing, Failing, Active, Final
<1>2. QED
  BY <1>1, Inductive, PTL

FinalKept(t) ==
  status[t] \in Final /\ status'[t] # status[t] =>
    \/ status'[t] = "CANCELLED"
    \/ status[t] = "CANCELLED" /\ status'[t] = "RUNNING" /\ t \in early

LEMMA StepKeepsFinal ==
  ASSUME IInv, [DashboardNext]_dashboardVars
  PROVE  \A t \in Tasks : FinalKept(t)
<1>1. ASSUME NEW u \in Tasks, NEW to, Transition(u, to),
             status[u] \in Final =>
               \/ to = "CANCELLED"
               \/ status[u] = "CANCELLED" /\ to = "RUNNING" /\ u \in early
      PROVE  \A t \in Tasks : FinalKept(t)
  BY <1>1 DEF IInv, Typed, Transition, FinalKept
<1>2. ASSUME status' = status
      PROVE  \A t \in Tasks : FinalKept(t)
  BY <1>2 DEF FinalKept
<1>3. ASSUME NEW u \in Tasks, CreateTask(u) \/ StartTask(u)
      PROVE  \A t \in Tasks : FinalKept(t)
  <2>1. CASE CreateTask(u)
    <3>1. status[u] = "absent" /\ Transition(u, "PENDING")
      BY <2>1 DEF IInv, Lives, CreateTask, Create, Transition
    <3>2. QED
      BY <1>1, <3>1 DEF Final
  <2>2. CASE StartTask(u)
    BY <1>2, <2>2 DEF StartTask
  <2>3. QED
    BY <1>3, <2>1, <2>2
<1>4. ASSUME NEW u \in Tasks, RunnerStep(u)
      PROVE  \A t \in Tasks : FinalKept(t)
  <2>0. Lives(u) /\ StatusFits(u)
    BY DEF IInv
  <2>1. CASE RunnerStarts(u)
    <3>1. status[u] \in Final => status[u] = "CANCELLED" /\ u \in early
      BY <2>0, <2>1 DEF RunnerStarts, StatusFits, Final
    <3>2. Transition(u, "RUNNING")
      BY <2>1 DEF RunnerStarts
    <3>3. QED
      BY <1>1, <3>1, <3>2
  <2>2. CASE runner[u] \in Working /\ u \notin cancelling
    \* Its status is RUNNING.
    <3>1. status[u] \notin Final
      BY <2>0, <2>2 DEF StatusFits, Final
    <3>2. status' = status \/ \E to : Transition(u, to)
      BY <1>4 DEF RunnerStep, RunnerStarts, PipelineStarts, PipelineQueuesGate,
         PipelineConcludes, GateConcludes, Concludes, PipelineRaises, RunnerEnds,
         CancelledInTry, CancelledElsewhere, stored
    <3>3. QED
      BY <1>1, <1>2, <3>1, <3>2
  <2>3. CASE RunnerEnds(u) \/ CancelledElsewhere(u)
    BY <1>2, <2>3 DEF RunnerEnds, CancelledElsewhere, stored
  <2>4. CASE CancelledInTry(u)
    BY <1>1, <2>4 DEF CancelledInTry
  <2>5. QED
    BY <1>4, <2>1, <2>2, <2>3, <2>4
       DEF RunnerStep, PipelineStarts, PipelineQueuesGate, PipelineConcludes,
           GateConcludes, PipelineRaises, Working
<1>5. ASSUME NEW r \in Requests, NEW u \in Tasks, CancelOther(r, u) \/ CancelReturns(r, u)
      PROVE  \A t \in Tasks : FinalKept(t)
  <2>1. Transition(u, "CANCELLED")
    BY <1>5 DEF CancelOther, CancelReturns, RecordCancel
  <2>2. QED
    BY <1>1, <2>1
<1>6. ASSUME NEW r \in Requests, NEW u \in Tasks, NEW v \in {"approve", "reject"},
             CancelRunning(r, u) \/ CancelUnknown(r, u) \/ Decide(r, u, v)
               \/ DecideRefused(r, u, v)
      PROVE  status' = status
  BY <1>6 DEF CancelRunning, CancelUnknown, Decide, DecideRefused, stored
<1>7. ASSUME NEW r \in Requests, Update(r) \/ RequestReturns(r)
      PROVE  status' = status
  BY <1>7 DEF Update, RequestReturns, stored
<1>8. ASSUME Connections \/ Restart \/ UNCHANGED dashboardVars
      PROVE  status' = status
  BY <1>8 DEF Connections, Restart, dashboardVars, stored
<1>9. QED
  BY <1>2, <1>3, <1>4, <1>5, <1>6, <1>7, <1>8 DEF DashboardNext

\* Only a cancel request, or the run of a task cancelled too early, changes a final
\* status (routes.py:267).
THEOREM FinalStaysFinal == DashboardSpec => FinalUnlessCancelled
<1>1. IInv /\ [DashboardNext]_dashboardVars =>
        [\A t \in Tasks :
           status[t] \in Final /\ status'[t] # status[t] =>
             \/ status'[t] = "CANCELLED"
             \/ status[t] = "CANCELLED" /\ status'[t] = "RUNNING" /\ t \in early]_dashboardVars
  BY StepKeepsFinal DEF FinalKept
<1>2. QED
  BY <1>1, Inductive, PTL DEF DashboardSpec, FinalUnlessCancelled

GateKept(t) == gate[t] \in Decided => gate'[t] = gate[t]

LEMMA StepKeepsGates ==
  ASSUME IInv, [DashboardNext]_dashboardVars
  PROVE  \A t \in Tasks : GateKept(t)
<1>1. ASSUME gate' = gate
      PROVE  \A t \in Tasks : GateKept(t)
  BY <1>1 DEF GateKept
<1>2. ASSUME NEW u \in Tasks, NEW d \in Outcomes, PipelineQueuesGate(u, d)
      PROVE  \A t \in Tasks : GateKept(t)
  <2>1. gate[u] = "none"
    BY <1>2 DEF IInv, GateFits, PipelineQueuesGate
  <2>2. QED
    BY <1>2, <2>1 DEF IInv, Typed, PipelineQueuesGate, Enqueue, GateKept, Decided
<1>3. ASSUME NEW r \in Requests, NEW u \in Tasks, NEW v \in {"approve", "reject"},
             Decide(r, u, v)
      PROVE  \A t \in Tasks : GateKept(t)
  BY <1>3 DEF IInv, Typed, Decide, Decidable, GateKept, Decided
<1>4. ASSUME NEW u \in Tasks,
             CreateTask(u) \/ StartTask(u) \/ RunnerStarts(u) \/ PipelineStarts(u)
               \/ (\E d \in Outcomes : PipelineConcludes(u, d)) \/ GateConcludes(u)
               \/ PipelineRaises(u) \/ RunnerEnds(u) \/ CancelledInTry(u)
               \/ CancelledElsewhere(u)
      PROVE  gate' = gate
  BY <1>4 DEF CreateTask, StartTask, RunnerStarts, PipelineStarts, PipelineConcludes,
     GateConcludes, Concludes, PipelineRaises, RunnerEnds, CancelledInTry,
     CancelledElsewhere, stored
<1>5. ASSUME NEW r \in Requests, NEW u \in Tasks, NEW v \in {"approve", "reject"},
             CancelRunning(r, u) \/ CancelOther(r, u) \/ CancelUnknown(r, u)
               \/ CancelReturns(r, u) \/ DecideRefused(r, u, v)
      PROVE  gate' = gate
  BY <1>5 DEF CancelRunning, CancelOther, CancelUnknown, CancelReturns, RecordCancel,
     DecideRefused, stored
<1>6. ASSUME NEW r \in Requests, Update(r) \/ RequestReturns(r)
      PROVE  gate' = gate
  BY <1>6 DEF Update, RequestReturns, stored
<1>7. ASSUME Connections \/ Restart \/ UNCHANGED dashboardVars
      PROVE  gate' = gate
  BY <1>7 DEF Connections, Restart, dashboardVars, stored
<1>8. QED
  BY <1>1, <1>2, <1>3, <1>4, <1>5, <1>6, <1>7 DEF DashboardNext, RunnerStep

\* A decision for a human is never stored without its gate, and a decided gate is never
\* decided again, nor queued again, whenever the process dies (persistence.py:546).
THEOREM GatesStay == DashboardSpec => GatesAreKept
<1>1. ASSUME IInv, IInv', [DashboardNext]_dashboardVars
      PROVE  \A t \in Tasks :
               /\ decision'[t] \in ForHuman => gate'[t] # "none"
               /\ gate[t] \in Decided => gate'[t] = gate[t]
  <2>1. \A t \in Tasks : decision'[t] \in ForHuman => gate'[t] # "none"
    BY <1>1 DEF IInv, GateFits
  <2>2. \A t \in Tasks : gate[t] \in Decided => gate'[t] = gate[t]
    BY <1>1, StepKeepsGates DEF GateKept
  <2>3. QED
    BY <2>1, <2>2
<1>2. IInv /\ IInv' /\ [DashboardNext]_dashboardVars =>
        [\A t \in Tasks :
           /\ decision'[t] \in ForHuman => gate'[t] # "none"
           /\ gate[t] \in Decided => gate'[t] = gate[t]]_dashboardVars
  BY <1>1
<1>3. QED
  BY <1>2, Inductive, PTL DEF DashboardSpec, GatesAreKept
-----------------------------------------------------------------------------
(***************************************************************************)
(* The list of connections.                                                *)
(***************************************************************************)
Increasing(ss) == \A i, j \in DOMAIN ss : i < j => ss[i] < ss[j]

\* g is what is kept of each beginning of the list.
KeptUpTo(g, n, gone) ==
  g = [i \in 0 .. n |->
         IF i = 0 THEN <<>>
         ELSE IF connections[i] \in gone THEN g[i - 1]
         ELSE Append(g[i - 1], connections[i])]

LEMMA KeptExists ==
  ASSUME NEW gone, NEW n \in Nat
  PROVE  \E g : KeptUpTo(g, n, gone)
<1> DEFINE P == {k \in Nat : \E g : KeptUpTo(g, k, gone)}
<1>1. 0 \in P
  <2>1. KeptUpTo([i \in 0 .. 0 |-> <<>>], 0, gone)
    BY DEF KeptUpTo
  <2>2. QED
    BY <2>1
<1>2. ASSUME NEW k \in Nat, k \in P
      PROVE  k + 1 \in P
  <2>1. PICK g : KeptUpTo(g, k, gone)
    BY <1>2
  <2> DEFINE last == IF connections[k + 1] \in gone THEN g[k]
                     ELSE Append(g[k], connections[k + 1])
             h == [i \in 0 .. k + 1 |-> IF i = k + 1 THEN last ELSE g[i]]
  <2> HIDE DEF last
  <2>2. ASSUME NEW i \in 0 .. k + 1
        PROVE  h[i] = IF i = 0 THEN <<>>
                      ELSE IF connections[i] \in gone THEN h[i - 1]
                      ELSE Append(h[i - 1], connections[i])
    <3>1. CASE i = k + 1
      <4>1. h[i] = last /\ h[i - 1] = g[k] /\ i # 0
        BY <3>1
      <4>2. QED
        BY <3>1, <4>1 DEF last
    <3>2. CASE i # k + 1
      <4>1. i \in 0 .. k /\ h[i] = g[i]
        BY <3>2
      <4>2. i # 0 => i - 1 \in 0 .. k /\ h[i - 1] = g[i - 1]
        BY <4>1
      <4>3. g[i] = IF i = 0 THEN <<>>
                   ELSE IF connections[i] \in gone THEN g[i - 1]
                   ELSE Append(g[i - 1], connections[i])
        BY <2>1, <4>1 DEF KeptUpTo
      <4>4. QED
        BY <4>1, <4>2, <4>3
    <3>3. QED
      BY <3>1, <3>2
  <2>3. KeptUpTo(h, k + 1, gone)
    BY <2>2, Zenon DEF KeptUpTo
  <2>4. QED
    BY <2>3
<1>3. QED
  <2> HIDE DEF P
  <2>1. Nat \subseteq P
    BY <1>1, <1>2, InductionOverNat
  <2>2. QED
    BY <2>1 DEF P

LEMMA WithoutIsKept ==
  ASSUME NEW gone, Len(connections) \in Nat
  PROVE  \E g : KeptUpTo(g, Len(connections), gone) /\ Without(gone) = g[Len(connections)]
<1> DEFINE g == CHOOSE g : KeptUpTo(g, Len(connections), gone)
<1>1. KeptUpTo(g, Len(connections), gone)
  BY KeptExists
<1>2. Without(gone) = g[Len(connections)]
  BY Zenon DEF Without, KeptUpTo
<1>3. QED
  BY <1>1, <1>2

\* The connections of the list at the first k places.
Before(cs, k) == {cs[p] : p \in {q \in DOMAIN cs : q <= k}}

\* What is kept of a list in increasing order: the rest of its connections, in order.
Shortens(cs, gone, ds, k) ==
  /\ ds \in Seq(Conns) /\ Increasing(ds)
  /\ \A q \in DOMAIN ds : \E p \in 1 .. k : ds[q] = cs[p] /\ cs[p] \notin gone
  /\ \A p \in 1 .. k : cs[p] \notin gone => \E q \in DOMAIN ds : ds[q] = cs[p]
  /\ Len(ds) + Cardinality({p \in 1 .. k : cs[p] \in gone}) = k

LEMMA KeepsOneMore ==
  ASSUME NEW cs \in Seq(Conns), Increasing(cs), NEW gone, NEW k \in Nat, k + 1 <= Len(cs),
         NEW ds, Shortens(cs, gone, ds, k)
  PROVE  Shortens(cs, gone, IF cs[k + 1] \in gone THEN ds ELSE Append(ds, cs[k + 1]), k + 1)
<1> DEFINE G(j) == {p \in 1 .. j : cs[p] \in gone}
<1>1. 1 .. k + 1 = (1 .. k) \cup {k + 1} /\ k + 1 \in DOMAIN cs /\ 1 .. k \subseteq DOMAIN cs
  OBVIOUS
<1>2. IsFiniteSet(G(k)) /\ Cardinality(G(k)) \in Nat
  <2>1. IsFiniteSet(1 .. k) /\ G(k) \in SUBSET (1 .. k)
    BY FS_Interval
  <2>2. QED
    BY <2>1, FS_Subset, FS_CardinalityType
<1>3. k + 1 \notin G(k)
  OBVIOUS
<1>4. CASE cs[k + 1] \in gone
  <2>1. G(k + 1) = G(k) \cup {k + 1}
    BY <1>1, <1>4
  <2>2. Cardinality(G(k + 1)) = Cardinality(G(k)) + 1
    <3> HIDE DEF G
    <3> QED BY <1>2, <1>3, <2>1, FS_AddElement
  <2>3. Len(ds) + Cardinality(G(k + 1)) = k + 1
    BY <1>2, <2>2 DEF Shortens
  <2>4. QED
    BY <1>1, <1>4, <2>3 DEF Shortens
<1>5. CASE cs[k + 1] \notin gone
  <2> DEFINE es == Append(ds, cs[k + 1])
  <2>1. G(k + 1) = G(k)
    BY <1>1, <1>5
  <2>2. es \in Seq(Conns) /\ Len(es) = Len(ds) + 1 /\ DOMAIN es = DOMAIN ds \cup {Len(ds) + 1}
        /\ (\A q \in DOMAIN ds : es[q] = ds[q]) /\ es[Len(ds) + 1] = cs[k + 1]
        /\ Len(ds) \in Nat /\ DOMAIN ds = 1 .. Len(ds)
    <3>1. ds \in Seq(Conns) /\ cs[k + 1] \in Conns
      BY <1>1 DEF Shortens
    <3>2. /\ es \in Seq(Conns) /\ Len(es) = Len(ds) + 1 /\ es[Len(ds) + 1] = cs[k + 1]
          /\ Len(ds) \in Nat /\ DOMAIN ds = 1 .. Len(ds)
          /\ \A q \in 1 .. Len(ds) : es[q] = ds[q]
      BY <3>1
    <3> HIDE DEF es
    <3>3. DOMAIN es = 1 .. Len(ds) + 1
      BY <3>2
    <3>4. DOMAIN es = DOMAIN ds \cup {Len(ds) + 1}
      BY <3>2, <3>3
    <3>5. QED
      BY <3>2, <3>4
  <2> HIDE DEF es
  <2>3. \A q \in DOMAIN ds : ds[q] < cs[k + 1]
    BY <1>1 DEF Shortens, Increasing
  <2>4. Increasing(es)
    BY <2>2, <2>3 DEF Shortens, Increasing
  <2>5. Len(es) + Cardinality(G(k + 1)) = k + 1
    <3>1. Len(ds) + Cardinality(G(k)) = k
      BY DEF Shortens
    <3> HIDE DEF G
    <3>2. QED
      BY <1>2, <2>1, <2>2, <3>1
  <2>6. \A q \in DOMAIN es : \E p \in 1 .. k + 1 : es[q] = cs[p] /\ cs[p] \notin gone
    BY <1>1, <1>5, <2>2 DEF Shortens
  <2>7. \A p \in 1 .. k + 1 : cs[p] \notin gone => \E q \in DOMAIN es : es[q] = cs[p]
    BY <1>1, <2>2 DEF Shortens
  <2>8. Shortens(cs, gone, es, k + 1)
    BY <2>2, <2>4, <2>5, <2>6, <2>7 DEF Shortens
  <2>9. QED
    BY <1>5, <2>8 DEF es
<1>6. QED
  BY <1>4, <1>5

LEMMA WithoutShortens ==
  ASSUME connections \in Seq(Conns), Increasing(connections), NEW gone
  PROVE  Shortens(connections, gone, Without(gone), Len(connections))
<1> DEFINE L == Len(connections)
<1>1. L \in Nat
  OBVIOUS
<1>2. PICK g : KeptUpTo(g, L, gone) /\ Without(gone) = g[L]
  BY WithoutIsKept
<1> HIDE DEF L
<1> DEFINE P == {k \in Nat : k <= L => Shortens(connections, gone, g[k], k)}
<1>3. 0 \in P
  <2>1. g[0] = <<>>
    BY <1>1, <1>2 DEF KeptUpTo
  <2>2. {p \in 1 .. 0 : connections[p] \in gone} = {} /\ <<>> \in Seq(Conns) /\ Len(<<>>) = 0
    OBVIOUS
  <2>3. Shortens(connections, gone, <<>>, 0)
    BY <2>2, FS_EmptySet DEF Shortens, Increasing
  <2>4. QED
    BY <2>1, <2>3
<1>4. ASSUME NEW k \in Nat, k \in P
      PROVE  k + 1 \in P
  <2>1. SUFFICES ASSUME k + 1 <= L PROVE Shortens(connections, gone, g[k + 1], k + 1)
    OBVIOUS
  <2>2. Shortens(connections, gone, g[k], k)
    BY <1>1, <1>4, <2>1
  <2>3. k + 1 \in 0 .. L /\ k + 1 # 0 /\ (k + 1) - 1 = k
    BY <1>1, <2>1
  <2>4. g[k + 1] = IF connections[k + 1] \in gone THEN g[k]
                   ELSE Append(g[k], connections[k + 1])
    BY <1>2, <2>3 DEF KeptUpTo
  <2>5. QED
    BY <2>1, <2>2, <2>4, KeepsOneMore DEF L
<1>5. L \in P
  <2> HIDE DEF P
  <2> QED BY <1>1, <1>3, <1>4, InductionOverNat
<1>6. QED
  BY <1>1, <1>2, <1>5 DEF L

LEMMA Numbered ==
  ASSUME NEW cs \in Seq(Conns)
  PROVE  /\ Len(cs) \in Nat /\ DOMAIN cs = 1 .. Len(cs) /\ DOMAIN cs \subseteq Nat
         /\ \A p \in DOMAIN cs : cs[p] \in Conns /\ cs[p] \in Nat
<1>1. Len(cs) \in Nat /\ DOMAIN cs = 1 .. Len(cs)
  OBVIOUS
<1>2. \A p \in DOMAIN cs : cs[p] \in Conns
  OBVIOUS
<1>3. Conns \subseteq Nat
  BY DEF Conns
<1>4. DOMAIN cs \subseteq Nat
  BY <1>1
<1>5. QED
  BY <1>1, <1>2, <1>3, <1>4, Zenon

\* As many connections as places.
LEMMA AsManyAsPlaces ==
  ASSUME NEW cs \in Seq(Conns), Increasing(cs), NEW P \in SUBSET (DOMAIN cs)
  PROVE  /\ IsFiniteSet(P) /\ Cardinality(P) \in Nat
         /\ IsFiniteSet({cs[p] : p \in P})
         /\ Cardinality({cs[p] : p \in P}) = Cardinality(P)
<1> DEFINE T == {cs[p] : p \in P}
           f == [p \in P |-> cs[p]]
<1>1. IsFiniteSet(P) /\ Cardinality(P) \in Nat
  <2>1. IsFiniteSet(1 .. Len(cs)) /\ DOMAIN cs = 1 .. Len(cs)
    BY FS_Interval
  <2>2. QED
    BY <2>1, FS_Subset, FS_CardinalityType
<1>2. \A p, q \in P : f[p] = f[q] => p = q
  <2>1. SUFFICES ASSUME NEW p \in P, NEW q \in P, p # q, cs[p] = cs[q] PROVE FALSE
    OBVIOUS
  <2>2. p \in DOMAIN cs /\ q \in DOMAIN cs /\ p \in Int /\ q \in Int
        /\ cs[p] \in Int /\ cs[q] \in Int
    BY Numbered
  <2>3. p < q \/ q < p
    BY <2>1, <2>2
  <2>4. QED
    BY <2>1, <2>2, <2>3 DEF Increasing
<1>3. f \in Bijection(P, T)
  BY <1>2, Zenon DEF Bijection, Injection, IsInjective, Surjection
<1>4. QED
  BY <1>1, <1>3, FS_Bijection DEF ExistsBijection

LEMMA BeforeIsCounted ==
  ASSUME NEW cs \in Seq(Conns), Increasing(cs), NEW k \in Nat
  PROVE  /\ IsFiniteSet(Before(cs, k)) /\ Cardinality(Before(cs, k)) \in Nat
         /\ Cardinality(Before(cs, k)) <= k
         /\ k <= Len(cs) => Cardinality(Before(cs, k)) = k
         /\ k >= Len(cs) => Before(cs, k) = Range(cs)
<1> DEFINE P == {q \in DOMAIN cs : q <= k}
<1>1. /\ IsFiniteSet(P) /\ Cardinality(P) \in Nat
      /\ IsFiniteSet(Before(cs, k)) /\ Cardinality(Before(cs, k)) = Cardinality(P)
  BY AsManyAsPlaces DEF Before
<1>2. CASE k <= Len(cs)
  <2>1. P = 1 .. k
    BY <1>2
  <2>2. Cardinality(P) = k
    <3>1. Cardinality(1 .. k) = k
      BY FS_Interval
    <3>2. QED
      BY <2>1, <3>1
  <2>3. k >= Len(cs) => Before(cs, k) = Range(cs)
    BY <1>2 DEF Before, Range
  <2>4. QED
    BY <1>1, <1>2, <2>2, <2>3
<1>3. CASE ~(k <= Len(cs))
  <2>1. P = 1 .. Len(cs)
    BY <1>3
  <2>2. Cardinality(P) = Len(cs)
    <3>1. Cardinality(1 .. Len(cs)) = Len(cs)
      BY Numbered, FS_Interval
    <3>2. QED
      BY <2>1, <3>1
  <2>3. k >= Len(cs) => Before(cs, k) = Range(cs)
    BY <1>3 DEF Before, Range
  <2>4. QED
    BY <1>1, <1>3, <2>2, <2>3
<1>4. QED
  BY <1>2, <1>3

\* Taking connections out moves the others forward.
LEMMA WithoutIs ==
  ASSUME connections \in Seq(Conns), Increasing(connections), NEW gone
  PROVE  /\ Without(gone) \in Seq(Conns) /\ Increasing(Without(gone))
         /\ Range(Without(gone)) = Range(connections) \ gone
         /\ Len(Without(gone)) + Cardinality({p \in DOMAIN connections : connections[p] \in gone})
              = Len(connections)
         /\ \A q \in DOMAIN Without(gone) :
              q \in DOMAIN connections /\ Without(gone)[q] >= connections[q]
         /\ \A k \in Nat : Before(connections, k) \ gone \subseteq Before(Without(gone), k)
<1> DEFINE ds == Without(gone)
           L == Len(connections)
<1>1. DOMAIN connections = 1 .. L /\ L \in Nat
  BY Numbered
<1>2. Shortens(connections, gone, ds, L)
  BY WithoutShortens
<1> HIDE DEF ds, L
<1>3. /\ ds \in Seq(Conns) /\ Increasing(ds) /\ DOMAIN ds = 1 .. Len(ds) /\ Len(ds) \in Nat
      /\ Len(ds) + Cardinality({p \in 1 .. L : connections[p] \in gone}) = L
      /\ \A q \in DOMAIN ds : \E p \in 1 .. L : ds[q] = connections[p] /\ connections[p] \notin gone
      /\ \A p \in 1 .. L : connections[p] \notin gone => \E q \in DOMAIN ds : ds[q] = connections[p]
  <2>1. ds \in Seq(Conns)
    BY <1>2, Zenon DEF Shortens
  <2>2. DOMAIN ds = 1 .. Len(ds) /\ Len(ds) \in Nat
    BY <2>1, Numbered
  <2>3. QED
    BY <1>2, <2>2, Zenon DEF Shortens
<1>4. Range(ds) = Range(connections) \ gone
  <2>1. ASSUME NEW c \in Range(ds) PROVE c \in Range(connections) \ gone
    BY <1>1, <1>3, Zenon DEF Range
  <2>2. ASSUME NEW c \in Range(connections) \ gone PROVE c \in Range(ds)
    <3>1. PICK p \in 1 .. L : c = connections[p]
      BY <1>1, <2>2, Zenon DEF Range
    <3>2. PICK q \in DOMAIN ds : ds[q] = connections[p]
      BY <1>3, <2>2, <3>1, Zenon
    <3>3. QED
      BY <3>1, <3>2, Zenon DEF Range
  <2>3. QED
    BY <2>1, <2>2
<1>5. /\ \A p \in DOMAIN connections : connections[p] \in Int
      /\ \A q \in DOMAIN ds : ds[q] \in Int
  BY <1>3, Numbered
<1>6. \A q \in DOMAIN ds : q <= L /\ ds[q] >= connections[q]
  <2> DEFINE P == {q \in Nat : q \in DOMAIN ds => q <= L /\ ds[q] >= connections[q]}
  <2>1. 0 \in P
    BY <1>3
  <2>2. ASSUME NEW q \in Nat, q \in P
        PROVE  q + 1 \in P
    <3>1. SUFFICES ASSUME q + 1 \in DOMAIN ds
                   PROVE  q + 1 <= L /\ ds[q + 1] >= connections[q + 1]
      OBVIOUS
    <3>2. PICK p \in 1 .. L : ds[q + 1] = connections[p]
      BY <1>3, <3>1
    <3>3. p >= q + 1
      <4>1. CASE q = 0
        BY <4>1
      <4>2. CASE q # 0
        <5>1. q \in DOMAIN ds /\ ds[q] < ds[q + 1]
          <6>1. q \in DOMAIN ds /\ q < q + 1
            BY <1>3, <3>1, <4>2
          <6>2. QED
            BY <1>3, <3>1, <6>1 DEF Increasing
        <5>2. q <= L /\ ds[q] >= connections[q] /\ q \in DOMAIN connections
          BY <1>1, <2>2, <4>2, <5>1
        <5>3. connections[q] < connections[p]
          <6>1. ds[q] \in Int
            BY <1>5, <5>1
          <6>2. QED
            BY <1>1, <1>5, <3>2, <5>1, <5>2, <6>1
        <5>4. ~(p < q) /\ p # q
          BY <1>1, <1>5, <5>2, <5>3 DEF Increasing
        <5>5. QED
          BY <5>4
      <4>3. QED
        BY <4>1, <4>2
    <3>4. q + 1 \in DOMAIN connections /\ p \in DOMAIN connections
      BY <1>1, <3>3
    <3>5. connections[p] >= connections[q + 1]
      <4>1. CASE p = q + 1
        BY <1>5, <3>4, <4>1
      <4>2. CASE p # q + 1
        <5>1. q + 1 < p
          BY <3>3, <4>2
        <5>2. connections[q + 1] < connections[p]
          BY <3>4, <5>1 DEF Increasing
        <5>3. QED
          BY <1>5, <3>4, <5>2
      <4>3. QED
        BY <4>1, <4>2
    <3>6. QED
      BY <1>1, <3>2, <3>4, <3>5
  <2>3. Nat \subseteq P
    <3> HIDE DEF P
    <3> QED BY <2>1, <2>2, InductionOverNat
  <2>4. QED
    <3>1. DOMAIN ds \subseteq P
      BY <1>3, <2>3
    <3>2. QED
      BY <3>1
<1>7. ASSUME NEW k \in Nat PROVE Before(connections, k) \ gone \subseteq Before(ds, k)
  <2>1. SUFFICES ASSUME NEW p \in 1 .. L, p <= k, connections[p] \notin gone
                 PROVE  connections[p] \in Before(ds, k)
    BY <1>1 DEF Before
  <2>2. PICK q \in DOMAIN ds : ds[q] = connections[p]
    BY <1>3, <2>1
  <2>3. q <= p
    <3>1. q \in DOMAIN connections /\ connections[p] >= connections[q]
      BY <1>1, <1>3, <1>6, <2>2
    <3>2. ~(p < q)
      BY <1>1, <1>5, <3>1 DEF Increasing
    <3>3. QED
      BY <1>1, <3>1, <3>2
  <2>4. q <= k
    BY <1>1, <1>3, <2>1, <2>3
  <2>5. QED
    BY <2>2, <2>4 DEF Before
<1>8. Len(ds) + Cardinality({p \in DOMAIN connections : connections[p] \in gone}) = Len(connections)
  BY <1>1, <1>3, Zenon DEF L
<1>9. \A q \in DOMAIN ds : q \in DOMAIN connections /\ ds[q] >= connections[q]
  <2>1. SUFFICES ASSUME NEW q \in DOMAIN ds PROVE q \in DOMAIN connections
    BY <1>6
  <2>2. q \in Nat /\ q >= 1 /\ q <= L
    BY <1>3, <1>6
  <2>3. QED
    BY <1>1, <2>2
<1>10. QED
  BY <1>3, <1>4, <1>7, <1>8, <1>9, Zenon DEF ds

\* At most as many move to the first k places as have left them.
LEMMA ShiftsAreCounted ==
  ASSUME connections \in Seq(Conns), Increasing(connections), NEW gone, NEW k \in Nat, NEW owed
  PROVE  LET K == Cardinality({p \in DOMAIN connections : p <= k /\ connections[p] \in gone})
         IN  /\ K \in Nat
             /\ K <= Cardinality({p \in DOMAIN connections : connections[p] \in gone})
             /\ Cardinality(Before(Without(gone), k) \cap (owed \ gone)) \in Nat
             /\ Cardinality(Before(connections, k) \cap owed) \in Nat
             /\ Cardinality(Before(Without(gone), k) \cap (owed \ gone))
                  <= Cardinality(Before(connections, k) \cap owed) + K
<1> DEFINE ds == Without(gone)
           B == Before(connections, k)
           D == Before(ds, k)
           Q == {p \in DOMAIN connections : p <= k /\ connections[p] \in gone}
           N == D \ B
<1>1. ds \in Seq(Conns) /\ Increasing(ds) /\ Range(ds) = Range(connections) \ gone
      /\ B \ gone \subseteq D
  BY WithoutIs
<1> HIDE DEF ds
<1>2. /\ IsFiniteSet(B) /\ Cardinality(B) \in Nat /\ Cardinality(B) <= k
      /\ k <= Len(connections) => Cardinality(B) = k
      /\ k >= Len(connections) => B = Range(connections)
  BY BeforeIsCounted
<1>3. IsFiniteSet(D) /\ Cardinality(D) \in Nat /\ Cardinality(D) <= k /\ D \subseteq Range(ds)
  <2>1. IsFiniteSet(D) /\ Cardinality(D) \in Nat /\ Cardinality(D) <= k
    BY <1>1, BeforeIsCounted
  <2>2. D \subseteq Range(ds)
    BY DEF Before, Range
  <2>3. QED
    BY <2>1, <2>2
<1>4. IsFiniteSet(Q) /\ Cardinality(Q) \in Nat /\ Cardinality(Q) = Cardinality(B \cap gone)
  <2>1. Q \subseteq DOMAIN connections
    OBVIOUS
  <2>2. {connections[p] : p \in Q} = B \cap gone
    BY DEF Before
  <2> HIDE DEF Q
  <2>3. QED
    BY <2>1, <2>2, AsManyAsPlaces
<1>5. Cardinality(Q) <= Cardinality({p \in DOMAIN connections : connections[p] \in gone})
  <2> DEFINE A == {p \in DOMAIN connections : connections[p] \in gone}
  <2>1. Q \subseteq A /\ A \subseteq DOMAIN connections
    OBVIOUS
  <2> HIDE DEF A, Q
  <2>2. IsFiniteSet(A)
    BY <2>1, AsManyAsPlaces
  <2>3. QED
    BY <2>1, <2>2, FS_Subset DEF A
<1> HIDE DEF B, D, Q
<1>6. IsFiniteSet(N) /\ Cardinality(N) \in Nat
  BY <1>3, FS_Subset, FS_CardinalityType
<1>7. Cardinality(N) <= Cardinality(Q)
  <2>1. CASE k >= Len(connections)
    <3>1. N = {}
      BY <1>1, <1>2, <1>3, <2>1
    <3>2. Cardinality(N) = 0
      BY <3>1, FS_EmptySet
    <3>3. QED
      BY <1>4, <3>2
  <2>2. CASE k <= Len(connections)
    \* The old ones that stay, and the new ones, are at k places.
    <3>1. /\ IsFiniteSet(B \ gone) /\ Cardinality(B \ gone) \in Nat
          /\ IsFiniteSet(B \cap gone) /\ Cardinality(B \cap gone) \in Nat
      BY <1>2, FS_Subset, FS_CardinalityType
    <3>2. Cardinality(B) = Cardinality(B \ gone) + Cardinality(B \cap gone)
      <4>1. B = (B \ gone) \cup (B \cap gone) /\ (B \ gone) \cap (B \cap gone) = {}
        OBVIOUS
      <4>2. Cardinality(B) = Cardinality(B \ gone) + Cardinality(B \cap gone)
                              - Cardinality((B \ gone) \cap (B \cap gone))
        BY <3>1, <4>1, FS_Union
      <4>3. Cardinality((B \ gone) \cap (B \cap gone)) = 0
        BY <4>1, FS_EmptySet
      <4>4. QED
        BY <3>1, <4>2, <4>3
    <3>3. Cardinality((B \ gone) \cup N) = Cardinality(B \ gone) + Cardinality(N)
      <4>1. (B \ gone) \cap N = {}
        OBVIOUS
      <4>2. Cardinality((B \ gone) \cup N) = Cardinality(B \ gone) + Cardinality(N)
                                              - Cardinality((B \ gone) \cap N)
        BY <1>6, <3>1, FS_Union
      <4>3. Cardinality((B \ gone) \cap N) = 0
        BY <4>1, FS_EmptySet
      <4>4. QED
        BY <1>6, <3>1, <4>2, <4>3
    <3>4. Cardinality((B \ gone) \cup N) <= Cardinality(D)
      <4>1. (B \ gone) \cup N \subseteq D
        BY <1>1
      <4>2. QED
        BY <1>3, <4>1, FS_Subset
    <3>5. QED
      BY <1>2, <1>3, <1>4, <1>6, <2>2, <3>1, <3>2, <3>3, <3>4
  <2>3. QED
    BY <2>1, <2>2
<1>8. /\ IsFiniteSet(B \cap owed) /\ Cardinality(B \cap owed) \in Nat
      /\ Cardinality(D \cap (owed \ gone)) \in Nat
  BY <1>2, <1>3, FS_Subset, FS_CardinalityType
<1>9. Cardinality(D \cap (owed \ gone)) <= Cardinality(B \cap owed) + Cardinality(N)
  <2>1. D \cap (owed \ gone) \subseteq (B \cap owed) \cup N
    OBVIOUS
  <2>2. IsFiniteSet((B \cap owed) \cup N) /\ IsFiniteSet((B \cap owed) \cap N)
        /\ Cardinality((B \cap owed) \cap N) \in Nat
        /\ Cardinality((B \cap owed) \cup N)
             = Cardinality(B \cap owed) + Cardinality(N) - Cardinality((B \cap owed) \cap N)
    BY <1>6, <1>8, FS_Union, FS_Subset, FS_CardinalityType
  <2>3. Cardinality(D \cap (owed \ gone)) <= Cardinality((B \cap owed) \cup N)
    BY <2>1, <2>2, FS_Subset
  <2>4. QED
    BY <1>6, <1>8, <2>2, <2>3
<1>10. Cardinality(D \cap (owed \ gone)) <= Cardinality(B \cap owed) + Cardinality(Q)
  BY <1>4, <1>6, <1>7, <1>8, <1>9
<1>11. QED
  BY <1>4, <1>5, <1>8, <1>10 DEF B, D, Q, ds
-----------------------------------------------------------------------------
(***************************************************************************)
(* Broadcasts over the live list.                                          *)
(***************************************************************************)
Sendings == [phase : {"idle", "sending", "returned", "raised"},
             at : 0 .. NumConns, ws : 0 .. NumConns, dead : Seq(Conns), owed : SUBSET Conns,
             shifts : 0 .. NumConns, raced : BOOLEAN]

\* A broadcast under way: what lies ahead of it is newer than what it sends to, and that
\* newer than what failed; of what it owes it passed over no more than the shifts; and
\* what it holds is in the list unless somebody raced.
UnderWay(cs, cl, b) ==
  /\ b.ws \in cl \cup Range(cs)
  /\ \A i \in DOMAIN b.dead : b.dead[i] < b.ws /\ b.dead[i] \in cl
  /\ \A p \in DOMAIN cs : p > b.at => cs[p] > b.ws
  /\ Cardinality(Before(cs, b.at) \cap b.owed) <= b.shifts
  /\ b.raced \/ Range(b.dead) \cup {b.ws} \subseteq Range(cs)

FineBroadcast(cs, cl, n, b) ==
  /\ b \in Sendings /\ Increasing(b.dead)
  /\ b.phase = "sending" <=> b.at > 0
  /\ b.owed \subseteq Range(cs)
  /\ b.shifts + Len(cs) <= n
  /\ b.phase = "sending" => UnderWay(cs, cl, b)
  /\ b.phase \in {"returned", "raised"} => Cardinality(b.owed) <= b.shifts
  /\ b.phase = "raised" => b.raced

\* The n connections accepted so far are in the list, in order, or their clients are gone.
FineList(cs, cl, n) ==
  /\ cs \in Seq(Conns) /\ Increasing(cs) /\ cl \subseteq Conns
  /\ cl \cup Range(cs) = 1 .. n /\ Len(cs) <= n

BroadcastInv ==
  \E n \in 0 .. NumConns :
    /\ FineList(connections, closed, n)
    /\ DOMAIN sending = Senders
    /\ \A s \in Senders : FineBroadcast(connections, closed, n, sending[s])

LEMMA InOrderOnce == ASSUME NEW ss \in Seq(Conns), Increasing(ss) PROVE IsInjective(ss)
<1>1. SUFFICES ASSUME NEW i \in DOMAIN ss, NEW j \in DOMAIN ss, i # j, ss[i] = ss[j] PROVE FALSE
  BY Zenon DEF IsInjective
<1>2. i \in Nat /\ j \in Nat /\ ss[i] \in Nat /\ ss[j] \in Nat
  BY Numbered
<1>3. i < j \/ j < i
  BY <1>1, <1>2
<1>4. QED
  BY <1>1, <1>2, <1>3 DEF Increasing

LEMMA QuietIsFine ==
  ASSUME NEW n \in 0 .. NumConns, FineList(connections, closed, n)
  PROVE  FineBroadcast(connections, closed, n, Quiet)
<1>1. Quiet \in Sendings
  <2>1. 0 \in 0 .. NumConns /\ <<>> \in Seq(Conns) /\ {} \in SUBSET Conns
    BY BroadcastAssumption
  <2>2. QED
    BY <2>1, Zenon DEF Quiet, Sendings
<1>2. Increasing(<<>>) /\ Len(connections) <= n /\ Len(connections) \in Nat
  BY DEF Increasing, FineList
<1>3. QED
  BY <1>1, <1>2 DEF Quiet, FineBroadcast

LEMMA BegunIsFine ==
  ASSUME NEW n \in 0 .. NumConns, FineList(connections, closed, n)
  PROVE  FineBroadcast(connections, closed, n, Begun)
<1> DEFINE cs == connections
           R == Range(connections)
<1>1. FineBroadcast(cs, closed, n, Quiet) /\ cs \in Seq(Conns) /\ Increasing(cs)
  BY QuietIsFine DEF FineList
<1>2. CASE cs = <<>>
  <2>1. Begun = [Quiet EXCEPT !.phase = "returned"]
    BY <1>2 DEF Begun
  <2>2. Begun = [phase |-> "returned", at |-> 0, ws |-> 0, dead |-> <<>>, owed |-> {},
                 shifts |-> 0, raced |-> FALSE]
    BY <2>1 DEF Quiet
  <2>3. Begun \in Sendings
    BY <1>1, <2>2, Zenon DEF FineBroadcast, Sendings, Quiet
  <2>4. Cardinality({}) <= 0
    BY FS_EmptySet
  <2>5. QED
    BY <1>1, <2>2, <2>3, <2>4 DEF FineBroadcast, Quiet
<1>3. CASE cs # <<>>
  <2>1. Begun = [Quiet EXCEPT !.phase = "sending", !.at = 1, !.ws = cs[1],
                              !.owed = R \ {cs[1]}]
    BY <1>3 DEF Begun
  <2>2. Begun = [phase |-> "sending", at |-> 1, ws |-> cs[1], dead |-> <<>>,
                 owed |-> R \ {cs[1]}, shifts |-> 0, raced |-> FALSE]
    BY <2>1 DEF Quiet
  <2>3. Len(cs) >= 1 /\ 1 \in DOMAIN cs /\ cs[1] \in Conns /\ Len(cs) <= n /\ Len(cs) \in Nat
    BY <1>1, <1>3, Numbered DEF FineList
  <2>4. R \subseteq Conns /\ cs[1] \in R
    BY <1>1, <2>3, Numbered DEF Range
  <2>5. 1 \in 0 .. NumConns /\ cs[1] \in 0 .. NumConns /\ 0 \in 0 .. NumConns
    BY <2>3, BroadcastAssumption DEF Conns
  <2>6. Begun \in Sendings
    <3>1. R \ {cs[1]} \in SUBSET Conns /\ <<>> \in Seq(Conns)
      BY <2>4
    <3> HIDE DEF R, cs
    <3>2. QED
      BY <2>2, <2>5, <3>1, Zenon DEF Sendings
  <2>7. Before(cs, 1) \cap (R \ {cs[1]}) = {}
    <3>1. \A p \in DOMAIN cs : p <= 1 => p = 1
      BY <1>1
    <3>2. QED
      BY <3>1 DEF Before
  <2>8. Cardinality(Before(cs, 1) \cap (R \ {cs[1]})) <= 0
    BY <2>7, FS_EmptySet
  <2>9. \A p \in DOMAIN cs : p > 1 => cs[p] > cs[1]
    <3>1. SUFFICES ASSUME NEW p \in DOMAIN cs, p > 1 PROVE cs[p] > cs[1]
      OBVIOUS
    <3>2. cs[1] < cs[p] /\ cs[1] \in Nat /\ cs[p] \in Nat
      BY <1>1, <2>3, <3>1, Numbered DEF Increasing
    <3>3. QED
      BY <3>2
  <2>10. UnderWay(cs, closed, Begun)
    <3>1. /\ Begun.ws = cs[1] /\ Begun.at = 1 /\ Begun.dead = <<>> /\ Begun.shifts = 0
          /\ Begun.owed = R \ {cs[1]}
      BY <2>2
    <3>2. Range(<<>>) = {} /\ \A i \in DOMAIN <<>> : FALSE
      BY DEF Range
    <3>3. Begun.ws \in closed \cup Range(cs) /\ Range(Begun.dead) \cup {Begun.ws} \subseteq Range(cs)
      BY <2>4, <3>1, <3>2
    <3>4. \A i \in DOMAIN Begun.dead : Begun.dead[i] < Begun.ws /\ Begun.dead[i] \in closed
      BY <3>1, <3>2
    <3> HIDE DEF cs
    <3>5. Cardinality(Before(cs, Begun.at) \cap Begun.owed) <= Begun.shifts
      BY <2>8, <3>1
    <3>6. \A p \in DOMAIN cs : p > Begun.at => cs[p] > Begun.ws
      BY <2>9, <3>1
    <3>7. QED
      BY <3>3, <3>4, <3>5, <3>6 DEF UnderWay
  <2>11. Increasing(<<>>)
    BY DEF Increasing
  <2>12. QED
    <3>1. Begun.owed \subseteq R /\ Begun.at = 1 /\ Begun.phase = "sending" /\ Begun.shifts = 0
          /\ Begun.dead = <<>>
      BY <2>2
    <3> HIDE DEF R, cs
    <3>2. QED
      BY <2>3, <2>6, <2>10, <2>11, <3>1 DEF FineBroadcast, R, cs
<1>4. QED
  BY <1>2, <1>3

LEMMA WithoutIsFine ==
  ASSUME NEW n \in 0 .. NumConns, FineList(connections, closed, n), NEW gone \in SUBSET closed
  PROVE  FineList(Without(gone), closed, n)
<1> DEFINE ds == Without(gone)
           A == {p \in DOMAIN connections : connections[p] \in gone}
<1>1. /\ connections \in Seq(Conns) /\ Increasing(connections) /\ closed \subseteq Conns
      /\ closed \cup Range(connections) = 1 .. n /\ Len(connections) <= n
  BY DEF FineList
<1>2. /\ ds \in Seq(Conns) /\ Increasing(ds) /\ Range(ds) = Range(connections) \ gone
      /\ Len(ds) + Cardinality(A) = Len(connections)
  BY <1>1, WithoutIs
<1>3. Cardinality(A) \in Nat
  BY <1>1, AsManyAsPlaces
<1> HIDE DEF ds, A
<1>4. Len(ds) <= n
  BY <1>1, <1>2, <1>3
<1>5. closed \cup Range(ds) = 1 .. n
  BY <1>1, <1>2
<1>6. QED
  BY <1>1, <1>2, <1>4, <1>5 DEF FineList, ds

LEMMA DisturbedIsFine ==
  ASSUME NEW n \in 0 .. NumConns, FineList(connections, closed, n), NEW gone \in SUBSET closed,
         NEW b, FineBroadcast(connections, closed, n, b)
  PROVE  FineBroadcast(Without(gone), closed, n, Disturbed(b, gone))
<1> DEFINE ds == Without(gone)
           A == {p \in DOMAIN connections : connections[p] \in gone}
           K == Cardinality({p \in DOMAIN connections : p <= b.at /\ connections[p] \in gone})
           d == Disturbed(b, gone)
<1>1. /\ connections \in Seq(Conns) /\ Increasing(connections) /\ closed \subseteq Conns
      /\ closed \cup Range(connections) = 1 .. n /\ Len(connections) <= n
      /\ Len(connections) \in Nat
  BY DEF FineList
<1>2. /\ ds \in Seq(Conns) /\ Increasing(ds) /\ Range(ds) = Range(connections) \ gone
      /\ Len(ds) + Cardinality(A) = Len(connections)
      /\ \A q \in DOMAIN ds : q \in DOMAIN connections /\ ds[q] >= connections[q]
  BY <1>1, WithoutIs
<1>3. Cardinality(A) \in Nat /\ Len(ds) \in Nat
  <2>1. Cardinality(A) \in Nat
    BY <1>1, AsManyAsPlaces
  <2> HIDE DEF ds, A
  <2>2. QED
    BY <1>2, <2>1
<1>4. /\ b \in Sendings /\ b.owed \subseteq Range(connections) /\ Increasing(b.dead)
      /\ b.phase = "sending" <=> b.at > 0
      /\ b.shifts + Len(connections) <= n
      /\ b.phase = "sending" => UnderWay(connections, closed, b)
      /\ b.phase \in {"returned", "raised"} => Cardinality(b.owed) <= b.shifts
      /\ b.phase = "raised" => b.raced
  BY Zenon DEF FineBroadcast
<1>5. /\ b.at \in 0 .. NumConns /\ b.at \in Nat /\ b.ws \in 0 .. NumConns /\ b.dead \in Seq(Conns)
      /\ b.owed \in SUBSET Conns /\ b.shifts \in 0 .. NumConns /\ b.shifts \in Nat
      /\ b.phase \in {"idle", "sending", "returned", "raised"}
  BY <1>4 DEF Sendings
<1>6. b.owed \ gone \subseteq Range(ds) /\ b.owed \ gone \in SUBSET Conns
  BY <1>2, <1>4, <1>5
<1>7. CASE b.phase # "sending"
  <2>1. d = [b EXCEPT !.owed = b.owed \ gone]
    BY <1>7 DEF Disturbed
  <2> HIDE DEF d
  <2>2. /\ d.phase = b.phase /\ d.at = b.at /\ d.ws = b.ws /\ d.dead = b.dead
        /\ d.owed = b.owed \ gone /\ d.shifts = b.shifts /\ d.raced = b.raced
    BY <1>4, <2>1 DEF Sendings
  <2>3. d \in Sendings
    <3> DEFINE e == b.owed \ gone
    <3> HIDE DEF e
    <3> QED BY <1>4, <1>6, <2>1, Zenon DEF Sendings, e
  <2>4. Cardinality(b.owed \ gone) <= Cardinality(b.owed)
        /\ Cardinality(b.owed) \in Nat /\ Cardinality(b.owed \ gone) \in Nat
    <3>1. IsFiniteSet(Conns)
      BY BroadcastAssumption, FS_Interval DEF Conns
    <3>2. IsFiniteSet(b.owed)
      BY <1>5, <3>1, FS_Subset
    <3>3. QED
      BY <3>2, FS_Subset, FS_CardinalityType
  <2>5. b.shifts + Len(ds) <= n
    <3> HIDE DEF A, ds
    <3> QED BY <1>1, <1>2, <1>3, <1>4, <1>5
  <2>6. d.phase \in {"returned", "raised"} => Cardinality(d.owed) <= d.shifts
    BY <1>4, <1>5, <2>2, <2>4
  <2> HIDE DEF ds
  <2>7. d.phase = "raised" => d.raced
    BY <1>4, <2>2, Zenon
  <2>8. FineBroadcast(ds, closed, n, d)
    <3>1. d.phase # "sending" /\ (d.phase = "sending" <=> d.at > 0)
      BY <1>4, <1>7, <2>2
    <3>2. d.owed \subseteq Range(ds) /\ Increasing(d.dead) /\ d.shifts + Len(ds) <= n
      BY <1>4, <1>6, <2>2, <2>5
    <3>3. QED
      BY <2>3, <2>6, <2>7, <3>1, <3>2, Zenon DEF FineBroadcast
  <2>9. QED
    BY <2>8 DEF ds, d
<1>8. CASE b.phase = "sending"
  <2> DEFINE held == gone \cap (Range(b.dead) \cup {b.ws}) # {}
  <2>1. d = [b EXCEPT !.owed = @ \ gone, !.shifts = @ + K, !.raced = @ \/ held]
    BY <1>8, Zenon DEF Disturbed
  <2>2. UnderWay(connections, closed, b)
    BY <1>4, <1>8
  <2>3. /\ K \in Nat /\ K <= Cardinality(A)
        /\ Cardinality(Before(ds, b.at) \cap (b.owed \ gone)) \in Nat
        /\ Cardinality(Before(connections, b.at) \cap b.owed) \in Nat
        /\ Cardinality(Before(ds, b.at) \cap (b.owed \ gone))
             <= Cardinality(Before(connections, b.at) \cap b.owed) + K
    BY <1>1, <1>5, ShiftsAreCounted
  <2>4. Cardinality(Before(connections, b.at) \cap b.owed) <= b.shifts
    BY <2>2 DEF UnderWay
  <2> HIDE DEF d, K, A, ds, held
  <2>5. /\ d.phase = b.phase /\ d.at = b.at /\ d.ws = b.ws /\ d.dead = b.dead
        /\ d.owed = b.owed \ gone /\ d.shifts = b.shifts + K
    BY <1>4, <2>1 DEF Sendings
  <2>6. d.raced = (b.raced \/ held) /\ d.raced \in BOOLEAN
    <3>1. d.raced = (b.raced \/ held)
      BY <1>4, <2>1, Zenon DEF Sendings
    <3>2. QED
      BY <3>1, Zenon
  <2>7. b.shifts + K + Len(ds) <= n /\ b.shifts + K \in 0 .. NumConns
    <3>1. n \in Nat /\ NumConns \in Nat /\ n <= NumConns
      BY BroadcastAssumption
    <3>2. Len(ds) + Cardinality(A) = Len(connections) /\ b.shifts + Len(connections) <= n
      BY <1>2, <1>4
    <3>3. b.shifts + K + Len(ds) <= n /\ b.shifts + K >= 0
      <4> DEFINE l == Len(connections)
                 m == Len(ds)
                 a == Cardinality(A)
      <4>1. l \in Nat /\ m \in Nat /\ a \in Nat /\ K \in Nat /\ K <= a /\ b.shifts \in Nat
        BY <1>1, <1>3, <1>5, <2>3
      <4>2. m + a = l /\ b.shifts + l <= n
        BY <3>2
      <4> HIDE DEF l, m, a
      <4>3. b.shifts + K + m <= n /\ b.shifts + K >= 0
        BY <3>1, <4>1, <4>2
      <4>4. QED
        BY <4>3 DEF m
    <3>4. b.shifts + K <= NumConns
      BY <1>3, <1>5, <2>3, <3>1, <3>3
    <3>5. QED
      BY <1>5, <2>3, <3>3, <3>4
  <2>8. d \in Sendings
    <3> DEFINE e == b.owed \ gone
               k == b.shifts + K
               r == b.raced \/ held
    <3>1. d = [b EXCEPT !.owed = e, !.shifts = k, !.raced = r]
      BY <2>1, Zenon
    <3>2. r \in BOOLEAN
      BY Zenon
    <3>3. e \in SUBSET Conns /\ k \in 0 .. NumConns
      BY <1>6, <2>7
    <3> HIDE DEF e, k, r
    <3> QED BY <1>4, <3>1, <3>2, <3>3, Zenon DEF Sendings
  <2>9. UnderWay(ds, closed, d)
    <3>1. d.ws \in closed \cup Range(ds)
      BY <1>2, <2>2, <2>5 DEF UnderWay
    <3>2. \A i \in DOMAIN d.dead : d.dead[i] < d.ws /\ d.dead[i] \in closed
      BY <2>2, <2>5 DEF UnderWay
    <3>3. \A p \in DOMAIN ds : p > d.at => ds[p] > d.ws
      <4>1. SUFFICES ASSUME NEW p \in DOMAIN ds, p > b.at PROVE ds[p] > b.ws
        BY <2>5
      <4>2. p \in DOMAIN connections /\ ds[p] >= connections[p]
        BY <1>2
      <4>3. connections[p] > b.ws
        BY <2>2, <4>1, <4>2 DEF UnderWay
      <4>4. ds[p] \in Nat /\ connections[p] \in Nat /\ b.ws \in Nat
        BY <1>1, <1>2, <1>5, <4>2, Numbered
      <4>5. QED
        BY <4>2, <4>3, <4>4
    <3>4. Cardinality(Before(ds, d.at) \cap d.owed) <= d.shifts
      <4>1. Cardinality(Before(ds, b.at) \cap (b.owed \ gone)) <= b.shifts + K
        BY <1>5, <2>3, <2>4
      <4>2. QED
        BY <2>5, <4>1
    <3>5. d.raced \/ Range(d.dead) \cup {d.ws} \subseteq Range(ds)
      <4>1. CASE held
        BY <2>6, <4>1, Zenon
      <4>2. CASE b.raced
        BY <2>6, <4>2, Zenon
      <4>3. CASE ~held /\ ~b.raced
        <5>1. Range(b.dead) \cup {b.ws} \subseteq Range(connections)
          BY <2>2, <4>3 DEF UnderWay
        <5>2. QED
          BY <1>2, <2>5, <4>3, <5>1 DEF held
      <4>4. QED
        BY <4>1, <4>2, <4>3
    <3>6. QED
      BY <3>1, <3>2, <3>3, <3>4, <3>5, Zenon DEF UnderWay
  <2>10. FineBroadcast(ds, closed, n, d)
    <3>1. d.owed \subseteq Range(ds) /\ Increasing(d.dead) /\ d.shifts + Len(ds) <= n
      BY <1>4, <1>6, <2>5, <2>7
    <3>2. d.phase = "sending" /\ (d.phase = "sending" <=> d.at > 0)
      BY <1>4, <1>8, <2>5
    <3>3. QED
      BY <2>8, <2>9, <3>1, <3>2 DEF FineBroadcast
  <2>11. QED
    BY <2>10 DEF ds, d
<1>9. QED
  BY <1>7, <1>8

-----------------------------------------------------------------------------
(***************************************************************************)
(* The steps of a broadcast.                                               *)
(***************************************************************************)
\* A broadcast whose send to ws is over, and ws perhaps among the dead.
Sent(cs, cl, n, b) ==
  /\ b \in Sendings /\ Increasing(b.dead)
  /\ b.phase = "sending" /\ b.at > 0
  /\ b.owed \subseteq Range(cs)
  /\ b.shifts + Len(cs) <= n
  /\ \A i \in DOMAIN b.dead : b.dead[i] <= b.ws /\ b.dead[i] \in cl
  /\ \A p \in DOMAIN cs : p > b.at => cs[p] > b.ws
  /\ Cardinality(Before(cs, b.at) \cap b.owed) <= b.shifts
  /\ b.raced \/ Range(b.dead) \cup {b.ws} \subseteq Range(cs)

LEMMA AfterSendIsSent ==
  ASSUME NEW n \in 0 .. NumConns, FineList(connections, closed, n),
         NEW s \in Senders, FineBroadcast(connections, closed, n, sending[s]),
         sending[s].phase = "sending",
         NEW failed \in BOOLEAN, failed => sending[s].ws \in closed
  PROVE  Sent(connections, closed, n, AfterSend(s, failed))
<1> DEFINE b == sending[s]
           a == AfterSend(s, failed)
<1>1. /\ b \in Sendings /\ Increasing(b.dead) /\ b.at > 0
      /\ b.owed \subseteq Range(connections) /\ b.shifts + Len(connections) <= n
      /\ UnderWay(connections, closed, b) /\ closed \subseteq Conns
  BY Zenon DEF FineBroadcast, FineList
<1>2. /\ b.at \in 0 .. NumConns /\ b.ws \in 0 .. NumConns /\ b.dead \in Seq(Conns)
  BY <1>1 DEF Sendings
<1>3. /\ \A i \in DOMAIN b.dead : b.dead[i] < b.ws /\ b.dead[i] \in closed
      /\ \A p \in DOMAIN connections : p > b.at => connections[p] > b.ws
      /\ Cardinality(Before(connections, b.at) \cap b.owed) <= b.shifts
      /\ b.raced \/ Range(b.dead) \cup {b.ws} \subseteq Range(connections)
  BY <1>1, Zenon DEF UnderWay
<1>4. \A i \in DOMAIN b.dead : b.dead[i] \in Nat
  BY <1>2, Numbered
<1>5. CASE failed
  <2> DEFINE e == Append(b.dead, b.ws)
  <2>1. a = [b EXCEPT !.dead = e]
    BY <1>5 DEF AfterSend
  <2>2. b.ws \in closed /\ b.ws \in Conns /\ b.ws \in Nat
    BY <1>1, <1>2, <1>5
  <2>3. e \in Seq(Conns)
    BY <1>2, <2>2
  <2>4. /\ Len(b.dead) \in Nat /\ Len(e) = Len(b.dead) + 1
        /\ DOMAIN b.dead = 1 .. Len(b.dead) /\ DOMAIN e = 1 .. Len(b.dead) + 1
        /\ e[Len(b.dead) + 1] = b.ws
        /\ \A i \in 1 .. Len(b.dead) : e[i] = b.dead[i]
    BY <1>2, <2>2
  <2> HIDE DEF e
  <2>5. \A i \in DOMAIN e : e[i] <= b.ws /\ e[i] \in closed
    <3>1. SUFFICES ASSUME NEW i \in DOMAIN e PROVE e[i] <= b.ws /\ e[i] \in closed
      OBVIOUS
    <3>2. CASE i \in DOMAIN b.dead
      BY <1>3, <1>4, <2>2, <2>4, <3>2
    <3>3. CASE i = Len(b.dead) + 1
      BY <2>2, <2>4, <3>3
    <3>4. QED
      BY <2>4, <3>2, <3>3
  <2>6. Increasing(e)
    <3>1. SUFFICES ASSUME NEW i \in DOMAIN e, NEW j \in DOMAIN e, i < j PROVE e[i] < e[j]
      BY DEF Increasing
    <3>2. i \in DOMAIN b.dead /\ e[i] = b.dead[i]
      BY <2>4, <3>1
    <3>3. CASE j \in DOMAIN b.dead
      BY <1>1, <2>4, <3>1, <3>2, <3>3 DEF Increasing
    <3>4. CASE j = Len(b.dead) + 1
      BY <1>3, <2>4, <3>2, <3>4
    <3>5. j \in DOMAIN b.dead \/ j = Len(b.dead) + 1
      BY <2>4
    <3>6. QED
      BY <3>3, <3>4, <3>5
  <2>7. Range(e) = Range(b.dead) \cup {b.ws}
    <3>1. DOMAIN e = DOMAIN b.dead \cup {Len(b.dead) + 1}
      BY <2>4
    <3>2. e[Len(b.dead) + 1] = b.ws /\ \A i \in DOMAIN b.dead : e[i] = b.dead[i]
      BY <2>4
    <3>3. QED
      BY <3>1, <3>2 DEF Range
  <2>8. a \in Sendings
    BY <1>1, <2>1, <2>3, Zenon DEF Sendings
  <2>9. /\ a.phase = b.phase /\ a.at = b.at /\ a.ws = b.ws /\ a.dead = e /\ a.owed = b.owed
        /\ a.shifts = b.shifts /\ a.raced = b.raced
    BY <1>1, <2>1 DEF Sendings
  <2> HIDE DEF a, b
  <2>10. a.raced \/ Range(a.dead) \cup {a.ws} \subseteq Range(connections)
    <3>1. Range(a.dead) \cup {a.ws} = Range(b.dead) \cup {b.ws}
      BY <2>7, <2>9
    <3>2. QED
      BY <1>3, <2>9, <3>1, Zenon
  <2>11. Sent(connections, closed, n, a)
    <3>1. a.phase = "sending" /\ a.at > 0 /\ Increasing(a.dead)
      BY <1>1, <2>6, <2>9 DEF b
    <3>2. a.owed \subseteq Range(connections) /\ a.shifts + Len(connections) <= n
      BY <1>1, <2>9
    <3>3. \A i \in DOMAIN a.dead : a.dead[i] <= a.ws /\ a.dead[i] \in closed
      BY <2>5, <2>9
    <3>4. \A p \in DOMAIN connections : p > a.at => connections[p] > a.ws
      BY <1>3, <2>9
    <3>5. Cardinality(Before(connections, a.at) \cap a.owed) <= a.shifts
      BY <1>3, <2>9
    <3>6. QED
      BY <2>8, <2>10, <3>1, <3>2, <3>3, <3>4, <3>5, Zenon DEF Sent
  <2>12. QED
    BY <2>11 DEF a
<1>6. CASE ~failed
  <2>1. a = [b EXCEPT !.dead = b.dead]
    BY <1>6 DEF AfterSend
  <2>2. a = b
    BY <1>1, <2>1 DEF Sendings
  <2>3. \A i \in DOMAIN b.dead : b.dead[i] <= b.ws
    BY <1>2, <1>3, <1>4
  <2>4. Sent(connections, closed, n, b)
    BY <1>1, <1>3, <2>3, Zenon DEF Sent
  <2>5. QED
    BY <2>2, <2>4
<1>7. QED
  BY <1>5, <1>6

LEMMA NextIsFine ==
  ASSUME NEW n \in 0 .. NumConns, FineList(connections, closed, n),
         NEW b, Sent(connections, closed, n, b), b.at < Len(connections)
  PROVE  FineBroadcast(connections, closed, n,
           [b EXCEPT !.at = @ + 1, !.ws = connections[b.at + 1],
                     !.owed = @ \ {connections[b.at + 1]}])
<1> DEFINE cs == connections
           k == b.at + 1
           w == connections[b.at + 1]
           o == b.owed \ {connections[b.at + 1]}
           a == [b EXCEPT !.at = @ + 1, !.ws = connections[b.at + 1],
                          !.owed = @ \ {connections[b.at + 1]}]
<1>1. /\ cs \in Seq(Conns) /\ Increasing(cs) /\ Len(cs) <= n /\ Len(cs) \in Nat
      /\ DOMAIN cs = 1 .. Len(cs)
  BY DEF FineList
<1>2. /\ b \in Sendings /\ Increasing(b.dead) /\ b.phase = "sending" /\ b.at > 0
      /\ b.owed \subseteq Range(cs) /\ b.shifts + Len(cs) <= n
      /\ \A i \in DOMAIN b.dead : b.dead[i] <= b.ws /\ b.dead[i] \in closed
      /\ \A p \in DOMAIN cs : p > b.at => cs[p] > b.ws
      /\ Cardinality(Before(cs, b.at) \cap b.owed) <= b.shifts
      /\ b.raced \/ Range(b.dead) \cup {b.ws} \subseteq Range(cs)
  BY Zenon DEF Sent
<1>3. /\ b.at \in 0 .. NumConns /\ b.at \in Nat /\ b.ws \in 0 .. NumConns
      /\ b.dead \in Seq(Conns) /\ b.shifts \in Nat /\ b.owed \subseteq Conns
  BY <1>2 DEF Sendings
<1>4. k \in DOMAIN cs /\ k \in 0 .. NumConns /\ k \in Nat /\ k > 0
  BY <1>1, <1>3, BroadcastAssumption
<1>5. w \in Conns /\ w \in Nat /\ w \in Range(cs) /\ w \in 0 .. NumConns /\ w > b.ws
  <2>1. w \in Conns /\ w \in Nat /\ w \in Range(cs)
    BY <1>1, <1>4, Numbered DEF Range
  <2>2. w > b.ws
    BY <1>2, <1>3, <1>4
  <2>3. QED
    BY <2>1, <2>2, BroadcastAssumption DEF Conns
<1>6. o \in SUBSET Conns /\ o \subseteq Range(cs)
  BY <1>2, <1>3
<1>7. a = [b EXCEPT !.at = k, !.ws = w, !.owed = o]
  OBVIOUS
<1>8. /\ a.phase = b.phase /\ a.at = k /\ a.ws = w /\ a.dead = b.dead /\ a.owed = o
      /\ a.shifts = b.shifts /\ a.raced = b.raced
  <2> HIDE DEF k, w, o, a
  <2> QED BY <1>2, <1>7 DEF Sendings
<1>9. a \in Sendings
  <2> HIDE DEF k, w, o, a
  <2> QED BY <1>2, <1>4, <1>5, <1>6, <1>7, Zenon DEF Sendings
<1>10. Cardinality(Before(cs, k) \cap o) <= b.shifts
  <2>1. Before(cs, k) \cap o \subseteq Before(cs, b.at) \cap b.owed
    <3>1. SUFFICES ASSUME NEW p \in DOMAIN cs, p <= k, cs[p] # w PROVE p <= b.at
      BY DEF Before
    <3>2. p # k
      BY <3>1
    <3>3. QED
      BY <1>1, <1>3, <3>1, <3>2
  <2>2. IsFiniteSet(Before(cs, b.at) \cap b.owed)
    <3>1. IsFiniteSet(Conns)
      BY BroadcastAssumption, FS_Interval DEF Conns
    <3>2. QED
      BY <1>3, <3>1, FS_Subset
  <2>3. /\ Cardinality(Before(cs, k) \cap o) <= Cardinality(Before(cs, b.at) \cap b.owed)
        /\ Cardinality(Before(cs, k) \cap o) \in Nat
        /\ Cardinality(Before(cs, b.at) \cap b.owed) \in Nat
    BY <2>1, <2>2, FS_Subset, FS_CardinalityType
  <2> HIDE DEF k, o
  <2>4. QED
    BY <1>2, <1>3, <2>3
<1>11. \A p \in DOMAIN cs : p > k => cs[p] > w
  <2>1. SUFFICES ASSUME NEW p \in DOMAIN cs, p > k PROVE cs[p] > w
    OBVIOUS
  <2>2. cs[k] < cs[p]
    BY <1>1, <1>4, <2>1 DEF Increasing
  <2>3. cs[p] \in Nat
    BY <1>1, Numbered
  <2>4. QED
    BY <1>5, <2>2, <2>3
<1>12. \A i \in DOMAIN b.dead : b.dead[i] < w /\ b.dead[i] \in closed
  <2>1. \A i \in DOMAIN b.dead : b.dead[i] \in Nat
    BY <1>3, Numbered
  <2>2. QED
    BY <1>2, <1>3, <1>5, <2>1
<1>13. b.raced \/ Range(b.dead) \cup {w} \subseteq Range(cs)
  BY <1>2, <1>5, Zenon
<1> HIDE DEF k, w, o, a, cs
<1>14. UnderWay(cs, closed, a)
  <2>1. a.ws \in closed \cup Range(cs)
    BY <1>5, <1>8
  <2>2. \A i \in DOMAIN a.dead : a.dead[i] < a.ws /\ a.dead[i] \in closed
    BY <1>8, <1>12
  <2>3. \A p \in DOMAIN cs : p > a.at => cs[p] > a.ws
    BY <1>8, <1>11
  <2>4. Cardinality(Before(cs, a.at) \cap a.owed) <= a.shifts
    BY <1>8, <1>10
  <2>5. a.raced \/ Range(a.dead) \cup {a.ws} \subseteq Range(cs)
    BY <1>8, <1>13, Zenon
  <2>6. QED
    BY <2>1, <2>2, <2>3, <2>4, <2>5, Zenon DEF UnderWay
<1>15. FineBroadcast(cs, closed, n, a)
  <2>1. a.phase = "sending" /\ (a.phase = "sending" <=> a.at > 0)
    BY <1>2, <1>4, <1>8
  <2>2. a.owed \subseteq Range(cs) /\ Increasing(a.dead) /\ a.shifts + Len(cs) <= n
    BY <1>2, <1>6, <1>8
  <2>3. QED
    BY <1>9, <1>14, <2>1, <2>2 DEF FineBroadcast
<1>16. QED
  BY <1>15 DEF a, cs

LEMMA RemovedAreDead ==
  ASSUME NEW b, b.dead \in Seq(Conns), Increasing(b.dead)
  PROVE  /\ Removed(b) \subseteq Range(b.dead)
         /\ Missing(b) # {} => ~(Range(b.dead) \subseteq Range(connections))
<1>1. Removed(b) \subseteq Range(b.dead)
  BY DEF Removed, Range
<1>2. ASSUME NEW i \in Missing(b), Range(b.dead) \subseteq Range(connections) PROVE FALSE
  <2>1. i \in DOMAIN b.dead /\ b.dead[i] \notin Range(connections) \ {b.dead[j] : j \in 1 .. i - 1}
    BY <1>2 DEF Missing
  <2>2. b.dead[i] \in Range(connections)
    BY <1>2, <2>1 DEF Range
  <2>3. PICK j \in 1 .. i - 1 : b.dead[j] = b.dead[i]
    BY <2>1, <2>2
  <2>4. i \in Nat /\ DOMAIN b.dead = 1 .. Len(b.dead) /\ Len(b.dead) \in Nat
    BY <2>1, Numbered
  <2>5. j \in DOMAIN b.dead /\ j < i
    BY <2>1, <2>3, <2>4
  <2>6. b.dead[j] < b.dead[i] /\ b.dead[j] \in Nat
    BY <2>1, <2>5, Numbered DEF Increasing
  <2>7. QED
    BY <2>3, <2>6
<1>3. QED
  BY <1>1, <1>2

LEMMA FinishedIsFine ==
  ASSUME NEW n \in 0 .. NumConns, FineList(connections, closed, n),
         NEW b, Sent(connections, closed, n, b), b.at >= Len(connections)
  PROVE  /\ Removed(b) \subseteq closed
         /\ FineBroadcast(Without(Removed(b)), closed, n,
              [b EXCEPT !.phase = IF Missing(b) = {} THEN "returned" ELSE "raised",
                        !.at = 0, !.ws = 0, !.dead = <<>>, !.owed = @ \ Removed(b)])
<1> DEFINE gone == Removed(b)
           ds == Without(gone)
           p == IF Missing(b) = {} THEN "returned" ELSE "raised"
           o == b.owed \ gone
           a == [b EXCEPT !.phase = p, !.at = 0, !.ws = 0, !.dead = <<>>, !.owed = @ \ gone]
           A == {q \in DOMAIN connections : connections[q] \in gone}
<1>1. /\ connections \in Seq(Conns) /\ Increasing(connections) /\ closed \subseteq Conns
      /\ Len(connections) \in Nat /\ Len(connections) <= n
  BY DEF FineList
<1>2. /\ b \in Sendings /\ Increasing(b.dead)
      /\ b.owed \subseteq Range(connections) /\ b.shifts + Len(connections) <= n
      /\ \A i \in DOMAIN b.dead : b.dead[i] <= b.ws /\ b.dead[i] \in closed
      /\ Cardinality(Before(connections, b.at) \cap b.owed) <= b.shifts
      /\ b.raced \/ Range(b.dead) \cup {b.ws} \subseteq Range(connections)
  BY Zenon DEF Sent
<1>3. /\ b.at \in Nat /\ b.dead \in Seq(Conns) /\ b.shifts \in Nat /\ b.owed \subseteq Conns
  BY <1>2 DEF Sendings
<1>4. gone \subseteq closed
  <2>1. Range(b.dead) \subseteq closed
    BY <1>2 DEF Range
  <2>2. QED
    BY <1>2, <1>3, <2>1, RemovedAreDead
<1>5. /\ Range(ds) = Range(connections) \ gone /\ ds \in Seq(Conns)
      /\ Len(ds) + Cardinality(A) = Len(connections)
  BY <1>1, WithoutIs
<1>6. b.shifts + Len(ds) <= n
  <2>1. Cardinality(A) \in Nat
    BY <1>1, AsManyAsPlaces
  <2>2. Len(ds) \in Nat
    BY <1>5
  <2> HIDE DEF A, ds
  <2>3. Len(ds) <= Len(connections)
    BY <1>1, <1>5, <2>1, <2>2
  <2>4. QED
    BY <1>1, <1>2, <1>3, <2>2, <2>3
<1>7. Cardinality(o) <= b.shifts
  <2>1. Before(connections, b.at) = Range(connections)
    BY <1>1, <1>3, BeforeIsCounted
  <2>2. Before(connections, b.at) \cap b.owed = b.owed
    BY <1>2, <2>1
  <2>3. IsFiniteSet(b.owed)
    <3>1. IsFiniteSet(Conns)
      BY BroadcastAssumption, FS_Interval DEF Conns
    <3>2. QED
      BY <1>3, <3>1, FS_Subset
  <2>4. Cardinality(o) <= Cardinality(b.owed) /\ Cardinality(b.owed) \in Nat
        /\ Cardinality(o) \in Nat
    BY <2>3, FS_Subset, FS_CardinalityType
  <2>5. Cardinality(b.owed) <= b.shifts
    BY <1>2, <2>2
  <2> HIDE DEF o
  <2>6. QED
    BY <1>3, <2>4, <2>5
<1>8. p = "raised" => b.raced
  <2>1. CASE Missing(b) = {}
    BY <2>1
  <2>2. CASE Missing(b) # {}
    <3>1. ~(Range(b.dead) \subseteq Range(connections))
      BY <1>2, <1>3, <2>2, RemovedAreDead
    <3>2. ~(Range(b.dead) \cup {b.ws} \subseteq Range(connections))
      BY <3>1
    <3>3. QED
      BY <1>2, <3>2, Zenon
  <2>3. QED
    BY <2>1, <2>2
<1>9. /\ p \in {"returned", "raised"} /\ o \in SUBSET Conns /\ o \subseteq Range(ds)
      /\ 0 \in 0 .. NumConns /\ <<>> \in Seq(Conns)
  BY <1>2, <1>3, <1>5, BroadcastAssumption
<1>10. p \in {"idle", "sending", "returned", "raised"} /\ p # "sending"
  BY <1>9
<1>11. a = [b EXCEPT !.phase = p, !.at = 0, !.ws = 0, !.dead = <<>>, !.owed = o]
  OBVIOUS
<1> HIDE DEF p, o, a, ds
<1>12. a.phase = p /\ a.at = 0 /\ a.dead = <<>> /\ a.owed = o /\ a.shifts = b.shifts
       /\ a.raced = b.raced
  BY <1>2, <1>11 DEF Sendings
<1>13. a \in Sendings
  BY <1>2, <1>9, <1>10, <1>11, Zenon DEF Sendings
<1>14. FineBroadcast(ds, closed, n, a)
  <2>1. a.phase # "sending" /\ (a.phase = "sending" <=> a.at > 0)
    BY <1>10, <1>12
  <2>2. Increasing(a.dead) /\ a.owed \subseteq Range(ds)
    BY <1>9, <1>12 DEF Increasing
  <2>3. a.shifts + Len(ds) <= n
    BY <1>6, <1>12
  <2>4. a.phase \in {"returned", "raised"} => Cardinality(a.owed) <= a.shifts
    BY <1>7, <1>12
  <2>5. a.phase = "raised" => a.raced
    BY <1>8, <1>12, Zenon
  <2>6. QED
    BY <1>13, <2>1, <2>2, <2>3, <2>4, <2>5, Zenon DEF FineBroadcast
<1>15. QED
  BY <1>4, <1>14 DEF a, ds, p, o

\* A new connection is newer than all the others.
LEMMA ConnectedIsFine ==
  ASSUME NEW n \in 0 .. NumConns, FineList(connections, closed, n),
         NEW c \in Conns, closed \cup Range(connections) = 1 .. c - 1
  PROVE  /\ n + 1 \in 0 .. NumConns
         /\ FineList(Append(connections, c), closed, n + 1)
         /\ \A b : FineBroadcast(connections, closed, n, b) =>
                     FineBroadcast(Append(connections, c), closed, n + 1, b)
<1> DEFINE cs == connections
           L == Len(connections)
           ds == Append(connections, c)
<1>1. /\ cs \in Seq(Conns) /\ Increasing(cs) /\ closed \subseteq Conns
      /\ closed \cup Range(cs) = 1 .. n /\ L <= n /\ L \in Nat /\ n \in Nat
  BY BroadcastAssumption DEF FineList
<1>2. c = n + 1 /\ n + 1 \in 0 .. NumConns
  <2>1. 1 .. n = 1 .. c - 1 /\ c \in Nat /\ c >= 1 /\ c <= NumConns /\ NumConns \in Nat
    <3>1. 1 .. n = 1 .. c - 1
      BY <1>1
    <3>2. c \in Nat /\ c >= 1 /\ c <= NumConns /\ NumConns \in Nat
      BY BroadcastAssumption DEF Conns
    <3>3. QED
      BY <3>1, <3>2
  <2>2. ~(n < c - 1)
    <3>1. n < c - 1 => c - 1 \in 1 .. c - 1 /\ c - 1 \notin 1 .. n
      BY <1>1, <2>1
    <3>2. QED
      BY <2>1, <3>1
  <2>3. ~(n > c - 1)
    <3>1. n > c - 1 => n \in 1 .. n /\ n \notin 1 .. c - 1
      BY <1>1, <2>1
    <3>2. QED
      BY <2>1, <3>1
  <2>4. QED
    BY <1>1, <2>1, <2>2, <2>3
<1>3. /\ ds \in Seq(Conns) /\ Len(ds) = L + 1 /\ DOMAIN cs = 1 .. L /\ DOMAIN ds = 1 .. L + 1
      /\ ds[L + 1] = c /\ \A p \in 1 .. L : ds[p] = cs[p]
  BY <1>1
<1> HIDE DEF ds, cs, L
<1>4. /\ DOMAIN ds = DOMAIN cs \cup {L + 1} /\ L + 1 \notin DOMAIN cs
      /\ ds[L + 1] = c /\ \A p \in DOMAIN cs : ds[p] = cs[p]
  BY <1>1, <1>3
<1>5. Range(ds) = Range(cs) \cup {c}
  BY <1>4 DEF Range
<1>6. \A p \in DOMAIN cs : cs[p] < c /\ p < L + 1
  <2>1. SUFFICES ASSUME NEW p \in DOMAIN cs PROVE cs[p] < c /\ p < L + 1
    OBVIOUS
  <2>2. cs[p] \in 1 .. n
    BY <1>1 DEF Range
  <2>3. QED
    BY <1>1, <1>2, <1>3, <2>2
<1>7. Increasing(ds)
  <2>1. SUFFICES ASSUME NEW i \in DOMAIN ds, NEW j \in DOMAIN ds, i < j PROVE ds[i] < ds[j]
    BY DEF Increasing
  <2>2. i \in DOMAIN cs
    BY <1>1, <1>3, <1>4, <2>1
  <2>3. CASE j \in DOMAIN cs
    BY <1>1, <1>4, <2>1, <2>2, <2>3 DEF Increasing
  <2>4. CASE j = L + 1
    BY <1>4, <1>6, <2>2, <2>4
  <2>5. QED
    BY <1>4, <2>3, <2>4
<1>8. FineList(ds, closed, n + 1)
  <2>1. closed \cup Range(ds) = 1 .. n + 1
    <3>1. 1 .. n + 1 = (1 .. n) \cup {n + 1}
      BY <1>1
    <3>2. QED
      BY <1>1, <1>2, <1>5, <3>1
  <2>2. Len(ds) <= n + 1
    BY <1>1, <1>3
  <2>3. QED
    BY <1>1, <1>3, <1>7, <2>1, <2>2 DEF FineList
<1>9. ASSUME NEW b, FineBroadcast(cs, closed, n, b)
      PROVE  FineBroadcast(ds, closed, n + 1, b)
  <2>1. /\ b \in Sendings /\ Increasing(b.dead)
        /\ b.phase = "sending" <=> b.at > 0
        /\ b.owed \subseteq Range(cs)
        /\ b.shifts + Len(cs) <= n
        /\ b.phase = "sending" => UnderWay(cs, closed, b)
        /\ b.phase \in {"returned", "raised"} => Cardinality(b.owed) <= b.shifts
        /\ b.phase = "raised" => b.raced
    BY <1>9, Zenon DEF FineBroadcast
  <2>2. b.at \in 0 .. NumConns /\ b.ws \in Nat /\ b.shifts \in Nat
    BY <2>1 DEF Sendings
  <2>3. b.shifts + Len(ds) <= n + 1
    BY <1>1, <1>3, <2>1, <2>2 DEF L
  <2>4. b.owed \subseteq Range(ds)
    BY <1>5, <2>1
  <2>5. ASSUME UnderWay(cs, closed, b) PROVE UnderWay(ds, closed, b)
    <3>1. /\ b.ws \in closed \cup Range(cs)
          /\ \A i \in DOMAIN b.dead : b.dead[i] < b.ws /\ b.dead[i] \in closed
          /\ \A p \in DOMAIN cs : p > b.at => cs[p] > b.ws
          /\ Cardinality(Before(cs, b.at) \cap b.owed) <= b.shifts
          /\ b.raced \/ Range(b.dead) \cup {b.ws} \subseteq Range(cs)
      BY <2>5, Zenon DEF UnderWay
    <3>2. b.ws \in closed \cup Range(ds)
      BY <1>5, <3>1
    <3>3. \A p \in DOMAIN ds : p > b.at => ds[p] > b.ws
      <4>1. b.ws < c
        BY <1>1, <1>2, <2>2, <3>1
      <4>2. c > b.ws
        BY <1>1, <1>2, <2>2, <4>1
      <4>3. QED
        BY <1>4, <3>1, <4>2
    <3>4. Before(ds, b.at) \cap b.owed = Before(cs, b.at) \cap b.owed
      <4>1. c \notin b.owed
        <5>1. c \notin 1 .. n
          BY <1>1, <1>2
        <5>2. QED
          BY <1>1, <2>1, <5>1
      <4>2. Before(cs, b.at) \subseteq Before(ds, b.at)
        BY <1>4 DEF Before
      <4>3. Before(ds, b.at) \subseteq Before(cs, b.at) \cup {c}
        BY <1>4 DEF Before
      <4>4. QED
        BY <4>1, <4>2, <4>3
    <3>5. Cardinality(Before(ds, b.at) \cap b.owed) <= b.shifts
      BY <3>1, <3>4
    <3>6. b.raced \/ Range(b.dead) \cup {b.ws} \subseteq Range(ds)
      <4>1. Range(b.dead) \cup {b.ws} \subseteq Range(cs) =>
              Range(b.dead) \cup {b.ws} \subseteq Range(ds)
        BY <1>5
      <4>2. QED
        BY <3>1, <4>1, Zenon
    <3>7. QED
      BY <3>1, <3>2, <3>3, <3>5, <3>6, Zenon DEF UnderWay
  <2>6. QED
    BY <2>1, <2>3, <2>4, <2>5, Zenon DEF FineBroadcast
<1>10. QED
  BY <1>2, <1>8, <1>9 DEF ds, cs

LEMMA LeftIsFine ==
  ASSUME NEW n \in 0 .. NumConns, FineList(connections, closed, n),
         NEW c \in Range(connections)
  PROVE  /\ FineList(connections, closed \cup {c}, n)
         /\ \A b : FineBroadcast(connections, closed, n, b) =>
                     FineBroadcast(connections, closed \cup {c}, n, b)
<1> DEFINE cs == connections
           cl == closed \cup {c}
<1>1. cs \in Seq(Conns) /\ closed \subseteq Conns /\ closed \cup Range(cs) = 1 .. n
  BY DEF FineList
<1>2. c \in Conns
  BY <1>1, Numbered DEF Range
<1>3. FineList(cs, cl, n)
  BY <1>1, <1>2 DEF FineList
<1> HIDE DEF cs
<1>4. ASSUME NEW b, UnderWay(cs, closed, b) PROVE UnderWay(cs, cl, b)
  <2>1. b.ws \in cl \cup Range(cs)
    BY <1>4 DEF UnderWay
  <2>2. \A i \in DOMAIN b.dead : b.dead[i] < b.ws /\ b.dead[i] \in cl
    BY <1>4 DEF UnderWay
  <2> HIDE DEF cl
  <2>3. QED
    BY <1>4, <2>1, <2>2, Zenon DEF UnderWay
<1>5. ASSUME NEW b, FineBroadcast(cs, closed, n, b) PROVE FineBroadcast(cs, cl, n, b)
  <2> HIDE DEF cl
  <2> QED BY <1>4, <1>5, Zenon DEF FineBroadcast
<1>6. QED
  BY <1>3, <1>5 DEF cs

-----------------------------------------------------------------------------
(***************************************************************************)
(* The list and the broadcasts, whatever the server does.                  *)
(***************************************************************************)
\* What is left of them is fine when somebody takes closed connections out of the list.
LEMMA TakenOutIsFine ==
  ASSUME NEW n \in 0 .. NumConns, FineList(connections, closed, n),
         NEW gone \in SUBSET closed, DOMAIN sending' = Senders,
         connections' = Without(gone), closed' = closed,
         \A s \in Senders : FineBroadcast(Without(gone), closed, n, sending'[s])
  PROVE  BroadcastInv'
<1>1. FineList(connections', closed', n)
  BY WithoutIsFine
<1>2. \A s \in Senders : FineBroadcast(connections', closed', n, sending'[s])
  OBVIOUS
<1>3. QED
  BY <1>1, <1>2 DEF BroadcastInv, FineList, FineBroadcast, UnderWay

LEMMA ListStepKeeps ==
  ASSUME BroadcastInv, NEW c \in Conns, Connect(c) \/ ClientLeaves(c) \/ Disconnect(c)
  PROVE  BroadcastInv'
<1>1. PICK n \in 0 .. NumConns :
        /\ FineList(connections, closed, n)
        /\ DOMAIN sending = Senders
        /\ \A s \in Senders : FineBroadcast(connections, closed, n, sending[s])
  BY DEF BroadcastInv
<1>2. CASE Connect(c)
  <2>1. /\ closed \cup Range(connections) = 1 .. c - 1
        /\ connections' = Append(connections, c) /\ closed' = closed /\ sending' = sending
    BY <1>2 DEF Connect
  <2>2. /\ n + 1 \in 0 .. NumConns
        /\ FineList(connections', closed', n + 1)
        /\ \A b : FineBroadcast(connections, closed, n, b) =>
                    FineBroadcast(connections', closed', n + 1, b)
    BY <1>1, <2>1, ConnectedIsFine
  <2>3. DOMAIN sending' = Senders
        /\ \A s \in Senders : FineBroadcast(connections', closed', n + 1, sending'[s])
    BY <1>1, <2>1, <2>2
  <2>4. QED
    BY <2>2, <2>3 DEF BroadcastInv
<1>3. CASE ClientLeaves(c)
  <2>1. /\ c \in Range(connections) /\ closed' = closed \cup {c}
        /\ connections' = connections /\ sending' = sending
    BY <1>3 DEF ClientLeaves
  <2>2. /\ FineList(connections', closed', n)
        /\ \A b : FineBroadcast(connections, closed, n, b) =>
                    FineBroadcast(connections', closed', n, b)
    BY <1>1, <2>1, LeftIsFine
  <2>3. DOMAIN sending' = Senders
        /\ \A s \in Senders : FineBroadcast(connections', closed', n, sending'[s])
    BY <1>1, <2>1, <2>2
  <2>4. QED
    BY <1>1, <2>2, <2>3 DEF BroadcastInv
<1>4. CASE Disconnect(c)
  <2>1. /\ {c} \subseteq closed /\ connections' = Without({c}) /\ closed' = closed
        /\ sending' = [s \in Senders |-> Disturbed(sending[s], {c})]
    BY <1>4 DEF Disconnect
  <2>2. FineList(connections', closed', n)
    BY <1>1, <2>1, WithoutIsFine
  <2>3. ASSUME NEW s \in Senders
        PROVE  FineBroadcast(connections', closed', n, sending'[s])
    <3>1. FineBroadcast(Without({c}), closed, n, Disturbed(sending[s], {c}))
      BY <1>1, <2>1, DisturbedIsFine
    <3>2. QED
      BY <2>1, <3>1
  <2>4. DOMAIN sending' = Senders
    BY <2>1
  <2>5. QED
    BY <1>1, <2>2, <2>3, <2>4 DEF BroadcastInv
<1>5. QED
  BY <1>2, <1>3, <1>4

LEMMA SendReturnsKeeps ==
  ASSUME BroadcastInv, NEW s \in Senders, SendReturns(s)
  PROVE  BroadcastInv'
<1>1. PICK n \in 0 .. NumConns :
        /\ FineList(connections, closed, n)
        /\ DOMAIN sending = Senders
        /\ \A r \in Senders : FineBroadcast(connections, closed, n, sending[r])
  BY DEF BroadcastInv
<1>2. PICK failed \in {FALSE} \cup {sending[s].ws \in closed} :
        SendsNext(s, AfterSend(s, failed)) \/ Finishes(s, AfterSend(s, failed))
  BY Zenon DEF SendReturns
<1>3. failed \in BOOLEAN /\ (failed => sending[s].ws \in closed)
  <2>1. failed = FALSE \/ failed = (sending[s].ws \in closed)
    BY <1>2
  <2>2. CASE sending[s].ws \in closed
    <3>1. failed = FALSE \/ failed = TRUE
      BY <2>1, <2>2, Zenon
    <3>2. QED
      BY <2>2, <3>1, Zenon
  <2>3. CASE sending[s].ws \notin closed
    <3>1. failed = FALSE
      <4>1. (sending[s].ws \in closed) = FALSE
        BY <2>3
      <4>2. QED
        BY <2>1, <4>1
    <3>2. QED
      BY <3>1, Zenon
  <2>4. QED
    BY <2>2, <2>3, Zenon
<1>4. sending[s].phase = "sending" /\ closed' = closed
  BY DEF SendReturns
<1> DEFINE b == AfterSend(s, failed)
<1>5. Sent(connections, closed, n, b)
  BY <1>1, <1>3, <1>4, AfterSendIsSent, Zenon
<1> HIDE DEF b
<1>6. CASE SendsNext(s, b)
  <2> DEFINE a == [b EXCEPT !.at = @ + 1, !.ws = connections[b.at + 1],
                            !.owed = @ \ {connections[b.at + 1]}]
  <2>1. /\ b.at < Len(connections) /\ connections' = connections
        /\ sending' = [sending EXCEPT ![s] = a]
    BY <1>6 DEF SendsNext
  <2>2. FineBroadcast(connections, closed, n, a)
    BY <1>1, <1>5, <2>1, NextIsFine
  <2> HIDE DEF a
  <2>3. DOMAIN sending' = Senders
        /\ \A r \in Senders : FineBroadcast(connections', closed', n, sending'[r])
    BY <1>1, <1>4, <2>1, <2>2
  <2>4. FineList(connections', closed', n)
    BY <1>1, <1>4, <2>1
  <2>5. QED
    BY <1>1, <2>3, <2>4 DEF BroadcastInv
<1>7. CASE Finishes(s, b)
  <2> DEFINE gone == Removed(b)
             a == [b EXCEPT !.phase = IF Missing(b) = {} THEN "returned" ELSE "raised",
                            !.at = 0, !.ws = 0, !.dead = <<>>, !.owed = @ \ Removed(b)]
  <2>1. /\ b.at >= Len(connections) /\ connections' = Without(gone)
        /\ sending' = [r \in Senders |-> IF r = s THEN a ELSE Disturbed(sending[r], gone)]
    BY <1>7, Zenon DEF Finishes
  <2>2. gone \subseteq closed /\ FineBroadcast(Without(gone), closed, n, a)
    BY <1>1, <1>5, <2>1, FinishedIsFine
  <2> HIDE DEF a, gone
  <2>3. ASSUME NEW r \in Senders
        PROVE  FineBroadcast(connections', closed', n, sending'[r])
    <3>1. FineBroadcast(Without(gone), closed, n, Disturbed(sending[r], gone))
      BY <1>1, <2>2, DisturbedIsFine
    <3>2. CASE r = s
      BY <1>4, <2>1, <2>2, <3>2
    <3>3. CASE r # s
      BY <1>4, <2>1, <3>1, <3>3
    <3>4. QED
      BY <3>2, <3>3
  <2>4. DOMAIN sending' = Senders
    BY <2>1
  <2>5. FineList(connections', closed', n)
    BY <1>1, <1>4, <2>1, <2>2, WithoutIsFine
  <2>6. QED
    BY <1>1, <2>3, <2>4, <2>5 DEF BroadcastInv
<1>8. QED
  BY <1>2, <1>6, <1>7 DEF b

\* A coroutine begins a broadcast, or is done with it.
LEMMA ResetKeeps ==
  ASSUME BroadcastInv, NEW s \in Senders, Announce(s) \/ Hush(s),
         UNCHANGED <<connections, closed>>
  PROVE  BroadcastInv'
<1>1. PICK n \in 0 .. NumConns :
        /\ FineList(connections, closed, n)
        /\ DOMAIN sending = Senders
        /\ \A r \in Senders : FineBroadcast(connections, closed, n, sending[r])
  BY DEF BroadcastInv
<1>2. PICK b : sending' = [sending EXCEPT ![s] = b] /\ FineBroadcast(connections, closed, n, b)
  <2>1. FineBroadcast(connections, closed, n, Quiet) /\ FineBroadcast(connections, closed, n, Begun)
    BY <1>1, QuietIsFine, BegunIsFine
  <2>2. QED
    BY <2>1, Zenon DEF Announce, Hush
<1>3. DOMAIN sending' = Senders
      /\ \A r \in Senders : FineBroadcast(connections', closed', n, sending'[r])
  BY <1>1, <1>2
<1>4. FineList(connections', closed', n)
  BY <1>1
<1>5. QED
  BY <1>1, <1>3, <1>4 DEF BroadcastInv

LEMMA NobodyIsFine ==
  FineList(<<>>, {}, 0) /\ FineBroadcast(<<>>, {}, 0, Quiet) /\ 0 \in 0 .. NumConns
<1>1. 0 \in 0 .. NumConns /\ <<>> \in Seq(Conns) /\ {} \in SUBSET Conns
  BY BroadcastAssumption
<1>2. Quiet \in Sendings
  BY <1>1, Zenon DEF Quiet, Sendings
<1>3. Range(<<>>) = {} /\ Len(<<>>) = 0 /\ Increasing(<<>>) /\ 1 .. 0 = {}
  BY DEF Range, Increasing
<1>4. FineList(<<>>, {}, 0)
  BY <1>1, <1>3 DEF FineList
<1>5. FineBroadcast(<<>>, {}, 0, Quiet)
  BY <1>2, <1>3 DEF FineBroadcast, Quiet
<1>6. QED
  BY <1>1, <1>4, <1>5

LEMMA BroadcastInvInit == BroadcastInit => BroadcastInv
<1> SUFFICES ASSUME BroadcastInit PROVE BroadcastInv
  OBVIOUS
<1>1. /\ connections = <<>> /\ closed = {} /\ DOMAIN sending = Senders
      /\ \A s \in Senders : sending[s] = Quiet
  BY Zenon DEF BroadcastInit
<1>2. QED
  BY <1>1, NobodyIsFine DEF BroadcastInv

LEMMA RestartedIsFine == BroadcastInit' => BroadcastInv'
<1> SUFFICES ASSUME BroadcastInit' PROVE BroadcastInv'
  OBVIOUS
<1>1. /\ connections' = <<>> /\ closed' = {} /\ sending' = [s \in Senders |-> Quiet]
  BY Zenon DEF BroadcastInit, Quiet
<1>2. DOMAIN sending' = Senders /\ \A s \in Senders : sending'[s] = Quiet
  BY <1>1, Zenon
<1>3. QED
  BY <1>1, <1>2, NobodyIsFine DEF BroadcastInv

LEMMA SenderIsSender ==
  /\ \A t \in Tasks : Creator(t) \in Senders /\ Runner(t) \in Senders
  /\ \A r \in Requests : Request(r) \in Senders
BY DashboardAssumption DEF Creator, Runner, Request

\* What a step of the server does to the list and to the broadcasts.
LEMMA StepsAreOfTheseKinds ==
  ASSUME [DashboardNext]_dashboardVars
  PROVE  \/ UNCHANGED broadcastVars
         \/ \E s \in Senders :
              (Announce(s) \/ Hush(s)) /\ UNCHANGED <<connections, closed>>
         \/ \E c \in Conns : Connect(c) \/ ClientLeaves(c) \/ Disconnect(c)
         \/ \E s \in Senders : SendReturns(s)
         \/ BroadcastInit'
<1> DEFINE Resets == \E s \in Senders :
                       (Announce(s) \/ Hush(s)) /\ UNCHANGED <<connections, closed>>
           Same == UNCHANGED broadcastVars
<1>1. ASSUME NEW t \in Tasks, CreateTask(t) \/ StartTask(t) PROVE Resets
  BY <1>1, SenderIsSender DEF CreateTask, StartTask
<1>2. ASSUME NEW t \in Tasks, RunnerStep(t) PROVE Resets
  BY <1>2, SenderIsSender
     DEF RunnerStep, RunnerStarts, PipelineStarts, PipelineQueuesGate, PipelineConcludes,
         GateConcludes, Concludes, PipelineRaises, RunnerEnds, CancelledInTry,
         CancelledElsewhere, Goes
<1>3. ASSUME NEW r \in Requests, NEW t \in Tasks,
             CancelRunning(r, t) \/ CancelOther(r, t) \/ CancelUnknown(r, t)
               \/ CancelReturns(r, t)
      PROVE  Same
  BY <1>3 DEF CancelRunning, CancelOther, CancelUnknown, CancelReturns, RecordCancel
<1>4. ASSUME NEW r \in Requests, NEW t \in Tasks, NEW v \in {"approve", "reject"},
             Decide(r, t, v) \/ DecideRefused(r, t, v)
      PROVE  Same \/ Resets
  BY <1>4, SenderIsSender DEF Decide, DecideRefused
<1>5. ASSUME NEW r \in Requests, Update(r) \/ RequestReturns(r) PROVE Resets
  BY <1>5, SenderIsSender DEF Update, RequestReturns
<1>6. CASE Restart
  BY <1>6 DEF Restart, BroadcastInit, Quiet
<1>7. CASE Connections
  BY <1>7 DEF Connections
<1>8. CASE UNCHANGED dashboardVars
  BY <1>8 DEF dashboardVars
<1>9. QED
  BY <1>1, <1>2, <1>3, <1>4, <1>5, <1>6, <1>7, <1>8 DEF DashboardNext

LEMMA BroadcastInvNext ==
  ASSUME BroadcastInv, [DashboardNext]_dashboardVars
  PROVE  BroadcastInv'
<1>1. CASE UNCHANGED broadcastVars
  BY <1>1 DEF BroadcastInv, broadcastVars
<1>2. QED
  BY <1>1, StepsAreOfTheseKinds, ResetKeeps, ListStepKeeps, SendReturnsKeeps, RestartedIsFine

LEMMA Broadcasts == DashboardSpec => []BroadcastInv
<1>1. DashboardInit => BroadcastInv
  BY BroadcastInvInit DEF DashboardInit
<1>2. QED
  BY <1>1, BroadcastInvNext, PTL DEF DashboardSpec

-----------------------------------------------------------------------------
(***************************************************************************)
(* What the audit log keeps.                                               *)
(***************************************************************************)
Kept ==
  /\ audit \subseteq Senders
  /\ crashes \in 0 .. MaxCrashes /\ orphaned \subseteq Tasks /\ early \subseteq Tasks
  /\ \A r \in Requests : phase[r] = "over" => Request(r) \in audit

LEMMA KeptInit == DashboardInit => Kept
BY DashboardAssumption DEF DashboardInit, Kept

LEMMA RecordedIsKept ==
  ASSUME Typed, Kept, NEW r \in Requests, phase' = [phase EXCEPT ![r] = "over"],
         Record(Request(r))
  PROVE  audit' \subseteq Senders /\ \A q \in Requests : phase'[q] = "over" => Request(q) \in audit'
BY SenderIsSender DEF Typed, Kept, Record

LEMMA AskedIsKept ==
  ASSUME Typed, Kept, NEW r \in Requests, NEW p, p # "over", phase' = [phase EXCEPT ![r] = p],
         audit' = audit
  PROVE  audit' \subseteq Senders /\ \A q \in Requests : phase'[q] = "over" => Request(q) \in audit'
BY DEF Typed, Kept

LEMMA KeptNext ==
  ASSUME Typed, Kept, [DashboardNext]_dashboardVars
  PROVE  Kept'
<1> USE DEF history, stored, coroutines, requests
<1> DEFINE Audited == /\ audit' \subseteq Senders
                      /\ \A q \in Requests : phase'[q] = "over" => Request(q) \in audit'
           Past == crashes' \in 0 .. MaxCrashes /\ orphaned' \subseteq Tasks /\ early' \subseteq Tasks
<1>1. ASSUME NEW t \in Tasks, CreateTask(t) \/ StartTask(t) PROVE Audited /\ Past
  <2>1. UNCHANGED <<phase, crashes, orphaned, early>>
    BY <1>1 DEF CreateTask, StartTask
  <2>2. audit' = audit \/ audit' = audit \cup {Creator(t)}
    BY <1>1 DEF CreateTask, StartTask, Record
  <2>3. QED
    BY <2>1, <2>2, SenderIsSender DEF Kept
<1>2. ASSUME NEW t \in Tasks, RunnerStep(t) PROVE Audited /\ Past
  <2>1. UNCHANGED <<audit, phase, crashes, orphaned, early>>
    BY <1>2
       DEF RunnerStep, RunnerStarts, PipelineStarts, PipelineQueuesGate, PipelineConcludes,
           GateConcludes, Concludes, PipelineRaises, RunnerEnds, CancelledInTry,
           CancelledElsewhere
  <2>2. QED
    BY <2>1 DEF Kept
<1>3. ASSUME NEW r \in Requests, NEW t \in Tasks, CancelOther(r, t) \/ CancelReturns(r, t)
      PROVE  Audited /\ Past
  <2>1. phase' = [phase EXCEPT ![r] = "over"] /\ Record(Request(r))
    BY <1>3 DEF CancelOther, CancelReturns, RecordCancel, Asks
  <2>2. Audited
    BY <2>1, RecordedIsKept
  <2>3. UNCHANGED <<crashes, orphaned>> /\ early' \subseteq early \cup {t}
    BY <1>3 DEF CancelOther, CancelReturns, RecordCancel
  <2>4. QED
    BY <2>2, <2>3 DEF Kept
<1>4. ASSUME NEW r \in Requests, NEW t \in Tasks, CancelRunning(r, t) \/ CancelUnknown(r, t)
      PROVE  Audited /\ Past
  <2>1. PICK p : p # "over" /\ phase' = [phase EXCEPT ![r] = p]
    BY <1>4 DEF CancelRunning, CancelUnknown, Asks
  <2>2. UNCHANGED <<audit, crashes, orphaned, early>>
    BY <1>4 DEF CancelRunning, CancelUnknown
  <2>3. QED
    BY <2>1, <2>2, AskedIsKept DEF Kept
<1>5. ASSUME NEW r \in Requests, NEW t \in Tasks, NEW v \in {"approve", "reject"},
             Decide(r, t, v) \/ DecideRefused(r, t, v)
      PROVE  Audited /\ Past
  <2>1. PICK p : p # "over" /\ phase' = [phase EXCEPT ![r] = p]
    BY <1>5 DEF Decide, DecideRefused, Asks
  <2>2. UNCHANGED <<audit, crashes, orphaned, early>>
    BY <1>5 DEF Decide, DecideRefused
  <2>3. QED
    BY <2>1, <2>2, AskedIsKept DEF Kept
<1>6. ASSUME NEW r \in Requests, Update(r) PROVE Audited /\ Past
  <2>1. phase' = [phase EXCEPT ![r] = "announces"]
    BY <1>6 DEF Update, Asks
  <2>2. UNCHANGED <<audit, crashes, orphaned, early>>
    BY <1>6 DEF Update
  <2>3. QED
    BY <2>1, <2>2, AskedIsKept DEF Kept
<1>7. ASSUME NEW r \in Requests, RequestReturns(r) PROVE Audited /\ Past
  <2>1. UNCHANGED <<crashes, orphaned, early>>
    BY <1>7 DEF RequestReturns
  <2>2. CASE sending[Request(r)].phase = "returned"
    <3>1. phase' = [phase EXCEPT ![r] = "over"] /\ Record(Request(r))
      BY <1>7, <2>2 DEF RequestReturns
    <3>2. QED
      BY <2>1, <3>1, RecordedIsKept DEF Kept
  <2>3. CASE sending[Request(r)].phase # "returned"
    <3>1. phase' = [phase EXCEPT ![r] = "failed"] /\ audit' = audit
      BY <1>7, <2>3 DEF RequestReturns
    <3>2. QED
      BY <2>1, <3>1, AskedIsKept DEF Kept
  <2>4. QED
    BY <2>2, <2>3
<1>8. CASE Restart
  <2>1. /\ crashes < MaxCrashes /\ crashes' = crashes + 1 /\ early' = early /\ audit' = audit
        /\ orphaned' = orphaned \cup {t \in Tasks : status[t] \in Active}
        /\ \A q \in Requests : phase'[q] = "over" => phase[q] = "over"
    BY <1>8 DEF Restart
  <2>2. QED
    BY <2>1, DashboardAssumption DEF Kept
<1>9. CASE Connections
  BY <1>9 DEF Connections, Kept
<1>10. CASE UNCHANGED dashboardVars
  BY <1>10 DEF dashboardVars, Kept
<1>11. Audited /\ Past => Kept'
  BY DEF Kept
<1> HIDE DEF Audited, Past
<1>12. QED
  BY <1>1, <1>2, <1>3, <1>4, <1>5, <1>6, <1>7, <1>8, <1>9, <1>10, <1>11
     DEF DashboardNext

LEMMA AuditIsKept == DashboardSpec => []Kept
<1>1. IInv /\ Kept /\ [DashboardNext]_dashboardVars => Kept'
  BY KeptNext DEF IInv
<1>2. QED
  BY <1>1, KeptInit, Inductive, PTL DEF DashboardSpec

\* Nobody who was there throughout is missed by a broadcast, but for those the list's
\* later members were moved under (websocket.py:58).
THEOREM MissesAreShifts == DashboardSpec => []MissedOnlyWhenShifted
<1>1. BroadcastInv => MissedOnlyWhenShifted
  BY Zenon DEF BroadcastInv, FineBroadcast, MissedOnlyWhenShifted
<1>2. QED
  BY <1>1, Broadcasts, PTL

\* What was answered is in the audit log, and a broadcast that raises was raced
\* (websocket.py:68, app.py:406).
THEOREM AuditStaysComplete == DashboardSpec => []AuditedUnlessRaced
<1>1. BroadcastInv /\ Kept => AuditedUnlessRaced
  BY Zenon DEF BroadcastInv, FineBroadcast, Kept, AuditedUnlessRaced
<1>2. QED
  BY <1>1, Broadcasts, AuditIsKept, PTL

\* Every variable of the server has its type, the list and the broadcasts included.
THEOREM DashboardStaysTyped == DashboardSpec => []DashboardTypeOK
<1>1. BroadcastInv => BroadcastTypeOK
  <2> SUFFICES ASSUME BroadcastInv PROVE BroadcastTypeOK
    OBVIOUS
  <2>1. PICK n \in 0 .. NumConns :
          /\ FineList(connections, closed, n)
          /\ \A s \in Senders : FineBroadcast(connections, closed, n, sending[s])
    BY DEF BroadcastInv
  <2>2. connections \in Seq(Conns) /\ IsInjective(connections) /\ closed \subseteq Conns
    BY <2>1, InOrderOnce DEF FineList
  <2>3. ASSUME NEW s \in Senders
        PROVE  LET b == sending[s] IN
               /\ b.phase \in {"idle", "sending", "returned", "raised"}
               /\ b.phase = "sending" <=> b.at > 0
               /\ b.at \in 0 .. NumConns /\ b.ws \in 0 .. NumConns
               /\ b.dead \in Seq(Conns) /\ IsInjective(b.dead)
               /\ b.owed \subseteq Range(connections)
               /\ b.shifts \in 0 .. NumConns
               /\ b.raced \in BOOLEAN
    <3> DEFINE b == sending[s]
    <3>1. /\ b \in Sendings /\ Increasing(b.dead)
          /\ b.phase = "sending" <=> b.at > 0
          /\ b.owed \subseteq Range(connections)
      BY <2>1, Zenon DEF FineBroadcast
    <3>2. /\ b.phase \in {"idle", "sending", "returned", "raised"}
          /\ b.at \in 0 .. NumConns /\ b.ws \in 0 .. NumConns
          /\ b.dead \in Seq(Conns) /\ b.shifts \in 0 .. NumConns
      BY <3>1 DEF Sendings
    <3>3. b.raced \in BOOLEAN
      BY <3>1, Zenon DEF Sendings
    <3>4. IsInjective(b.dead)
      BY <3>1, <3>2, InOrderOnce
    <3>5. QED
      BY <3>1, <3>2, <3>3, <3>4, Zenon
  <2>4. QED
    BY <2>2, <2>3, Zenon DEF BroadcastTypeOK
<1>2. BroadcastInv /\ Kept /\ IInv => DashboardTypeOK
  BY <1>1, Zenon DEF Kept, IInv, Typed, DashboardTypeOK
<1>3. QED
  BY <1>2, Broadcasts, AuditIsKept, Inductive, PTL
=============================================================================
