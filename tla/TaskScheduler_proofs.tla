------------------------ MODULE TaskScheduler_proofs ------------------------
(***************************************************************************)
(* Safety of the scheduler for every number of tasks, every concurrency,   *)
(* every dependency graph and every order the event loop produces; that no *)
(* wake-up of run() or of a waiting task is lost; that no task starts      *)
(* before one that became ready earlier or has a higher priority; and that *)
(* the topological sort finds an order whenever there is one.              *)
(***************************************************************************)
EXTENDS TaskScheduler, Sums, FiniteSetTheorems, SequenceTheorems, TLAPS

Semaphore == [value : Nat, waiters : Seq(AllTasks), granted : SUBSET AllTasks]

\* The slots a semaphore has not given to an executor: free or handed to a
\* waiter that has not resumed.
Slots(s) == s.value + Cardinality(s.granted)

Executing == {t \in AllTasks : status[t] = "RUNNING"}
Active == {t \in AllTasks : status[t] \in {"READY", "RUNNING"}}

\* The tasks whose done-callback is among the callbacks q.
Discarded(q) == {t \in AllTasks : \E i \in 1 .. Len(q) : q[i] = Discard(t)}

\* Every slot is accounted for: held by an executor, handed over, or free.
SlotsConserved == Cardinality(Executing) + Slots(sem) = concurrency

\* Why run() leaves with nothing executing: a task that has not ended is in
\* `running`, and its done-callback comes only after it has ended.
ActiveAreRunning ==
  /\ Active \subseteq running
  /\ \A t \in Discarded(loop) : status[t] \in {"COMPLETED", "FAILED", "ABANDONED"}
  /\ main \in {"idle", "returned", "raised", "gathering"} => Active = {}

\* Tasks still to be registered are untouched, and a run that goes on has a
\* graph without unknown tasks.
GraphIsClosed ==
  /\ \A t \in AllTasks \ Tasks : status[t] = "PENDING" /\ dependsOn[t] = {}
  /\ main \in {"waiting", "woken"} => \A t \in Tasks : dependsOn[t] \subseteq Tasks

SafetyInv ==
  TypeOK /\ SlotsConserved /\ ActiveAreRunning /\ GraphIsClosed /\ DependenciesFirst

\* Every set of tasks can be counted.
LEMMA TasksFinite ==
  ASSUME NEW S \in SUBSET AllTasks
  PROVE  IsFiniteSet(S) /\ Cardinality(S) \in Nat
<1>1. IsFiniteSet(AllTasks)
  BY SchedulerAssumption, FS_Interval DEF AllTasks
<1>2. QED
  BY <1>1, FS_Subset, FS_CardinalityType
-----------------------------------------------------------------------------
\* Handing a slot to the first waiter without one keeps the slots.
LEMMA WakeNextKeeps ==
  ASSUME NEW s \in Semaphore, s.value > 0
  PROVE  WakeNext(s) \in Semaphore /\ Slots(WakeNext(s)) = Slots(s)
<1> DEFINE first == {i \in DOMAIN s.waiters :
                       /\ s.waiters[i] \notin s.granted
                       /\ \A j \in 1 .. i - 1 : s.waiters[j] \in s.granted}
<1>1. CASE first = {}
  BY <1>1 DEF WakeNext
<1>2. CASE first # {}
  <2>1. PICK i \in first : TRUE
    BY <1>2
  <2>2. /\ i \in 1 .. Len(s.waiters)
        /\ s.waiters[i] \in AllTasks
        /\ s.waiters[i] \notin s.granted
    BY <2>1 DEF Semaphore
  <2>3. \A k \in first : k = i
    BY <2>1 DEF Semaphore
  <2>4. {s.waiters[k] : k \in first} = {s.waiters[i]}
    BY <2>1, <2>3
  <2> DEFINE after == [s EXCEPT !.value = @ - 1, !.granted = @ \cup {s.waiters[i]}]
  <2>5. WakeNext(s) = after
    BY <1>2, <2>4 DEF WakeNext
  <2>6. after \in Semaphore /\ after.value = s.value - 1
                            /\ after.granted = s.granted \cup {s.waiters[i]}
    <3>1. s.value - 1 \in Nat /\ s.granted \cup {s.waiters[i]} \in SUBSET AllTasks
      BY <2>2 DEF Semaphore
    <3>2. QED
      BY <3>1 DEF Semaphore
  <2>7. Cardinality(s.granted \cup {s.waiters[i]}) = Cardinality(s.granted) + 1
    BY <2>2, TasksFinite, FS_AddElement DEF Semaphore
  <2>8. s.value \in Nat /\ Cardinality(s.granted) \in Nat
    BY TasksFinite DEF Semaphore
  <2>9. QED
    BY <2>5, <2>6, <2>7, <2>8 DEF Slots
<1>3. QED
  BY <1>1, <1>2

\* release() adds one slot, wherever it goes.
LEMMA ReleaseAdds ==
  ASSUME NEW s \in Semaphore
  PROVE  Release(s) \in Semaphore /\ Slots(Release(s)) = Slots(s) + 1
<1> DEFINE more == [s EXCEPT !.value = @ + 1]
<1>1. more \in Semaphore /\ more.value > 0
  BY DEF Semaphore
<1>2. Slots(more) = Slots(s) + 1
  BY TasksFinite DEF Slots, Semaphore
<1>3. QED
  BY <1>1, <1>2, WakeNextKeeps DEF Release

\* A coroutine that resumes takes the slot it was handed.
LEMMA ResumeTakes ==
  ASSUME NEW s \in Semaphore, NEW t \in s.granted
  PROVE  Resume(s, t) \in Semaphore /\ Slots(Resume(s, t)) = Slots(s) - 1
<1> DEFINE at == CHOOSE i \in DOMAIN s.waiters : s.waiters[i] = t
           queue == [i \in 1 .. Len(s.waiters) - 1 |->
                       IF i < at THEN s.waiters[i] ELSE s.waiters[i + 1]]
           left == [s EXCEPT !.waiters = queue, !.granted = @ \ {t}]
<1>1. queue \in Seq(AllTasks)
  <2>1. CASE Len(s.waiters) = 0
    BY <2>1 DEF Semaphore
  <2>2. CASE Len(s.waiters) > 0
    <3>1. Len(s.waiters) - 1 \in Nat
      BY <2>2 DEF Semaphore
    <3>2. \A i \in 1 .. Len(s.waiters) - 1 :
            s.waiters[i] \in AllTasks /\ s.waiters[i + 1] \in AllTasks
      BY <3>1 DEF Semaphore
    <3>3. \A i \in 1 .. Len(s.waiters) - 1 :
            (IF i < at THEN s.waiters[i] ELSE s.waiters[i + 1]) \in AllTasks
      BY <3>2
    <3> HIDE DEF at
    <3>4. QED
      BY <3>1, <3>3, SeqDef
  <2>3. QED
    BY <2>1, <2>2 DEF Semaphore
<1> HIDE DEF queue
<1>2. left \in Semaphore /\ left.value = s.value /\ left.granted = s.granted \ {t}
  BY <1>1 DEF Semaphore
<1>3. Cardinality(s.granted \ {t}) = Cardinality(s.granted) - 1
  BY TasksFinite, FS_RemoveElement DEF Semaphore
<1>4. Slots(left) = Slots(s) - 1
  <2>1. s.value \in Nat /\ Cardinality(s.granted) \in Nat
    BY TasksFinite DEF Semaphore
  <2>2. QED
    BY <1>2, <1>3, <2>1 DEF Slots
<1>5. Resume(s, t) = IF left.value > 0 THEN WakeNext(left) ELSE left
  BY DEF Resume, queue
<1> HIDE DEF left
<1>6. QED
  BY <1>2, <1>4, <1>5, WakeNextKeeps
-----------------------------------------------------------------------------
\* The done-callbacks of two stretches of callbacks are those of both.
LEMMA Concatenated ==
  ASSUME NEW p \in Seq(Callback), NEW q \in Seq(Callback)
  PROVE  p \o q \in Seq(Callback) /\ Discarded(p \o q) = Discarded(p) \cup Discarded(q)
<1>1. /\ p \o q \in Seq(Callback)
      /\ Len(p \o q) = Len(p) + Len(q)
      /\ \A i \in 1 .. Len(p) + Len(q) :
           (p \o q)[i] = IF i <= Len(p) THEN p[i] ELSE q[i - Len(p)]
  BY ConcatProperties
<1>2. Len(p) \in Nat /\ Len(q) \in Nat
  OBVIOUS
<1>3. ASSUME NEW t \in Discarded(p \o q) PROVE t \in Discarded(p) \cup Discarded(q)
  <2>1. PICK i \in 1 .. Len(p) + Len(q) : (p \o q)[i] = Discard(t)
    BY <1>1, <1>3 DEF Discarded
  <2>2. CASE i <= Len(p)
    BY <1>1, <1>2, <1>3, <2>1, <2>2 DEF Discarded
  <2>3. CASE i > Len(p)
    <3>1. i - Len(p) \in 1 .. Len(q) /\ q[i - Len(p)] = Discard(t)
      BY <1>1, <1>2, <2>1, <2>3
    <3>2. QED
      BY <1>3, <3>1 DEF Discarded
  <2>4. QED
    BY <1>2, <2>2, <2>3
<1>4. ASSUME NEW t \in Discarded(p) PROVE t \in Discarded(p \o q)
  <2>1. PICK i \in 1 .. Len(p) : p[i] = Discard(t)
    BY <1>4 DEF Discarded
  <2>2. i \in 1 .. Len(p \o q) /\ (p \o q)[i] = Discard(t)
    BY <1>1, <1>2, <2>1
  <2>3. QED
    BY <1>4, <2>2 DEF Discarded
<1>5. ASSUME NEW t \in Discarded(q) PROVE t \in Discarded(p \o q)
  <2>1. PICK i \in 1 .. Len(q) : q[i] = Discard(t)
    BY <1>5 DEF Discarded
  <2>2. i + Len(p) \in 1 .. Len(p \o q) /\ (p \o q)[i + Len(p)] = Discard(t)
    BY <1>1, <1>2, <2>1
  <2>3. QED
    BY <1>5, <2>2 DEF Discarded
<1>6. QED
  BY <1>1, <1>3, <1>4, <1>5

\* Single callbacks: only a done-callback discards, and only its own task.
LEMMA Single ==
  /\ <<>> \in Seq(Callback) /\ Discarded(<<>>) = {}
  /\ Main \in Callback /\ <<Main>> \in Seq(Callback) /\ Discarded(<<Main>>) = {}
  /\ \A t \in AllTasks :
       /\ Step(t) \in Callback /\ Discard(t) \in Callback
       /\ <<Step(t)>> \in Seq(Callback) /\ Discarded(<<Step(t)>>) = {}
       /\ <<Discard(t)>> \in Seq(Callback) /\ Discarded(<<Discard(t)>>) = {t}
<1>1. Main \in Callback /\ \A t \in AllTasks : Step(t) \in Callback /\ Discard(t) \in Callback
  BY SchedulerAssumption DEF Main, Step, Discard, Callback, AllTasks
<1>2. /\ <<Main>> \in Seq(Callback)
      /\ \A t \in AllTasks : <<Step(t)>> \in Seq(Callback) /\ <<Discard(t)>> \in Seq(Callback)
  BY <1>1
<1>3. \A t, u \in AllTasks : /\ Main # Discard(t) /\ Step(u) # Discard(t)
                             /\ Discard(u) = Discard(t) => u = t
  <2> TAKE t, u \in AllTasks
  <2>1. /\ Main.cb = "main" /\ Step(u).cb = "step"
        /\ Discard(t).cb = "discard" /\ Discard(t).task = t /\ Discard(u).task = u
    BY DEF Main, Step, Discard
  <2>2. "main" # "discard" /\ "step" # "discard"
    OBVIOUS
  <2>3. QED
    BY <2>1, <2>2
<1>4. QED
  BY <1>1, <1>2, <1>3 DEF Discarded

\* What is left once the loop has taken its first callback.
LEMMA Dequeued ==
  ASSUME NEW q \in Seq(Callback), q # <<>>
  PROVE  Tail(q) \in Seq(Callback) /\ Discarded(Tail(q)) \subseteq Discarded(q)
<1>1. /\ Tail(q) \in Seq(Callback) /\ Len(Tail(q)) = Len(q) - 1
      /\ \A i \in 1 .. Len(Tail(q)) : Tail(q)[i] = q[i + 1]
  BY HeadTailProperties
<1>2. ASSUME NEW t \in Discarded(Tail(q)) PROVE t \in Discarded(q)
  <2>1. PICK i \in 1 .. Len(Tail(q)) : Tail(q)[i] = Discard(t)
    BY <1>2 DEF Discarded
  <2>2. i + 1 \in 1 .. Len(q) /\ q[i + 1] = Discard(t)
    BY <1>1, <2>1
  <2>3. QED
    BY <1>2, <2>2 DEF Discarded
<1>3. QED
  BY <1>1, <1>2

\* Waking a waiter schedules a step of it and no done-callback.
LEMMA WakeupsOnlyStep ==
  ASSUME NEW s \in Semaphore, NEW s2 \in Semaphore
  PROVE  Wakeups(s, s2) \in Seq(Callback) /\ Discarded(Wakeups(s, s2)) = {}
<1>1. CASE s2.granted \subseteq s.granted
  BY <1>1, Single DEF Wakeups
<1>2. CASE ~ (s2.granted \subseteq s.granted)
  <2>1. \E t \in s2.granted : t \notin s.granted
    BY <1>2
  <2>2. (CHOOSE t \in s2.granted : t \notin s.granted) \in AllTasks
    BY <2>1 DEF Semaphore
  <2>3. QED
    BY <1>2, <2>2, Single DEF Wakeups
<1>3. QED
  BY <1>1, <1>2
-----------------------------------------------------------------------------
\* The end of an executor: one slot more, an outcome, one done-callback more.
LEMMA FinishEffect ==
  ASSUME TypeOK, NEW t \in AllTasks, NEW s \in Semaphore, NEW rest \in Seq(Callback),
         Finish(t, s, rest)
  PROVE  /\ \E outcome \in {"COMPLETED", "FAILED", "ABANDONED"} :
              status' = [status EXCEPT ![t] = outcome]
         /\ sem' \in Semaphore /\ Slots(sem') = Slots(s) + 1
         /\ loop' \in Seq(Callback)
         /\ Discarded(loop') \subseteq Discarded(rest) \cup {t}
         /\ main' = main \/ (main = "waiting" /\ main' = "woken")
         /\ event' \in BOOLEAN
<1> DEFINE wakesMain(outcome) == outcome # "ABANDONED" /\ ~event /\ main = "waiting"
           after(outcome) == IF wakesMain(outcome) THEN <<Main>> ELSE <<>>
           woken == Wakeups(s, Release(s))
<1>0. PICK outcome \in {"COMPLETED", "FAILED", "ABANDONED"} :
        /\ status' = [status EXCEPT ![t] = outcome]
        /\ event' = (event \/ outcome # "ABANDONED")
        /\ main' = IF wakesMain(outcome) THEN "woken" ELSE main
        /\ sem' = Release(s)
        /\ loop' = rest \o after(outcome) \o woken \o <<Discard(t)>>
  BY DEF Finish
<1> DEFINE resumed == after(outcome)
<1>1. sem' \in Semaphore /\ Slots(sem') = Slots(s) + 1
  BY <1>0, ReleaseAdds
<1>2. resumed \in Seq(Callback) /\ Discarded(resumed) = {}
  BY Single
<1>3. woken \in Seq(Callback) /\ Discarded(woken) = {}
  BY ReleaseAdds, WakeupsOnlyStep
<1>4. <<Discard(t)>> \in Seq(Callback) /\ Discarded(<<Discard(t)>>) = {t}
  BY Single
<1>5. loop' = ((rest \o resumed) \o woken) \o <<Discard(t)>>
  BY <1>0
<1>6. event' \in BOOLEAN
  BY <1>0, Zenon
<1>7. main' = main \/ (main = "waiting" /\ main' = "woken")
  BY <1>0
<1>8. loop' \in Seq(Callback) /\ Discarded(loop') \subseteq Discarded(rest) \cup {t}
  <2> HIDE DEF resumed, woken
  <2>1. /\ rest \o resumed \in Seq(Callback)
        /\ Discarded(rest \o resumed) = Discarded(rest) \cup Discarded(resumed)
    BY <1>2, Concatenated
  <2>2. /\ (rest \o resumed) \o woken \in Seq(Callback)
        /\ Discarded((rest \o resumed) \o woken)
             = Discarded(rest \o resumed) \cup Discarded(woken)
    BY <1>3, <2>1, Concatenated
  <2>3. /\ loop' \in Seq(Callback)
        /\ Discarded(loop') = Discarded((rest \o resumed) \o woken) \cup {t}
    BY <1>4, <1>5, <2>2, Concatenated
  <2>4. QED
    BY <1>2, <1>3, <2>1, <2>2, <2>3
<1>9. QED
  BY <1>0, <1>1, <1>6, <1>7, <1>8

\* Entering the semaphore with the slot just taken: the executor suspends
\* holding the slot, or ends and gives it back.
LEMMA ExecuteEffect ==
  ASSUME TypeOK, NEW t \in AllTasks, NEW s \in Semaphore, NEW rest \in Seq(Callback),
         Execute(t, s, rest)
  PROVE  /\ \/ status' = [status EXCEPT ![t] = "RUNNING"] /\ Slots(sem') = Slots(s)
               /\ Discarded(loop') \subseteq Discarded(rest)
            \/ \E outcome \in {"COMPLETED", "FAILED", "ABANDONED"} :
                 status' = [status EXCEPT ![t] = outcome] /\ Slots(sem') = Slots(s) + 1
                 /\ Discarded(loop') \subseteq Discarded(rest) \cup {t}
         /\ sem' \in Semaphore
         /\ loop' \in Seq(Callback)
         /\ main' = main \/ (main = "waiting" /\ main' = "woken")
         /\ event' \in BOOLEAN
<1>1. CASE Finish(t, s, rest)
  BY <1>1, FinishEffect
<1>2. CASE ~Finish(t, s, rest)
  <2>1. /\ status' = [status EXCEPT ![t] = "RUNNING"]
        /\ sem' = s /\ loop' = rest /\ main' = main
    BY <1>2 DEF Execute
  <2>2. event' \in BOOLEAN
    <3>1. event' = event
      BY <1>2 DEF Execute
    <3>2. QED
      BY <3>1 DEF TypeOK
  <2>3. QED
    BY <2>1, <2>2
<1>3. QED
  BY <1>1, <1>2

\* What a callback of task t does, whichever of its three it is.
Moves(t) ==
  /\ status[t] \in {"READY", "RUNNING"}
  /\ UNCHANGED <<client, pass, passes, running, runs>>
  /\ \/ status' = status /\ Slots(sem') = Slots(sem)
     \/ /\ status[t] = "READY"
        /\ status' = [status EXCEPT ![t] = "RUNNING"]
        /\ Slots(sem') = Slots(sem) - 1
     \/ \E outcome \in {"COMPLETED", "FAILED", "ABANDONED"} :
          /\ status' = [status EXCEPT ![t] = outcome]
          /\ Slots(sem') = IF status[t] = "RUNNING" THEN Slots(sem) + 1 ELSE Slots(sem)
  /\ status[t] = "READY" /\ status' # status => Slots(sem) > 0
  /\ Discarded(loop') \subseteq Discarded(loop) \cup {t}
  /\ t \in Discarded(loop') =>
       t \in Discarded(loop) \/ \E outcome \in {"COMPLETED", "FAILED", "ABANDONED"} :
                                   status' = [status EXCEPT ![t] = outcome]
  /\ sem' \in Semaphore
  /\ loop' \in Seq(Callback)
  /\ main' = main \/ (main = "waiting" /\ main' = "woken")
  /\ event' \in BOOLEAN

LEMMA TaskMoves ==
  ASSUME TypeOK, NEW t \in AllTasks, TaskBegins(t) \/ TaskResumes(t) \/ TaskEnds(t)
  PROVE  Moves(t)
<1>1. sem \in Semaphore /\ loop \in Seq(Callback) /\ sem.value \in Nat
  BY DEF TypeOK, Semaphore
<1>2. loop # <<>>
  BY DEF TaskBegins, TaskResumes, TaskEnds
<1>3. Tail(loop) \in Seq(Callback) /\ Discarded(Tail(loop)) \subseteq Discarded(loop)
  BY <1>1, <1>2, Dequeued
<1>4. Slots(sem) \in Nat
  BY <1>1, TasksFinite DEF Slots, Semaphore
<1>5. CASE TaskBegins(t) /\ Locked
  <2>1. /\ status[t] = "READY" /\ UNCHANGED <<client, pass, passes, running, runs>>
        /\ sem' = [sem EXCEPT !.waiters = Append(@, t)] /\ loop' = Tail(loop)
        /\ status' = status /\ event' = event /\ main' = main
    BY <1>5 DEF TaskBegins
  <2>2. sem' \in Semaphore /\ Slots(sem') = Slots(sem)
    <3>1. Append(sem.waiters, t) \in Seq(AllTasks)
      BY <1>1, AppendProperties DEF Semaphore
    <3>2. sem' \in Semaphore /\ sem'.value = sem.value /\ sem'.granted = sem.granted
      BY <1>1, <2>1, <3>1 DEF Semaphore
    <3>3. QED
      BY <3>2 DEF Slots
  <2>3. event' \in BOOLEAN
    BY <2>1 DEF TypeOK
  <2>4. QED
    BY <1>3, <2>1, <2>2, <2>3 DEF Moves
<1>6. CASE TaskBegins(t) /\ ~Locked
  <2> DEFINE taken == [sem EXCEPT !.value = @ - 1]
             rest == Tail(loop)
  <2>1. sem.value > 0
    BY <1>1, <1>6 DEF Locked
  <2>2. taken \in Semaphore /\ Slots(taken) = Slots(sem) - 1
    <3>1. sem.value - 1 \in Nat
      BY <1>1, <2>1
    <3>2. taken \in Semaphore
      BY <1>1, <3>1 DEF Semaphore
    <3>3. Slots(taken) = Slots(sem) - 1
      BY <1>1, TasksFinite DEF Slots, Semaphore
    <3>4. QED
      BY <3>2, <3>3
  <2>3. /\ status[t] = "READY" /\ UNCHANGED <<client, pass, passes, running, runs>>
        /\ Execute(t, taken, rest)
    BY <1>6 DEF TaskBegins
  <2>4. rest \in Seq(Callback) /\ Discarded(rest) \subseteq Discarded(loop)
    BY <1>3
  <2>5. Slots(sem) > 0
    BY <1>1, <2>1, TasksFinite DEF Slots, Semaphore
  <2> HIDE DEF taken, rest
  <2>6. QED
    BY <1>4, <2>2, <2>3, <2>4, <2>5, ExecuteEffect DEF Moves
<1>7. CASE TaskResumes(t)
  <2> DEFINE resumed == Resume(sem, t)
             rest == Tail(loop) \o Wakeups(sem, resumed)
  <2>1. /\ status[t] = "READY" /\ UNCHANGED <<client, pass, passes, running, runs>>
        /\ t \in sem.granted /\ Execute(t, resumed, rest)
    BY <1>7 DEF TaskResumes
  <2>2. resumed \in Semaphore /\ Slots(resumed) = Slots(sem) - 1
    BY <1>1, <2>1, ResumeTakes
  <2>3. rest \in Seq(Callback) /\ Discarded(rest) \subseteq Discarded(loop)
    <3> HIDE DEF resumed
    <3>1. Wakeups(sem, resumed) \in Seq(Callback) /\ Discarded(Wakeups(sem, resumed)) = {}
      BY <1>1, <2>2, WakeupsOnlyStep
    <3>2. /\ rest \in Seq(Callback)
          /\ Discarded(rest) = Discarded(Tail(loop)) \cup Discarded(Wakeups(sem, resumed))
      BY <1>3, <3>1, Concatenated
    <3>3. QED
      BY <1>3, <3>1, <3>2
  <2>4. Slots(sem) > 0
    <3>1. Slots(resumed) \in Nat
      BY <2>2, TasksFinite DEF Slots, Semaphore
    <3>2. QED
      BY <1>4, <2>2, <3>1
  <2> HIDE DEF resumed, rest
  <2>5. QED
    BY <1>4, <2>1, <2>2, <2>3, <2>4, ExecuteEffect DEF Moves
<1>8. CASE TaskEnds(t)
  <2>1. /\ status[t] = "RUNNING" /\ UNCHANGED <<client, pass, passes, running, runs>>
        /\ Finish(t, sem, Tail(loop))
    BY <1>8 DEF TaskEnds
  <2>2. QED
    BY <1>1, <1>3, <2>1, FinishEffect DEF Moves
<1>9. QED
  BY <1>5, <1>6, <1>7, <1>8
-----------------------------------------------------------------------------
\* What SlotsConserved adds up are natural numbers.
LEMMA Countable ==
  ASSUME TypeOK
  PROVE  /\ IsFiniteSet(Executing) /\ Cardinality(Executing) \in Nat
         /\ Slots(sem) \in Nat /\ concurrency \in Nat
<1>1. Executing \in SUBSET AllTasks /\ sem.granted \in SUBSET AllTasks /\ sem.value \in Nat
  BY DEF Executing, TypeOK
<1>2. concurrency \in Nat
  BY SchedulerAssumption DEF TypeOK
<1>3. QED
  BY <1>1, <1>2, TasksFinite DEF Slots

\* A callback of a task keeps the invariant.
LEMMA MovesKeep ==
  ASSUME SafetyInv, NEW t \in AllTasks, Moves(t)
  PROVE  SafetyInv'
<1> USE DEF SafetyInv
<1>1. /\ concurrency' = concurrency /\ registered' = registered
      /\ dependsOn' = dependsOn /\ priority' = priority
      /\ pass' = pass /\ passes' = passes /\ running' = running /\ runs' = runs
  BY DEF Moves, client
<1>2. status' \in [AllTasks -> Status]
  BY DEF Moves, TypeOK, Status
<1>3. TypeOK'
  <2>1. event' \in BOOLEAN
    BY DEF Moves
  <2>2. main' \in {"idle", "waiting", "woken", "gathering", "returned", "raised"}
    BY DEF Moves, TypeOK
  <2>3. QED
    BY <1>1, <1>2, <2>1, <2>2 DEF Moves, TypeOK, Semaphore
<1>4. SlotsConserved'
  <2>1. /\ IsFiniteSet(Executing) /\ Cardinality(Executing) \in Nat
        /\ Slots(sem) \in Nat /\ concurrency \in Nat
    BY Countable
  <2>2. CASE status' = status /\ Slots(sem') = Slots(sem)
    BY <1>1, <2>2 DEF SlotsConserved, Executing
  <2>3. CASE /\ status[t] = "READY" /\ status' = [status EXCEPT ![t] = "RUNNING"]
             /\ Slots(sem') = Slots(sem) - 1
    <3>1. Executing' = Executing \cup {t} /\ t \notin Executing
      BY <2>3 DEF Executing, TypeOK
    <3>2. Cardinality(Executing') = Cardinality(Executing) + 1
      BY <2>1, <3>1, FS_AddElement
    <3>3. QED
      BY <1>1, <2>1, <2>3, <3>2 DEF SlotsConserved
  <2>4. ASSUME NEW outcome \in {"COMPLETED", "FAILED", "ABANDONED"},
               status' = [status EXCEPT ![t] = outcome],
               Slots(sem') = IF status[t] = "RUNNING" THEN Slots(sem) + 1 ELSE Slots(sem)
        PROVE  SlotsConserved'
    <3>1. Executing' = Executing \ {t} /\ (t \in Executing <=> status[t] = "RUNNING")
      BY <2>4 DEF Executing, TypeOK
    <3>2. Cardinality(Executing') = IF status[t] = "RUNNING" THEN Cardinality(Executing) - 1
                                    ELSE Cardinality(Executing)
      BY <2>1, <3>1, FS_RemoveElement
    <3>3. QED
      BY <1>1, <2>1, <2>4, <3>2 DEF SlotsConserved
  <2>5. QED
    BY <2>2, <2>3, <2>4 DEF Moves
<1>5. Active' \subseteq Active /\ t \in Active
  BY DEF Moves, Active, TypeOK
<1>6. ActiveAreRunning'
  <2>1. \A u \in AllTasks : status[u] \in {"COMPLETED", "FAILED", "ABANDONED"} =>
                              status'[u] \in {"COMPLETED", "FAILED", "ABANDONED"}
    BY DEF Moves, TypeOK
  <2>2. t \in Discarded(loop') => status'[t] \in {"COMPLETED", "FAILED", "ABANDONED"}
    BY <2>1 DEF Moves, TypeOK, ActiveAreRunning
  <2>3. \A u \in Discarded(loop') : u \in AllTasks /\ (u = t \/ u \in Discarded(loop))
    BY DEF Moves, Discarded
  <2>4. main \notin {"idle", "returned", "raised", "gathering"}
    BY <1>5 DEF ActiveAreRunning
  <2>5. main' \notin {"idle", "returned", "raised", "gathering"}
    BY <2>4 DEF Moves
  <2>6. QED
    BY <1>1, <1>5, <2>1, <2>2, <2>3, <2>5 DEF ActiveAreRunning
<1>7. GraphIsClosed'
  <2>1. Tasks' = Tasks /\ t \in Tasks
    BY <1>1 DEF Tasks, Moves, GraphIsClosed
  <2>2. QED
    BY <1>1, <2>1 DEF Moves, GraphIsClosed, TypeOK
<1>8. DependenciesFirst'
  <2>1. \A u \in AllTasks : status'[u] # "PENDING" => status[u] # "PENDING"
    BY DEF Moves, TypeOK
  <2>2. \A u \in AllTasks : status[u] = "COMPLETED" => status'[u] = "COMPLETED"
    BY DEF Moves, TypeOK
  <2>3. QED
    BY <1>1, <2>1, <2>2 DEF DependenciesFirst, TypeOK
<1>9. QED
  BY <1>3, <1>4, <1>6, <1>7, <1>8

\* The callbacks of the tasks that one pass makes ready.
LEMMA ReadySteps ==
  ASSUME TypeOK, NEW ready \in ByPriority(ReadyTasks)
  PROVE  LET steps == [i \in 1 .. Len(ready) |-> Step(ready[i])]
         IN  steps \in Seq(Callback) /\ Discarded(steps) = {}
<1> DEFINE n == Cardinality(ReadyTasks)
           steps == [i \in 1 .. Len(ready) |-> Step(ready[i])]
<1>1. ReadyTasks \in SUBSET AllTasks
  BY SchedulerAssumption DEF ReadyTasks, Tasks, AllTasks, TypeOK
<1>2. n \in Nat
  BY <1>1, TasksFinite
<1>3. ready \in [1 .. n -> ReadyTasks]
  BY DEF ByPriority
<1> HIDE DEF n
<1>4. Len(ready) = n /\ \A i \in 1 .. n : ready[i] \in AllTasks
  BY <1>1, <1>2, <1>3
<1>5. steps \in Seq(Callback) /\ Len(steps) = n
  <2>1. \A i \in 1 .. n : Step(ready[i]) \in Callback
    BY <1>4, Single
  <2>2. steps \in [1 .. n -> Callback]
    BY <1>4, <2>1
  <2>3. QED
    BY <1>2, <2>2, SeqDef
<1>6. Discarded(steps) = {}
  <2>1. \A i \in 1 .. n : steps[i] = Step(ready[i])
    BY <1>4
  <2>2. \A i \in 1 .. n, t \in AllTasks : steps[i] # Discard(t)
    BY <2>1 DEF Step, Discard
  <2>3. QED
    BY <1>5, <2>2 DEF Discarded
<1>7. QED
  BY <1>5, <1>6

\* One pass of run()'s loop: the parts of the invariant it sets up, given that
\* `tasks` holds every task that has not ended.
LEMMA PassEffect ==
  ASSUME TypeOK, GraphIsClosed, NEW tasks \in SUBSET AllTasks,
         NEW rest \in Seq(Callback), SchedulingPass(tasks, rest),
         Active \subseteq tasks,
         \A t \in Discarded(rest) : status[t] \in {"COMPLETED", "FAILED", "ABANDONED"}
  PROVE  /\ status' = [t \in AllTasks |-> IF t \in ReadyTasks THEN "READY" ELSE status[t]]
         /\ pass' \in [AllTasks -> Nat] /\ passes' \in Nat
         /\ loop' \in Seq(Callback) /\ event' \in BOOLEAN
         /\ running' \in SUBSET AllTasks
         /\ main' \in {"returned", "gathering", "waiting"}
         /\ ActiveAreRunning'
         /\ Executing' = Executing
<1>1. ReadyTasks \in SUBSET AllTasks /\ \A t \in ReadyTasks : status[t] = "PENDING"
  BY SchedulerAssumption DEF ReadyTasks, Tasks, AllTasks, TypeOK
<1>2. /\ status' = [t \in AllTasks |-> IF t \in ReadyTasks THEN "READY" ELSE status[t]]
      /\ pass' = [t \in AllTasks |-> IF t \in ReadyTasks THEN passes ELSE pass[t]]
      /\ passes' = passes + 1
      /\ running' = tasks \cup ReadyTasks
  BY DEF SchedulingPass
<1>3. pass' \in [AllTasks -> Nat] /\ passes' \in Nat
  BY <1>2 DEF TypeOK
<1>4. event' \in BOOLEAN
  <2>1. event' = event \/ event' = FALSE
    BY Zenon DEF SchedulingPass
  <2>2. event \in BOOLEAN
    BY DEF TypeOK
  <2>3. QED
    BY <2>1, <2>2, Zenon
<1>5. Executing' = Executing
  BY <1>1, <1>2 DEF Executing, TypeOK
<1>6. Active' = Active \cup ReadyTasks
  BY <1>1, <1>2 DEF Active, TypeOK
<1>7. /\ loop' \in Seq(Callback) /\ Discarded(loop') = Discarded(rest)
      /\ main' \in {"returned", "gathering", "waiting"}
      /\ main' \in {"returned", "gathering"} => Active' = {}
  <2>1. CASE Finished
    <3>1. ReadyTasks = {} /\ Active = {}
      BY <2>1 DEF Finished, ReadyTasks, Active, GraphIsClosed, Tasks
    <3>2. /\ main' \in {"returned", "gathering"}
          /\ loop' = rest \/ loop' = Append(rest, Main)
      BY <2>1 DEF SchedulingPass
    <3>3. Append(rest, Main) = rest \o <<Main>>
      BY Single, AppendIsConcat
    <3>4. /\ rest \o <<Main>> \in Seq(Callback)
          /\ Discarded(rest \o <<Main>>) = Discarded(rest) \cup {}
      BY Single, Concatenated
    <3>5. loop' \in Seq(Callback) /\ Discarded(loop') = Discarded(rest)
      BY <3>2, <3>3, <3>4
    <3>6. QED
      BY <1>6, <3>1, <3>2, <3>5
  <2>2. CASE ~Finished /\ ~NothingInFlight(tasks \cup ReadyTasks)
    <3>1. PICK ready \in ByPriority(ReadyTasks) :
            loop' = rest \o [i \in 1 .. Len(ready) |-> Step(ready[i])]
      BY <2>2 DEF SchedulingPass
    <3>2. loop' \in Seq(Callback) /\ Discarded(loop') = Discarded(rest)
      <4> DEFINE steps == [i \in 1 .. Len(ready) |-> Step(ready[i])]
      <4>1. steps \in Seq(Callback) /\ Discarded(steps) = {}
        BY <3>1, ReadySteps
      <4> HIDE DEF steps
      <4>2. loop' = rest \o steps
        BY <3>1 DEF steps
      <4>3. loop' \in Seq(Callback) /\ Discarded(loop') = Discarded(rest) \cup Discarded(steps)
        BY <4>1, <4>2, Concatenated
      <4>4. QED
        BY <4>1, <4>3
    <3>3. main' = "waiting"
      BY <2>2 DEF SchedulingPass
    <3>4. QED
      BY <3>2, <3>3
  <2>3. CASE ~Finished /\ NothingInFlight(tasks \cup ReadyTasks)
    <3>1. main' = "returned" /\ loop' = rest
      BY <2>3 DEF SchedulingPass
    <3>2. Active' = {}
      BY <1>6, <2>3 DEF NothingInFlight
    <3>3. QED
      BY <3>1, <3>2
  <2>4. QED
    BY <2>1, <2>2, <2>3
<1>8. ActiveAreRunning'
  <2>1. Active' \subseteq running'
    BY <1>2, <1>6
  <2>2. \A t \in Discarded(rest) : status'[t] \in {"COMPLETED", "FAILED", "ABANDONED"}
    <3> SUFFICES ASSUME NEW t \in Discarded(rest) PROVE status'[t] \in {"COMPLETED", "FAILED", "ABANDONED"}
      OBVIOUS
    <3>1. t \in AllTasks /\ t \notin ReadyTasks
      BY <1>1 DEF Discarded
    <3>2. QED
      BY <1>2, <3>1
  <2>3. main' \notin {"idle", "raised"}
    BY <1>7
  <2>4. QED
    BY <1>7, <2>1, <2>2, <2>3 DEF ActiveAreRunning
<1>9. running' \in SUBSET AllTasks
  BY <1>1, <1>2
<1>10. QED
  BY <1>2, <1>3, <1>4, <1>5, <1>7, <1>8, <1>9

\* A pass of run()'s loop keeps the invariant, if the graph is closed and the
\* semaphore is either kept, or new while nothing executes.
LEMMA PassKeeps ==
  ASSUME SafetyInv, NEW tasks \in SUBSET AllTasks, NEW rest \in Seq(Callback),
         SchedulingPass(tasks, rest),
         Active \subseteq tasks,
         \A t \in Discarded(rest) : status[t] \in {"COMPLETED", "FAILED", "ABANDONED"},
         \A t \in Tasks : dependsOn[t] \subseteq Tasks,
         UNCHANGED client, runs' \in 0 .. MaxRuns,
         \/ sem' = sem
         \/ /\ sem' = [value |-> concurrency, waiters |-> <<>>, granted |-> {}]
            /\ Active = {}
  PROVE  SafetyInv'
<1> USE DEF SafetyInv
<1>1. /\ concurrency' = concurrency /\ registered' = registered
      /\ dependsOn' = dependsOn /\ priority' = priority /\ Tasks' = Tasks
  BY DEF client, Tasks
<1>2. /\ status' = [t \in AllTasks |-> IF t \in ReadyTasks THEN "READY" ELSE status[t]]
      /\ pass' \in [AllTasks -> Nat] /\ passes' \in Nat
      /\ loop' \in Seq(Callback) /\ event' \in BOOLEAN
      /\ running' \in SUBSET AllTasks
      /\ main' \in {"returned", "gathering", "waiting"}
      /\ ActiveAreRunning'
      /\ Executing' = Executing
  BY PassEffect
<1>3. sem' \in Semaphore /\ Cardinality(Executing) + Slots(sem') = concurrency
  <2>1. CASE sem' = sem
    BY <2>1 DEF TypeOK, Semaphore, SlotsConserved
  <2>2. CASE /\ sem' = [value |-> concurrency, waiters |-> <<>>, granted |-> {}]
             /\ Active = {}
    <3>1. concurrency \in Nat
      BY Countable
    <3>2. sem' \in Semaphore
      BY <2>2, <3>1 DEF Semaphore
    <3>3. Executing = {}
      BY <2>2 DEF Active, Executing
    <3>4. Cardinality(Executing) = 0 /\ Slots(sem') = concurrency + 0
      BY <2>2, <3>3, FS_EmptySet DEF Slots
    <3>5. QED
      BY <3>1, <3>2, <3>4
  <2>3. QED
    BY <2>1, <2>2
<1>4. TypeOK'
  <2>1. status' \in [AllTasks -> Status]
    BY <1>2 DEF TypeOK, Status
  <2>2. QED
    BY <1>1, <1>2, <1>3, <2>1 DEF TypeOK, Semaphore
<1>5. SlotsConserved'
  BY <1>1, <1>2, <1>3 DEF SlotsConserved
<1>6. GraphIsClosed'
  <2>1. \A t \in AllTasks \ Tasks : t \notin ReadyTasks
    BY DEF ReadyTasks
  <2>2. QED
    BY <1>1, <1>2, <2>1 DEF GraphIsClosed
<1>7. DependenciesFirst'
  <2> SUFFICES ASSUME NEW t \in AllTasks, status'[t] # "PENDING", NEW d \in dependsOn[t]
               PROVE  status'[d] = "COMPLETED"
    BY <1>1 DEF DependenciesFirst
  <2>1. d \in AllTasks
    BY DEF TypeOK
  <2>2. status[d] = "COMPLETED"
    <3>1. CASE t \in ReadyTasks
      BY <3>1 DEF ReadyTasks, DepsMet
    <3>2. CASE t \notin ReadyTasks
      BY <1>2, <3>2 DEF DependenciesFirst
    <3>3. QED
      BY <3>1, <3>2
  <2>3. d \notin ReadyTasks
    BY <2>2 DEF ReadyTasks
  <2>4. QED
    BY <1>2, <2>1, <2>2, <2>3
<1>8. QED
  BY <1>2, <1>4, <1>5, <1>6, <1>7
-----------------------------------------------------------------------------
\* A new scheduler satisfies the invariant.
LEMMA SafetyInit == Init => SafetyInv
<1> SUFFICES ASSUME Init PROVE SafetyInv
  OBVIOUS
<1>1. concurrency \in Nat /\ concurrency \in 1 .. MaxConcurrency
  BY SchedulerAssumption DEF Init
<1>2. event \in BOOLEAN
  <2>1. event = FALSE
    BY DEF Init
  <2>2. QED
    BY <2>1, Zenon
<1>3. sem \in Semaphore
  BY <1>1 DEF Init, Semaphore
<1>4. TypeOK
  BY <1>1, <1>2, <1>3, Single, SchedulerAssumption DEF Init, TypeOK, Semaphore, Status
<1>5. Executing = {} /\ Active = {}
  BY DEF Init, Executing, Active
<1>6. Cardinality(Executing) = 0 /\ Slots(sem) = concurrency + 0
  BY <1>5, FS_EmptySet DEF Init, Slots
<1>7. ActiveAreRunning
  BY <1>5, Single DEF Init, ActiveAreRunning
<1>8. GraphIsClosed /\ DependenciesFirst
  BY DEF Init, GraphIsClosed, DependenciesFirst
<1>9. QED
  BY <1>1, <1>4, <1>6, <1>7, <1>8 DEF SafetyInv, SlotsConserved

\* Every step of the scheduler keeps the invariant.
LEMMA SafetyStep == SafetyInv /\ [Next]_vars => SafetyInv'
<1> SUFFICES ASSUME SafetyInv, [Next]_vars PROVE SafetyInv'
  OBVIOUS
<1> TypeOK
  BY DEF SafetyInv
<1> loop \in Seq(Callback)
  BY DEF TypeOK
<1>1. ASSUME NEW deps \in DependencySets, NEW p \in Priorities, AddTask(deps, p)
      PROVE  SafetyInv'
  <2>1. /\ registered < MaxTasks /\ registered' = registered + 1
        /\ dependsOn' = [dependsOn EXCEPT ![registered + 1] = deps]
        /\ priority' = [priority EXCEPT ![registered + 1] = p]
        /\ main' = "idle" /\ main \in {"idle", "returned", "raised"}
        /\ UNCHANGED <<concurrency, status, pass, passes, loop, sem, event, running, runs>>
    BY <1>1 DEF AddTask, Idle
  <2>2. registered + 1 \in AllTasks /\ registered' \in 0 .. MaxTasks
    BY <2>1, SchedulerAssumption DEF TypeOK, AllTasks
  <2>3. dependsOn' \in [AllTasks -> SUBSET AllTasks] /\ priority' \in [AllTasks -> Int]
    BY <2>1, SchedulerAssumption DEF TypeOK, AllTasks
  <2>4. TypeOK'
    BY <2>1, <2>2, <2>3 DEF TypeOK
  <2>5. SlotsConserved'
    BY <2>1 DEF SafetyInv, SlotsConserved, Executing
  <2>6. ActiveAreRunning'
    BY <2>1 DEF SafetyInv, ActiveAreRunning, Active
  <2>7. Tasks' = Tasks \cup {registered + 1} /\ registered + 1 \notin Tasks
    BY <2>1 DEF Tasks, TypeOK
  <2>8. status[registered + 1] = "PENDING"
    BY <2>2, <2>7 DEF SafetyInv, GraphIsClosed
  <2>9. GraphIsClosed' /\ DependenciesFirst'
    BY <2>1, <2>2, <2>7, <2>8 DEF SafetyInv, GraphIsClosed, DependenciesFirst, TypeOK
  <2>10. QED
    BY <2>4, <2>5, <2>6, <2>9 DEF SafetyInv
<1>2. CASE Reset
  <2>1. /\ status' = [t \in AllTasks |-> "PENDING"] /\ pass' = [t \in AllTasks |-> 0]
        /\ passes' = 0 /\ main' = "idle" /\ main \in {"idle", "returned", "raised"}
        /\ loop = <<>>
        /\ UNCHANGED <<concurrency, registered, dependsOn, priority,
                       loop, sem, event, running, runs>>
    BY <1>2 DEF Reset, Idle, client
  <2>2. TypeOK'
    BY <2>1 DEF TypeOK, Status
  <2>3. Active = {} /\ Executing = {}
    BY <2>1 DEF SafetyInv, ActiveAreRunning, Active, Executing
  <2>4. Active' = {} /\ Executing' = {}
    BY <2>1 DEF Active, Executing
  <2>5. SlotsConserved'
    BY <2>1, <2>3, <2>4 DEF SafetyInv, SlotsConserved
  <2>6. Discarded(loop') = {}
    BY <2>1, Single
  <2>7. ActiveAreRunning'
    BY <2>4, <2>6 DEF ActiveAreRunning
  <2>8. GraphIsClosed' /\ DependenciesFirst'
    BY <2>1 DEF SafetyInv, GraphIsClosed, DependenciesFirst, Tasks
  <2>9. QED
    BY <2>2, <2>5, <2>7, <2>8 DEF SafetyInv
<1>3. CASE RunRaises \/ RunReturns
  <2>1. /\ UNCHANGED <<concurrency, registered, dependsOn, priority,
                       status, pass, passes, sem, event, running>>
        /\ main' \in {"raised", "returned"}
        /\ main \in {"idle", "returned", "raised", "gathering"}
        /\ loop' = loop \/ (loop # <<>> /\ loop' = Tail(loop))
        /\ runs' = runs \/ (runs < MaxRuns /\ runs' = runs + 1)
    BY <1>3 DEF RunRaises, RunReturns, Idle, client
  <2>2. loop' \in Seq(Callback) /\ Discarded(loop') \subseteq Discarded(loop)
    BY <2>1, Dequeued
  <2>3. runs' \in 0 .. MaxRuns
    BY <2>1, SchedulerAssumption DEF TypeOK
  <2>4. TypeOK'
    BY <2>1, <2>2, <2>3 DEF TypeOK
  <2>5. SlotsConserved' /\ GraphIsClosed' /\ DependenciesFirst'
    BY <2>1 DEF SafetyInv, SlotsConserved, Executing, GraphIsClosed, DependenciesFirst, Tasks
  <2>6. ActiveAreRunning'
    BY <2>1, <2>2 DEF SafetyInv, ActiveAreRunning, Active
  <2>7. QED
    BY <2>4, <2>5, <2>6 DEF SafetyInv
<1>4. CASE RunStarts
  <2>1. /\ main \in {"idle", "returned", "raised"} /\ Schedulable
        /\ SchedulingPass({}, <<>>) /\ UNCHANGED client
        /\ sem' = [value |-> concurrency, waiters |-> <<>>, granted |-> {}]
        /\ runs < MaxRuns /\ runs' = runs + 1
    BY <1>4 DEF RunStarts, Idle
  <2>2. Active = {}
    BY <2>1 DEF SafetyInv, ActiveAreRunning
  <2>3. runs' \in 0 .. MaxRuns
    BY <2>1, SchedulerAssumption DEF TypeOK
  <2>4. \A t \in Tasks : dependsOn[t] \subseteq Tasks
    BY <2>1 DEF Schedulable
  <2>5. QED
    BY <2>1, <2>2, <2>3, <2>4, Single, PassKeeps
<1>5. CASE RunWakes
  <2>1. /\ loop # <<>> /\ main = "woken" /\ SchedulingPass(running, Tail(loop))
        /\ UNCHANGED client /\ sem' = sem /\ runs' = runs
    BY <1>5 DEF RunWakes
  <2>2. Tail(loop) \in Seq(Callback) /\ Discarded(Tail(loop)) \subseteq Discarded(loop)
    BY <2>1, Dequeued
  <2>3. /\ Active \subseteq running
        /\ \A t \in Discarded(Tail(loop)) : status[t] \in {"COMPLETED", "FAILED", "ABANDONED"}
        /\ \A t \in Tasks : dependsOn[t] \subseteq Tasks
    BY <2>1, <2>2 DEF SafetyInv, ActiveAreRunning, GraphIsClosed
  <2>4. running \in SUBSET AllTasks /\ runs' \in 0 .. MaxRuns
    BY <2>1 DEF TypeOK
  <2> DEFINE rest == Tail(loop)
  <2>5. rest \in Seq(Callback) /\ SchedulingPass(running, rest)
        /\ \A t \in Discarded(rest) : status[t] \in {"COMPLETED", "FAILED", "ABANDONED"}
    BY <2>1, <2>2, <2>3
  <2> HIDE DEF rest
  <2>6. QED
    BY <2>1, <2>3, <2>4, <2>5, PassKeeps
<1>6. ASSUME NEW t \in AllTasks, ExecutorResolves(t) PROVE SafetyInv'
  <2>1. /\ loop' = loop \o <<Step(t)>>
        /\ UNCHANGED <<concurrency, registered, dependsOn, priority,
                       status, pass, passes, sem, event, running, main, runs>>
    BY <1>6, AppendIsConcat, Single DEF ExecutorResolves, client
  <2>2. loop' \in Seq(Callback) /\ Discarded(loop') = Discarded(loop) \cup {}
    BY <2>1, Single, Concatenated
  <2>3. TypeOK'
    BY <2>1, <2>2 DEF TypeOK
  <2>4. SlotsConserved' /\ GraphIsClosed' /\ DependenciesFirst'
    BY <2>1 DEF SafetyInv, SlotsConserved, Executing, GraphIsClosed, DependenciesFirst, Tasks
  <2>5. ActiveAreRunning'
    BY <2>1, <2>2 DEF SafetyInv, ActiveAreRunning, Active
  <2>6. QED
    BY <2>3, <2>4, <2>5 DEF SafetyInv
<1>7. ASSUME NEW t \in AllTasks, TaskBegins(t) \/ TaskResumes(t) \/ TaskEnds(t)
      PROVE  SafetyInv'
  BY <1>7, TaskMoves, MovesKeep
<1>8. ASSUME NEW t \in AllTasks, TaskDiscarded(t) PROVE SafetyInv'
  <2>1. /\ loop # <<>> /\ Head(loop) = Discard(t) /\ loop' = Tail(loop)
        /\ running' = running \ {t}
        /\ UNCHANGED <<concurrency, registered, dependsOn, priority,
                       status, pass, passes, sem, event, main, runs>>
    BY <1>8 DEF TaskDiscarded, client
  <2>2. loop' \in Seq(Callback) /\ Discarded(loop') \subseteq Discarded(loop)
    BY <2>1, Dequeued
  <2>3. t \in Discarded(loop)
    <3>1. 1 \in 1 .. Len(loop) /\ loop[1] = Discard(t)
      BY <2>1
    <3>2. QED
      BY <3>1 DEF Discarded
  <2>4. t \notin Active
    BY <2>3 DEF SafetyInv, ActiveAreRunning, Active
  <2>5. TypeOK'
    BY <2>1, <2>2 DEF TypeOK
  <2>6. SlotsConserved' /\ GraphIsClosed' /\ DependenciesFirst'
    BY <2>1 DEF SafetyInv, SlotsConserved, Executing, GraphIsClosed, DependenciesFirst, Tasks
  <2>7. ActiveAreRunning'
    BY <2>1, <2>2, <2>4 DEF SafetyInv, ActiveAreRunning, Active
  <2>8. QED
    BY <2>5, <2>6, <2>7 DEF SafetyInv
<1>9. CASE UNCHANGED vars
  BY <1>9 DEF vars, client, SafetyInv, TypeOK, SlotsConserved, Executing, ActiveAreRunning,
              Active, GraphIsClosed, DependenciesFirst, Tasks
<1>10. QED
  BY <1>1, <1>2, <1>3, <1>4, <1>5, <1>6, <1>7, <1>8, <1>9 DEF Next, LoopStep
-----------------------------------------------------------------------------
\* The invariant the theorems below rest on.
THEOREM Safety == Spec => []SafetyInv
BY SafetyInit, SafetyStep, PTL DEF Spec

\* The scheduler's state, its semaphore and the event loop stay well typed: in
\* particular the semaphore's value never goes below 0.
THEOREM TypeCorrect == Spec => []TypeOK
<1>1. SafetyInv => TypeOK
  BY DEF SafetyInv
<1>2. QED
  BY <1>1, Safety, PTL

\* A task leaves PENDING only after everything it depends on has COMPLETED, for
\* every graph and every order in which executors end.
THEOREM DependenciesAlwaysFirst == Spec => []DependenciesFirst
<1>1. SafetyInv => DependenciesFirst
  BY DEF SafetyInv
<1>2. QED
  BY <1>1, Safety, PTL

\* At most `concurrency` executors run at a time, through every hand-over of the
\* semaphore and every run().
THEOREM ConcurrencyStaysBounded == Spec => []ConcurrencyBound
<1>1. SafetyInv => ConcurrencyBound
  <2> SUFFICES ASSUME SafetyInv PROVE Cardinality(Executing) <= concurrency
    BY DEF ConcurrencyBound, Executing
  <2>1. QED
    BY Countable DEF SafetyInv, SlotsConserved
<1>2. QED
  BY <1>1, Safety, PTL
-----------------------------------------------------------------------------
\* What a task's status says of its progress.
LEMMA ProgressOf ==
  ASSUME TypeOK, NEW t \in AllTasks
  PROVE  /\ Progress[t] = "waiting" <=> status[t] \in {"PENDING", "READY"}
         /\ Progress[t] = "executing" <=> status[t] = "RUNNING"
         /\ Progress[t] = "completed" <=> status[t] = "COMPLETED"
         /\ Progress[t] = "failed" <=> status[t] = "FAILED"
         /\ Progress[t] = "abandoned" <=> status[t] = "ABANDONED"
<1>1. status[t] \in Status
  BY DEF TypeOK
<1>2. QED
  BY <1>1 DEF Progress, Status

\* Setting the status of a task sets its progress, and no other task's.
LEMMA ProgressSet ==
  ASSUME TypeOK, NEW t \in AllTasks
  PROVE  /\ status' = [status EXCEPT ![t] = "RUNNING"]
              => Progress' = [Progress EXCEPT ![t] = "executing"]
         /\ status' = [status EXCEPT ![t] = "COMPLETED"]
              => Progress' = [Progress EXCEPT ![t] = "completed"]
         /\ status' = [status EXCEPT ![t] = "FAILED"]
              => Progress' = [Progress EXCEPT ![t] = "failed"]
         /\ status' = [status EXCEPT ![t] = "ABANDONED"]
              => Progress' = [Progress EXCEPT ![t] = "abandoned"]
<1>1. Progress = [u \in AllTasks |-> Progress[u]] /\ Progress' = [u \in AllTasks |-> Progress'[u]]
  BY DEF Progress
<1>2. \A u \in AllTasks : status'[u] = status[u] => Progress'[u] = Progress[u]
  BY DEF Progress
<1>3. /\ status'[t] = "RUNNING" => Progress'[t] = "executing"
      /\ status'[t] = "COMPLETED" => Progress'[t] = "completed"
      /\ status'[t] = "FAILED" => Progress'[t] = "failed"
      /\ status'[t] = "ABANDONED" => Progress'[t] = "abandoned"
  BY DEF Progress
<1>4. ASSUME NEW st, status' = [status EXCEPT ![t] = st]
      PROVE  status'[t] = st /\ \A u \in AllTasks \ {t} : status'[u] = status[u]
  BY <1>4 DEF TypeOK
<1> HIDE DEF Progress
<1>5. ASSUME NEW pr, Progress'[t] = pr, \A u \in AllTasks \ {t} : Progress'[u] = Progress[u]
      PROVE  Progress' = [Progress EXCEPT ![t] = pr]
  BY <1>1, <1>5
<1>6. QED
  BY <1>2, <1>3, <1>4, <1>5

\* A callback of a task is a start, an end, both, or nothing to the client.
LEMMA MovesRefine ==
  ASSUME SafetyInv, NEW t \in AllTasks, Moves(t)
  PROVE  \/ Abstract!Start(t) \/ Abstract!StartAndEnd(t) \/ Abstract!End(t)
         \/ UNCHANGED Abstract!vars
<1> TypeOK
  BY DEF SafetyInv
<1>1. UNCHANGED <<concurrency, registered, dependsOn>>
  BY DEF Moves, client
<1>2. CASE status' = status
  BY <1>1, <1>2 DEF Abstract!vars, Progress
<1>3. CASE status' # status /\ status[t] = "READY"
  <2>1. t \in 1 .. registered
    BY <1>3 DEF SafetyInv, GraphIsClosed, Tasks
  <2>2. Progress[t] = "waiting" /\ \A d \in dependsOn[t] : Progress[d] = "completed"
    <3>1. \A d \in dependsOn[t] : d \in AllTasks /\ status[d] = "COMPLETED"
      BY <1>3 DEF SafetyInv, DependenciesFirst, TypeOK
    <3>2. QED
      BY <1>3, <3>1, ProgressOf
  <2>3. Abstract!Executing = Executing
    BY ProgressOf DEF Abstract!Executing, Abstract!AllTasks, AllTasks, Executing
  <2>4. Abstract!Cardinality(Abstract!Executing) < concurrency
    <3>1. Abstract!Cardinality(Executing) = Cardinality(Executing)
      BY DEF Abstract!Cardinality, Cardinality
    <3>2. Slots(sem) > 0
      BY <1>3 DEF Moves
    <3>3. QED
      BY <2>3, <3>1, <3>2, Countable DEF SafetyInv, SlotsConserved
  <2>5. Abstract!MayStart(t)
    BY <2>1, <2>2, <2>4 DEF Abstract!MayStart
  <2>6. \/ Progress' = [Progress EXCEPT ![t] = "executing"]
        \/ \E outcome \in {"completed", "failed", "abandoned"} :
             Progress' = [Progress EXCEPT ![t] = outcome]
    BY <1>3, ProgressSet DEF Moves
  <2>7. QED
    BY <1>1, <2>5, <2>6 DEF Abstract!Start, Abstract!StartAndEnd
<1>4. CASE status' # status /\ status[t] = "RUNNING"
  <2>1. Progress[t] = "executing"
    BY <1>4, ProgressOf
  <2>2. \E outcome \in {"completed", "failed", "abandoned"} : Progress' = [Progress EXCEPT ![t] = outcome]
    BY <1>4, ProgressSet DEF Moves
  <2>3. QED
    BY <1>1, <2>1, <2>2 DEF Abstract!End
<1>5. QED
  BY <1>2, <1>3, <1>4 DEF Moves

\* Initially the client sees a new DependencyRun.
LEMMA InitRefines == Init => Abstract!Init
<1> SUFFICES ASSUME Init PROVE Abstract!Init
  OBVIOUS
<1>1. Progress = [t \in AllTasks |-> "waiting"]
  BY DEF Init, Progress
<1>2. QED
  BY <1>1 DEF Init, Abstract!Init, Abstract!AllTasks, AllTasks

\* Every step of the scheduler is a step of DependencyRun or none.
LEMMA StepRefines == SafetyInv /\ [Next]_vars => [Abstract!Next]_Abstract!vars
<1> SUFFICES ASSUME SafetyInv, [Next]_vars
             PROVE  Abstract!Next \/ UNCHANGED Abstract!vars
  OBVIOUS
<1> TypeOK
  BY DEF SafetyInv
<1>1. ASSUME NEW deps \in DependencySets, NEW p \in Priorities, AddTask(deps, p)
      PROVE  Abstract!Register
  <2>1. deps \in SUBSET AllTasks
    BY SchedulerAssumption DEF AllTasks
  <2>2. Progress' = Progress
    BY <1>1 DEF AddTask, Progress
  <2>3. QED
    BY <1>1, <2>1, <2>2 DEF AddTask, Abstract!Register, Abstract!AllTasks, AllTasks
<1>2. ASSUME Reset PROVE Abstract!Reset
  <2>1. Progress' = [t \in AllTasks |-> "waiting"]
    BY <1>2 DEF Reset, Progress
  <2>2. Abstract!Executing = {}
    <3>1. Active = {}
      BY <1>2 DEF Reset, Idle, SafetyInv, ActiveAreRunning
    <3>2. QED
      BY <3>1, ProgressOf DEF Active, Abstract!Executing, Abstract!AllTasks, AllTasks
  <2>3. QED
    BY <1>2, <2>1, <2>2 DEF Reset, client, Abstract!Reset, Abstract!AllTasks, AllTasks
<1>3. ASSUME RunStarts \/ RunWakes PROVE UNCHANGED Abstract!vars
  <2>1. /\ status' = [t \in AllTasks |-> IF t \in ReadyTasks THEN "READY" ELSE status[t]]
        /\ UNCHANGED <<concurrency, registered, dependsOn>>
    BY <1>3 DEF RunStarts, RunWakes, SchedulingPass, client
  <2>2. Progress' = Progress
    <3>1. ASSUME NEW t \in AllTasks PROVE Progress'[t] = Progress[t]
      BY <2>1 DEF Progress, ReadyTasks
    <3>2. QED
      BY <3>1 DEF Progress
  <2>3. QED
    BY <2>1, <2>2 DEF Abstract!vars
<1>4. ASSUME NEW t \in AllTasks, TaskBegins(t) \/ TaskResumes(t) \/ TaskEnds(t)
      PROVE  \/ Abstract!Start(t) \/ Abstract!StartAndEnd(t) \/ Abstract!End(t)
             \/ UNCHANGED Abstract!vars
  BY <1>4, TaskMoves, MovesRefine
<1>5. ASSUME \/ RunRaises \/ RunReturns \/ UNCHANGED vars
             \/ \E t \in AllTasks : ExecutorResolves(t) \/ TaskDiscarded(t)
      PROVE  UNCHANGED Abstract!vars
  <2>1. UNCHANGED <<concurrency, registered, dependsOn, status>>
    BY <1>5 DEF RunRaises, RunReturns, ExecutorResolves, TaskDiscarded, vars, client
  <2>2. QED
    BY <2>1 DEF Abstract!vars, Progress
<1>6. QED
  BY <1>1, <1>2, <1>3, <1>4, <1>5 DEF Next, LoopStep, Abstract!Next, Abstract!AllTasks, AllTasks

\* TaskScheduler implements DependencyRun for every number of tasks: every run is
\* one in which tasks execute at most once, in dependency order, `concurrency` at
\* a time.
THEOREM Implements == Spec => ImplementsDependencyRun
BY InitRefines, StepRefines, Safety, PTL DEF Spec, ImplementsDependencyRun, Abstract!Spec
-----------------------------------------------------------------------------
(***************************************************************************)
(* Who will wake whom.                                                     *)
(***************************************************************************)
\* The tasks a step of whose coroutine is among the callbacks q.
Stepped(q) == {t \in AllTasks : \E i \in 1 .. Len(q) : q[i] = Step(t)}

Queued(s) == {s.waiters[i] : i \in DOMAIN s.waiters}

\* Nobody waits for the semaphore twice, only who waits is granted a slot, and while
\* somebody waits in vain there is no spare slot or a granted one still to be resumed.
HandsOver(s) ==
  /\ \A i, j \in DOMAIN s.waiters : s.waiters[i] = s.waiters[j] => i = j
  /\ s.granted \subseteq Queued(s)
  /\ Queued(s) \ s.granted # {} => s.value = 0 \/ s.granted # {}

\* A task that is READY is scheduled or waits for the semaphore, and it is scheduled
\* if it has been granted a slot.
Awake(st, q, s) ==
  /\ HandsOver(s)
  /\ \A t \in Queued(s) : st[t] = "READY"
  /\ s.granted \subseteq Stepped(q)
  /\ \A t \in AllTasks : st[t] = "READY" => t \in Stepped(q) \/ t \in Queued(s) \ s.granted

\* While run() waits, its event is not set and no task has become ready since it looked.
WakeInv ==
  /\ Awake(status, loop, sem)
  /\ main = "waiting" => ~event
  /\ main \in {"waiting", "gathering", "returned"} => ReadyTasks = {}

LEMMA QueuedTyped ==
  ASSUME NEW s \in Semaphore
  PROVE  /\ s.waiters \in Seq(AllTasks) /\ DOMAIN s.waiters = 1 .. Len(s.waiters)
         /\ Len(s.waiters) \in Nat /\ Queued(s) \in SUBSET AllTasks
         /\ s.value \in Nat /\ s.granted \in SUBSET AllTasks
<1>1. s.waiters \in Seq(AllTasks) /\ s.value \in Nat /\ s.granted \in SUBSET AllTasks
  BY DEF Semaphore
<1>2. DOMAIN s.waiters = 1 .. Len(s.waiters) /\ Len(s.waiters) \in Nat
  BY <1>1
<1>3. \A i \in DOMAIN s.waiters : s.waiters[i] \in AllTasks
  BY <1>1
<1>4. QED
  BY <1>1, <1>2, <1>3 DEF Queued

\* The first waiter without a slot gets the one there is.
LEMMA WakeNextHandsOver ==
  ASSUME NEW s \in Semaphore, s.value > 0,
         \A i, j \in DOMAIN s.waiters : s.waiters[i] = s.waiters[j] => i = j,
         s.granted \subseteq Queued(s)
  PROVE  /\ HandsOver(WakeNext(s)) /\ Queued(WakeNext(s)) = Queued(s)
         /\ s.granted \subseteq WakeNext(s).granted
         /\ \E u : WakeNext(s).granted \ s.granted \subseteq {u}
<1> DEFINE first == {i \in DOMAIN s.waiters :
                       /\ s.waiters[i] \notin s.granted
                       /\ \A j \in 1 .. i - 1 : s.waiters[j] \in s.granted}
           G == s.granted \cup {s.waiters[i] : i \in first}
<1>1. /\ DOMAIN s.waiters = 1 .. Len(s.waiters) /\ Len(s.waiters) \in Nat
      /\ s.granted \in SUBSET AllTasks
  BY QueuedTyped
<1>2. CASE first = {}
  <2>1. WakeNext(s) = s
    BY <1>2 DEF WakeNext
  <2>2. ASSUME NEW t \in Queued(s) \ s.granted PROVE FALSE
    <3> DEFINE F == {i \in DOMAIN s.waiters : s.waiters[i] \notin s.granted}
               id == [i \in F |-> i]
    <3>1. F # {}
      BY <2>2 DEF Queued
    <3>2. IsFiniteSet(F) /\ \A i \in F : id[i] \in Int
      <4>1. IsFiniteSet(1 .. Len(s.waiters)) /\ F \subseteq 1 .. Len(s.waiters)
        BY <1>1, FS_Interval
      <4>2. QED
        BY <4>1, FS_Subset
    <3> HIDE DEF F, id
    <3>3. PICK m \in F : \A j \in F : id[m] <= id[j]
      BY <3>1, <3>2, LeastExists
    <3>4. \A j \in F : m <= j
      BY <3>3 DEF id
    <3>5. m \in DOMAIN s.waiters /\ s.waiters[m] \notin s.granted /\ m \in Nat
      BY <1>1, <3>3 DEF F
    <3>6. ASSUME NEW j \in 1 .. m - 1 PROVE s.waiters[j] \in s.granted
      <4>1. j \in DOMAIN s.waiters /\ ~(m <= j)
        BY <1>1, <3>5
      <4>2. QED
        BY <3>4, <4>1 DEF F
    <3>7. QED
      BY <1>2, <3>5, <3>6
  <2>3. QED
    BY <2>1, <2>2 DEF HandsOver
<1>3. CASE first # {}
  <2>1. PICK i \in first : TRUE
    BY <1>3
  <2>2. \A k \in first : k = i
    <3>1. SUFFICES ASSUME NEW k \in first, k # i PROVE FALSE
      OBVIOUS
    <3>2. k \in 1 .. i - 1 \/ i \in 1 .. k - 1
      BY <1>1, <2>1, <3>1
    <3>3. QED
      BY <2>1, <3>1, <3>2
  <2>3. {s.waiters[k] : k \in first} = {s.waiters[i]}
    BY <2>1, <2>2
  <2> DEFINE w == s.waiters[i]
             g == s.granted \cup {w}
             after == [s EXCEPT !.value = @ - 1, !.granted = g]
  <2>4. WakeNext(s) = after
    BY <1>3, <2>3 DEF WakeNext
  <2>5. after.granted = g /\ after.waiters = s.waiters
    BY DEF Semaphore
  <2>6. w \in Queued(s)
    BY <2>1 DEF Queued
  <2> HIDE DEF after, g
  <2>7. Queued(after) = Queued(s)
    BY <2>5 DEF Queued
  <2>8. g # {} /\ g \subseteq Queued(s) /\ s.granted \subseteq g /\ g \ s.granted \subseteq {w}
    BY <2>6 DEF g
  <2>9. HandsOver(after)
    BY <2>5, <2>7, <2>8 DEF HandsOver
  <2>10. QED
    BY <2>4, <2>5, <2>7, <2>8, <2>9
<1>4. QED
  BY <1>2, <1>3

LEMMA ReleaseHandsOver ==
  ASSUME NEW s \in Semaphore, HandsOver(s)
  PROVE  /\ HandsOver(Release(s)) /\ Queued(Release(s)) = Queued(s)
         /\ s.granted \subseteq Release(s).granted
         /\ \E u : Release(s).granted \ s.granted \subseteq {u}
<1> DEFINE v == s.value + 1
           more == [s EXCEPT !.value = v]
<1>1. s.value \in Nat /\ v \in Nat /\ v > 0
  BY QueuedTyped
<1> HIDE DEF v
<1>2. more \in Semaphore /\ more.value = v /\ more.waiters = s.waiters
      /\ more.granted = s.granted
  BY <1>1 DEF Semaphore
<1>3. Release(s) = WakeNext(more)
  BY DEF Release, v
<1> HIDE DEF more
<1>4. Queued(more) = Queued(s)
  BY <1>2 DEF Queued
<1>5. /\ HandsOver(WakeNext(more)) /\ Queued(WakeNext(more)) = Queued(more)
      /\ more.granted \subseteq WakeNext(more).granted
      /\ \E u : WakeNext(more).granted \ more.granted \subseteq {u}
  <2>1. more.value > 0 /\ more.granted \subseteq Queued(more)
        /\ \A i, j \in DOMAIN more.waiters : more.waiters[i] = more.waiters[j] => i = j
    BY <1>1, <1>2, <1>4 DEF HandsOver
  <2>2. QED
    BY <1>2, <2>1, WakeNextHandsOver
<1>6. QED
  BY <1>2, <1>3, <1>4, <1>5

\* Who resumes leaves the queue, and only that one does.
LEMMA ResumeHandsOver ==
  ASSUME NEW s \in Semaphore, HandsOver(s), NEW t \in s.granted
  PROVE  /\ HandsOver(Resume(s, t)) /\ Queued(Resume(s, t)) = Queued(s) \ {t}
         /\ s.granted \ {t} \subseteq Resume(s, t).granted
         /\ \E u : Resume(s, t).granted \ s.granted \subseteq {u}
<1> DEFINE ws == s.waiters
           n == Len(s.waiters)
           at == CHOOSE i \in DOMAIN s.waiters : s.waiters[i] = t
           queue == [i \in 1 .. Len(s.waiters) - 1 |->
                       IF i < at THEN s.waiters[i] ELSE s.waiters[i + 1]]
           g == s.granted \ {t}
           left == [s EXCEPT !.waiters = queue, !.granted = g]
<1>1. /\ DOMAIN ws = 1 .. n /\ n \in Nat /\ ws \in Seq(AllTasks) /\ s.value \in Nat
      /\ s.granted \in SUBSET AllTasks
  BY QueuedTyped
<1>2. at \in 1 .. n /\ ws[at] = t
  <2>1. \E i \in DOMAIN ws : ws[i] = t
    BY DEF HandsOver, Queued
  <2>2. QED
    BY <1>1, <2>1
<1>3. \A i, j \in 1 .. n : ws[i] = ws[j] => i = j
  BY <1>1 DEF HandsOver
<1>4. Resume(s, t) = IF left.value > 0 THEN WakeNext(left) ELSE left
  BY DEF Resume
<1> HIDE DEF at
<1>5. /\ n - 1 \in Nat /\ DOMAIN queue = 1 .. n - 1
      /\ \A i \in 1 .. n - 1 : queue[i] = IF i < at THEN ws[i] ELSE ws[i + 1]
  BY <1>1, <1>2
<1>6. queue \in Seq(AllTasks)
  <2>1. \A i \in 1 .. n - 1 : i \in 1 .. n /\ i + 1 \in 1 .. n
    BY <1>1
  <2>2. \A i \in 1 .. n - 1 : ws[i] \in AllTasks /\ ws[i + 1] \in AllTasks
    BY <1>1, <2>1
  <2>3. \A i \in 1 .. n - 1 : queue[i] \in AllTasks
    BY <1>5, <2>2
  <2>4. queue \in [1 .. n - 1 -> AllTasks]
    BY <1>5, <2>3
  <2> HIDE DEF queue, n, ws
  <2>5. QED
    BY <1>5, <2>4, SeqDef
<1> HIDE DEF queue, n
<1>7. left \in Semaphore /\ left.value = s.value /\ left.waiters = queue /\ left.granted = g
  BY <1>1, <1>6 DEF Semaphore
<1> HIDE DEF left, ws
<1>8. \A i, j \in 1 .. n - 1 : queue[i] = queue[j] => i = j
  <2>1. SUFFICES ASSUME NEW i \in 1 .. n - 1, NEW j \in 1 .. n - 1, queue[i] = queue[j]
                 PROVE  i = j
    OBVIOUS
  <2> DEFINE a == IF i < at THEN i ELSE i + 1
             b == IF j < at THEN j ELSE j + 1
  <2>2. a \in 1 .. n /\ b \in 1 .. n /\ queue[i] = ws[a] /\ queue[j] = ws[b]
    BY <1>1, <1>2, <1>5
  <2>3. a = b
    BY <1>3, <2>1, <2>2
  <2>4. QED
    BY <1>1, <1>2, <2>3
<1>9. {queue[i] : i \in 1 .. n - 1} = {ws[i] : i \in 1 .. n} \ {t}
  <2>1. ASSUME NEW i \in 1 .. n - 1 PROVE queue[i] \in {ws[j] : j \in 1 .. n} \ {t}
    <3> DEFINE a == IF i < at THEN i ELSE i + 1
    <3>1. a \in 1 .. n /\ a # at /\ queue[i] = ws[a]
      BY <1>1, <1>2, <1>5
    <3>2. ws[a] # ws[at]
      BY <1>2, <1>3, <3>1
    <3>3. QED
      BY <1>2, <3>1, <3>2
  <2>2. ASSUME NEW j \in 1 .. n, ws[j] # t PROVE ws[j] \in {queue[i] : i \in 1 .. n - 1}
    <3> DEFINE i == IF j < at THEN j ELSE j - 1
    <3>1. j # at
      BY <1>2, <2>2
    <3>2. i \in 1 .. n - 1 /\ queue[i] = ws[j]
      BY <1>1, <1>2, <1>5, <3>1
    <3>3. QED
      BY <3>2
  <2>3. QED
    BY <2>1, <2>2
<1>10. Queued(left) = Queued(s) \ {t}
  BY <1>1, <1>5, <1>7, <1>9 DEF Queued, ws
<1>11. /\ \A i, j \in DOMAIN left.waiters : left.waiters[i] = left.waiters[j] => i = j
       /\ left.granted \subseteq Queued(left)
  BY <1>5, <1>7, <1>8, <1>10 DEF HandsOver
<1>12. CASE left.value > 0
  <2>1. /\ HandsOver(WakeNext(left)) /\ Queued(WakeNext(left)) = Queued(left)
        /\ left.granted \subseteq WakeNext(left).granted
        /\ \E u : WakeNext(left).granted \ left.granted \subseteq {u}
    BY <1>7, <1>11, <1>12, WakeNextHandsOver
  <2>2. PICK u : WakeNext(left).granted \ left.granted \subseteq {u}
    BY <2>1
  <2>3. WakeNext(left).granted \ s.granted \subseteq {u}
    BY <1>7, <2>2
  <2>4. Resume(s, t) = WakeNext(left)
    BY <1>4, <1>12
  <2>5. QED
    BY <1>7, <1>10, <2>1, <2>3, <2>4
<1>13. CASE ~(left.value > 0)
  <2>1. Resume(s, t) = left
    BY <1>4, <1>13
  <2>2. left.value = 0
    BY <1>1, <1>7, <1>13
  <2>3. HandsOver(left)
    BY <1>11, <2>2 DEF HandsOver
  <2>4. left.granted \ s.granted \subseteq {t}
    BY <1>7
  <2>5. QED
    BY <1>7, <1>10, <2>1, <2>3, <2>4
<1>14. QED
  BY <1>12, <1>13

-----------------------------------------------------------------------------
\* What is scheduled stays scheduled behind what is, and in front of what will be.
LEMMA SteppedOfBoth ==
  ASSUME NEW p \in Seq(Callback), NEW q \in Seq(Callback)
  PROVE  Stepped(p) \cup Stepped(q) \subseteq Stepped(p \o q)
<1>1. /\ Len(p \o q) = Len(p) + Len(q) /\ Len(p) \in Nat /\ Len(q) \in Nat
      /\ \A i \in 1 .. Len(p) + Len(q) :
           (p \o q)[i] = IF i <= Len(p) THEN p[i] ELSE q[i - Len(p)]
  BY ConcatProperties
<1>2. ASSUME NEW t \in Stepped(p) PROVE t \in Stepped(p \o q)
  <2>1. PICK i \in 1 .. Len(p) : p[i] = Step(t)
    BY <1>2 DEF Stepped
  <2>2. i \in 1 .. Len(p \o q) /\ (p \o q)[i] = Step(t)
    BY <1>1, <2>1
  <2>3. QED
    BY <1>2, <2>2 DEF Stepped
<1>3. ASSUME NEW t \in Stepped(q) PROVE t \in Stepped(p \o q)
  <2>1. PICK i \in 1 .. Len(q) : q[i] = Step(t)
    BY <1>3 DEF Stepped
  <2>2. i + Len(p) \in 1 .. Len(p \o q) /\ (p \o q)[i + Len(p)] = Step(t)
    BY <1>1, <2>1
  <2>3. QED
    BY <1>3, <2>2 DEF Stepped
<1>4. QED
  BY <1>2, <1>3

LEMMA SteppedOfOne == \A t \in AllTasks : Stepped(<<Step(t)>>) = {t}
<1> SUFFICES ASSUME NEW t \in AllTasks PROVE Stepped(<<Step(t)>>) = {t}
  OBVIOUS
<1>1. \A u \in AllTasks : Step(t) = Step(u) => t = u
  <2>1. \A u : Step(u).task = u
    BY DEF Step
  <2>2. QED
    BY <2>1
<1>2. QED
  BY <1>1 DEF Stepped

LEMMA SteppedAfter ==
  ASSUME NEW q \in Seq(Callback), q # <<>>
  PROVE  Stepped(q) \subseteq Stepped(Tail(q)) \cup {t \in AllTasks : Head(q) = Step(t)}
<1>1. /\ Len(Tail(q)) = Len(q) - 1 /\ Len(q) \in Nat /\ Head(q) = q[1]
      /\ \A i \in 1 .. Len(Tail(q)) : Tail(q)[i] = q[i + 1]
  BY HeadTailProperties
<1>2. SUFFICES ASSUME NEW t \in Stepped(q), Head(q) # Step(t) PROVE t \in Stepped(Tail(q))
  BY DEF Stepped
<1>3. PICK i \in 1 .. Len(q) : q[i] = Step(t)
  BY DEF Stepped
<1>4. i # 1
  BY <1>1, <1>2, <1>3
<1>5. i - 1 \in 1 .. Len(Tail(q)) /\ (i - 1) + 1 = i
  BY <1>1, <1>4
<1>6. Tail(q)[i - 1] = Step(t)
  BY <1>1, <1>3, <1>5
<1>7. QED
  BY <1>5, <1>6 DEF Stepped

\* Whoever is granted a slot is scheduled.
LEMMA WakeupsWake ==
  ASSUME NEW s \in Semaphore, NEW s2 \in Semaphore,
         \E u : s2.granted \ s.granted \subseteq {u}
  PROVE  s2.granted \ s.granted \subseteq Stepped(Wakeups(s, s2))
<1>1. CASE s2.granted \subseteq s.granted
  BY <1>1
<1>2. CASE ~(s2.granted \subseteq s.granted)
  <2> DEFINE w == CHOOSE t \in s2.granted : t \notin s.granted
  <2>1. \E t \in s2.granted : t \notin s.granted
    BY <1>2
  <2>2. w \in s2.granted /\ w \notin s.granted
    BY <2>1
  <2>3. w \in AllTasks
    BY <2>2, QueuedTyped
  <2>4. Wakeups(s, s2) = <<Step(w)>>
    BY <1>2 DEF Wakeups
  <2> HIDE DEF w
  <2>5. s2.granted \ s.granted \subseteq {w}
    BY <2>2
  <2>6. QED
    BY <2>3, <2>4, <2>5, SteppedOfOne
<1>3. QED
  BY <1>1, <1>2

\* The callbacks the end of an executor schedules: run() or not, a waiter or none, and the
\* discard of its Task.
LEMMA FinishShape ==
  ASSUME NEW t \in AllTasks, NEW s, NEW rest, Finish(t, s, rest)
  PROVE  /\ sem' = Release(s)
         /\ \E resumed \in {<<Main>>, <<>>} :
              loop' = ((rest \o resumed) \o Wakeups(s, Release(s))) \o <<Discard(t)>>
<1> DEFINE wakesMain(outcome) == outcome # "ABANDONED" /\ ~event /\ main = "waiting"
           after(outcome) == IF wakesMain(outcome) THEN <<Main>> ELSE <<>>
<1>1. PICK outcome \in {"COMPLETED", "FAILED", "ABANDONED"} :
        /\ sem' = Release(s)
        /\ loop' = rest \o after(outcome) \o Wakeups(s, Release(s)) \o <<Discard(t)>>
  BY DEF Finish
<1>2. after(outcome) \in {<<Main>>, <<>>}
  OBVIOUS
<1> HIDE DEF after
<1>3. QED
  BY <1>1, <1>2

LEMMA FinishSchedules ==
  ASSUME NEW t \in AllTasks, NEW s \in Semaphore, NEW rest \in Seq(Callback), Finish(t, s, rest)
  PROVE  Stepped(rest) \cup Stepped(Wakeups(s, Release(s))) \subseteq Stepped(loop')
<1> DEFINE woken == Wakeups(s, Release(s))
<1>0. PICK resumed \in {<<Main>>, <<>>} : loop' = ((rest \o resumed) \o woken) \o <<Discard(t)>>
  BY FinishShape
<1>1. resumed \in Seq(Callback) /\ <<Discard(t)>> \in Seq(Callback)
  BY Single
<1>2. woken \in Seq(Callback)
  BY ReleaseAdds, WakeupsOnlyStep
<1>3. loop' = ((rest \o resumed) \o woken) \o <<Discard(t)>>
  BY <1>0
<1> HIDE DEF woken
<1>4. rest \o resumed \in Seq(Callback) /\ Stepped(rest) \subseteq Stepped(rest \o resumed)
  BY <1>1, SteppedOfBoth, Concatenated
<1>5. /\ (rest \o resumed) \o woken \in Seq(Callback)
      /\ Stepped(rest \o resumed) \cup Stepped(woken) \subseteq Stepped((rest \o resumed) \o woken)
  BY <1>2, <1>4, SteppedOfBoth, Concatenated
<1>6. Stepped((rest \o resumed) \o woken) \subseteq Stepped(loop')
  BY <1>1, <1>3, <1>5, SteppedOfBoth
<1>7. QED
  BY <1>4, <1>5, <1>6 DEF woken

\* What Awake says of all tasks but t, which is about to enter the semaphore or leave it.
AwakeBut(t, q, s) ==
  /\ HandsOver(s)
  /\ t \notin Queued(s)
  /\ \A u \in Queued(s) : status[u] = "READY"
  /\ s.granted \subseteq Stepped(q)
  /\ \A u \in AllTasks \ {t} :
       status[u] = "READY" => u \in Stepped(q) \/ u \in Queued(s) \ s.granted

LEMMA ExecuteAwake ==
  ASSUME TypeOK, NEW t \in AllTasks, NEW s \in Semaphore, NEW rest \in Seq(Callback),
         AwakeBut(t, rest, s), Execute(t, s, rest)
  PROVE  Awake(status', loop', sem')
<1>1. CASE Finish(t, s, rest)
  <2>1. PICK outcome \in {"COMPLETED", "FAILED", "ABANDONED"} : status' = [status EXCEPT ![t] = outcome]
    BY <1>1 DEF Finish
  <2>2. \A u \in AllTasks : u # t => status'[u] = status[u]
    BY <2>1 DEF TypeOK
  <2>3. status'[t] # "READY"
    BY <2>1 DEF TypeOK
  <2>4. sem' = Release(s) /\ Release(s) \in Semaphore
    BY <1>1, ReleaseAdds DEF Finish
  <2>5. /\ HandsOver(sem') /\ Queued(sem') = Queued(s) /\ s.granted \subseteq sem'.granted
        /\ \E u : sem'.granted \ s.granted \subseteq {u}
    BY <2>4, ReleaseHandsOver DEF AwakeBut
  <2>6. Stepped(rest) \subseteq Stepped(loop') /\ sem'.granted \ s.granted \subseteq Stepped(loop')
    <3>1. sem'.granted \ s.granted \subseteq Stepped(Wakeups(s, Release(s)))
      BY <2>4, <2>5, WakeupsWake
    <3>2. QED
      BY <1>1, <3>1, FinishSchedules
  <2>7. Queued(s) \subseteq AllTasks
    BY QueuedTyped
  <2>8. \A u \in Queued(sem') : status'[u] = "READY"
    BY <2>2, <2>5, <2>7 DEF AwakeBut
  <2>9. sem'.granted \subseteq Stepped(loop')
    BY <2>6 DEF AwakeBut
  <2>10. \A u \in AllTasks :
           status'[u] = "READY" => u \in Stepped(loop') \/ u \in Queued(sem') \ sem'.granted
    BY <2>2, <2>3, <2>5, <2>6, <2>9 DEF AwakeBut
  <2>11. QED
    BY <2>5, <2>8, <2>9, <2>10 DEF Awake
<1>2. CASE ~Finish(t, s, rest)
  <2>1. status' = [status EXCEPT ![t] = "RUNNING"] /\ sem' = s /\ loop' = rest
    BY <1>2 DEF Execute
  <2>2. /\ \A u \in AllTasks : u # t => status'[u] = status[u]
        /\ status'[t] = "RUNNING"
    BY <2>1 DEF TypeOK
  <2>3. Queued(s) \subseteq AllTasks
    BY QueuedTyped
  <2>4. QED
    BY <2>1, <2>2, <2>3 DEF AwakeBut, Awake
<1>3. QED
  BY <1>1, <1>2

\* A callback of a task leaves nobody asleep for good.
LEMMA TaskAwake ==
  ASSUME TypeOK, Awake(status, loop, sem), NEW t \in AllTasks,
         TaskBegins(t) \/ TaskResumes(t) \/ TaskEnds(t)
  PROVE  Awake(status', loop', sem')
<1> DEFINE rest == Tail(loop)
<1>1. sem \in Semaphore /\ loop \in Seq(Callback) /\ loop # <<>> /\ Head(loop) = Step(t)
  BY DEF TypeOK, Semaphore, TaskBegins, TaskResumes, TaskEnds
<1>2. rest \in Seq(Callback)
  BY <1>1, Dequeued
<1>3. Stepped(loop) \subseteq Stepped(rest) \cup {t}
  <2>1. \A u \in AllTasks : Step(t) = Step(u) => t = u
    <3>1. \A u : Step(u).task = u
      BY DEF Step
    <3>2. QED
      BY <3>1
  <2>2. Stepped(loop) \subseteq Stepped(rest) \cup {u \in AllTasks : Head(loop) = Step(u)}
    BY <1>1, SteppedAfter
  <2> HIDE DEF rest
  <2>3. QED
    BY <1>1, <2>1, <2>2
<1> HIDE DEF rest
<1>4. /\ HandsOver(sem) /\ \A u \in Queued(sem) : status[u] = "READY"
      /\ sem.granted \subseteq Stepped(loop) /\ sem.granted \subseteq Queued(sem)
      /\ \A u \in AllTasks : status[u] = "READY" =>
           u \in Stepped(loop) \/ u \in Queued(sem) \ sem.granted
  BY DEF Awake, HandsOver
<1>5. /\ DOMAIN sem.waiters = 1 .. Len(sem.waiters) /\ Len(sem.waiters) \in Nat
      /\ sem.waiters \in Seq(AllTasks) /\ Queued(sem) \subseteq AllTasks /\ sem.value \in Nat
  BY <1>1, QueuedTyped
<1>6. CASE TaskBegins(t)
  <2>1. t \notin Queued(sem) /\ status[t] = "READY"
    BY <1>6 DEF TaskBegins, Queued
  <2>2. t \notin sem.granted
    BY <1>4, <2>1
  <2>3. CASE Locked
    <3> DEFINE ws == Append(sem.waiters, t)
               n == Len(sem.waiters)
    <3>1. sem' = [sem EXCEPT !.waiters = ws] /\ loop' = rest /\ status' = status
      BY <1>6, <2>3 DEF TaskBegins, rest
    <3>2. /\ DOMAIN ws = 1 .. n + 1 /\ ws[n + 1] = t
          /\ \A i \in 1 .. n : ws[i] = sem.waiters[i]
      BY <1>5
    <3> HIDE DEF ws
    <3>3. sem'.waiters = ws /\ sem'.value = sem.value /\ sem'.granted = sem.granted
      BY <1>1, <3>1 DEF Semaphore
    <3>4. \A i \in 1 .. n : sem.waiters[i] \in Queued(sem)
      BY <1>5 DEF Queued
    <3> HIDE DEF n
    <3>5. DOMAIN ws = DOMAIN sem.waiters \cup {n + 1} /\ n + 1 \notin DOMAIN sem.waiters
      BY <1>5, <3>2 DEF n
    <3>6. Queued(sem') = Queued(sem) \cup {t}
      <4>1. \A i \in DOMAIN sem.waiters : ws[i] = sem.waiters[i]
        BY <1>5, <3>2 DEF n
      <4>2. Queued(sem') = {ws[i] : i \in DOMAIN ws}
        BY <3>3 DEF Queued
      <4>3. {ws[i] : i \in DOMAIN ws} = {ws[i] : i \in DOMAIN sem.waiters} \cup {ws[n + 1]}
        BY <3>5
      <4>4. {ws[i] : i \in DOMAIN sem.waiters} = Queued(sem)
        BY <4>1 DEF Queued
      <4>5. ws[n + 1] = t
        BY <3>2
      <4>6. QED
        BY <4>2, <4>3, <4>4, <4>5
    <3>7. \A i, j \in DOMAIN ws : ws[i] = ws[j] => i = j
      <4>1. \A i \in DOMAIN sem.waiters : ws[i] = sem.waiters[i] /\ ws[i] # t
        BY <1>5, <2>1, <3>2, <3>4 DEF n
      <4>2. QED
        BY <1>4, <3>2, <3>5, <4>1 DEF HandsOver
    <3>8. sem.value = 0 \/ sem.granted # {}
      <4>1. CASE sem.waiters = <<>>
        BY <2>3, <4>1 DEF Locked
      <4>2. CASE sem.waiters # <<>>
        <5>1. 1 \in DOMAIN sem.waiters
          BY <1>5, <4>2
        <5>2. Queued(sem) # {}
          BY <5>1 DEF Queued
        <5>3. QED
          BY <1>4, <5>2 DEF HandsOver
      <4>3. QED
        BY <4>1, <4>2
    <3>9. HandsOver(sem')
      BY <1>4, <3>3, <3>6, <3>7, <3>8 DEF HandsOver
    <3>10. sem'.granted \subseteq Stepped(loop')
      BY <1>3, <1>4, <2>2, <3>1, <3>3
    <3>11. \A u \in Queued(sem') : status'[u] = "READY"
      BY <1>4, <2>1, <3>1, <3>6
    <3>12. \A u \in AllTasks :
             status'[u] = "READY" => u \in Stepped(loop') \/ u \in Queued(sem') \ sem'.granted
      BY <1>3, <1>4, <2>2, <3>1, <3>3, <3>6
    <3>13. QED
      BY <3>9, <3>10, <3>11, <3>12 DEF Awake
  <2>4. CASE ~Locked
    <3> DEFINE v == sem.value - 1
               taken == [sem EXCEPT !.value = v]
    <3>1. sem.value > 0 /\ sem.waiters = <<>> /\ v \in Nat
      BY <1>5, <2>4 DEF Locked
    <3>2. Execute(t, taken, rest)
      BY <1>6, <2>4 DEF TaskBegins, rest
    <3> HIDE DEF v
    <3>3. taken \in Semaphore /\ taken.waiters = <<>> /\ taken.granted = sem.granted
      BY <1>1, <3>1 DEF Semaphore
    <3>4. Queued(sem) = {} /\ Queued(taken) = {}
      BY <3>1, <3>3 DEF Queued
    <3> HIDE DEF taken
    <3>5. AwakeBut(t, rest, taken)
      <4>1. taken.granted = {}
        BY <1>4, <3>3, <3>4
      <4>2. HandsOver(taken)
        BY <3>3, <3>4, <4>1 DEF HandsOver
      <4>3. QED
        BY <1>3, <1>4, <3>4, <4>1, <4>2 DEF AwakeBut
    <3>6. QED
      BY <1>2, <3>2, <3>3, <3>5, ExecuteAwake
  <2>5. QED
    BY <2>3, <2>4
<1>7. CASE TaskResumes(t)
  <2> DEFINE resumed == Resume(sem, t)
             wakes == Wakeups(sem, resumed)
             queue == rest \o wakes
  <2>1. status[t] = "READY" /\ t \in sem.granted /\ Execute(t, resumed, queue)
    BY <1>7 DEF TaskResumes, rest
  <2>2. /\ resumed \in Semaphore
        /\ HandsOver(resumed) /\ Queued(resumed) = Queued(sem) \ {t}
        /\ sem.granted \ {t} \subseteq resumed.granted
        /\ \E u : resumed.granted \ sem.granted \subseteq {u}
    BY <1>1, <1>4, <2>1, ResumeHandsOver, ResumeTakes
  <2> HIDE DEF resumed
  <2>3. wakes \in Seq(Callback) /\ resumed.granted \ sem.granted \subseteq Stepped(wakes)
    BY <1>1, <2>2, WakeupsOnlyStep, WakeupsWake
  <2> HIDE DEF wakes
  <2>4. queue \in Seq(Callback) /\ Stepped(rest) \cup Stepped(wakes) \subseteq Stepped(queue)
    BY <1>2, <2>3, SteppedOfBoth, Concatenated
  <2> HIDE DEF queue
  <2>5. t \notin resumed.granted
    BY <2>2 DEF HandsOver
  <2>6. resumed.granted \subseteq Stepped(queue)
    BY <1>3, <1>4, <2>3, <2>4, <2>5
  <2>7. AwakeBut(t, queue, resumed)
    BY <1>3, <1>4, <2>2, <2>3, <2>4, <2>6 DEF AwakeBut
  <2>8. QED
    BY <2>1, <2>2, <2>4, <2>7, ExecuteAwake
<1>8. CASE TaskEnds(t)
  <2>1. status[t] = "RUNNING" /\ Execute(t, sem, rest)
    BY <1>8 DEF TaskEnds, rest, Execute
  <2>2. t \notin Queued(sem)
    BY <1>4, <2>1
  <2>3. t \notin sem.granted
    BY <1>4, <2>2
  <2>4. AwakeBut(t, rest, sem)
    BY <1>3, <1>4, <2>2, <2>3 DEF AwakeBut
  <2>5. QED
    BY <1>1, <1>2, <2>1, <2>4, ExecuteAwake
<1>9. QED
  BY <1>6, <1>7, <1>8

\* While run() waits, what a callback of a task does leaves nothing ready, and run() is
\* woken when the task ends with an outcome.
LEMMA TaskKeepsWatch ==
  ASSUME SafetyInv, WakeInv, NEW t \in AllTasks,
         TaskBegins(t) \/ TaskResumes(t) \/ TaskEnds(t)
  PROVE  /\ main' = "waiting" => ~event'
         /\ main' \in {"waiting", "gathering", "returned"} => ReadyTasks' = {}
<1>1. TypeOK /\ Moves(t)
  BY TaskMoves DEF SafetyInv
<1>2. main \in {"waiting", "woken"}
  <2>1. t \in Active
    BY <1>1 DEF Moves, Active
  <2>2. QED
    BY <1>1, <2>1 DEF SafetyInv, ActiveAreRunning, TypeOK
<1>3. main' \in {"waiting", "woken"} /\ (main' = "waiting" => main = "waiting")
  BY <1>1, <1>2 DEF Moves
<1>4. SUFFICES ASSUME main' = "waiting" PROVE ~event' /\ ReadyTasks' = {}
  BY <1>3
<1>5. main = "waiting" /\ ~event /\ ReadyTasks = {}
  BY <1>3, <1>4 DEF WakeInv
<1>6. ASSUME NEW s, NEW rest, Finish(t, s, rest)
      PROVE  ~event' /\ status' = [status EXCEPT ![t] = "ABANDONED"]
  <2>1. PICK outcome \in {"COMPLETED", "FAILED", "ABANDONED"} :
          /\ status' = [status EXCEPT ![t] = outcome]
          /\ event' = (event \/ outcome # "ABANDONED")
          /\ main' = IF outcome # "ABANDONED" /\ ~event /\ main = "waiting" THEN "woken" ELSE main
    BY <1>6 DEF Finish
  <2>2. outcome = "ABANDONED"
    BY <1>4, <1>5, <2>1
  <2>3. QED
    BY <1>5, <2>1, <2>2
<1>7. /\ ~event'
      /\ \/ status' = status
         \/ status' = [status EXCEPT ![t] = "RUNNING"]
         \/ status' = [status EXCEPT ![t] = "ABANDONED"]
      /\ status[t] \in {"READY", "RUNNING"}
  <2>1. CASE \E s, rest : Finish(t, s, rest)
    BY <1>1, <1>6, <2>1 DEF Moves
  <2>2. CASE ~ \E s, rest : Finish(t, s, rest)
    <3>1. /\ event' = event
          /\ status' = status \/ status' = [status EXCEPT ![t] = "RUNNING"]
      BY <2>2, Zenon DEF TaskBegins, TaskResumes, TaskEnds, Execute
    <3>2. QED
      BY <1>1, <1>5, <3>1 DEF Moves
  <2>3. QED
    BY <2>1, <2>2
<1>8. Tasks' = Tasks /\ dependsOn' = dependsOn
  BY <1>1 DEF Moves, client, Tasks
<1>9. /\ \A u \in AllTasks : status'[u] = "PENDING" => status[u] = "PENDING"
      /\ \A u \in AllTasks : status'[u] = "COMPLETED" => status[u] = "COMPLETED"
  BY <1>1, <1>7 DEF TypeOK
<1>10. Tasks \subseteq AllTasks
  BY <1>1, SchedulerAssumption DEF TypeOK, Tasks, AllTasks
<1>11. ReadyTasks' \subseteq ReadyTasks
  BY <1>8, <1>9, <1>10 DEF ReadyTasks, DepsMet
<1>12. QED
  BY <1>5, <1>7, <1>11, Zenon

-----------------------------------------------------------------------------
\* One pass schedules every task it finds ready: the list it sorts has each of them.
LEMMA ReadyAreStepped ==
  ASSUME TypeOK, NEW ready \in ByPriority(ReadyTasks)
  PROVE  ReadyTasks \subseteq Stepped([i \in 1 .. Len(ready) |-> Step(ready[i])])
<1> DEFINE n == Cardinality(ReadyTasks)
           steps == [i \in 1 .. Len(ready) |-> Step(ready[i])]
<1>1. ReadyTasks \in SUBSET AllTasks
  BY SchedulerAssumption DEF ReadyTasks, Tasks, AllTasks, TypeOK
<1>2. n \in Nat /\ IsFiniteSet(ReadyTasks)
  BY <1>1, TasksFinite
<1>3. /\ ready \in [1 .. n -> ReadyTasks]
      /\ \A i, j \in 1 .. n : i < j => Before(ready[i], ready[j])
  BY DEF ByPriority
<1> HIDE DEF n
<1>4. \A i, j \in 1 .. n : i < j => ready[i] # ready[j]
  <2>1. SUFFICES ASSUME NEW i \in 1 .. n, NEW j \in 1 .. n, i < j, ready[i] = ready[j]
                 PROVE  FALSE
    OBVIOUS
  <2>2. ready[j] \in AllTasks /\ Before(ready[j], ready[j])
    BY <1>1, <1>3, <2>1
  <2>3. ready[j] \in Int /\ priority[ready[j]] \in Int
    BY <2>2, SchedulerAssumption DEF TypeOK, AllTasks
  <2>4. QED
    BY <2>2, <2>3 DEF Before
<1>5. \A i, j \in 1 .. n : ready[i] = ready[j] => i = j
  <2>1. \A i, j \in 1 .. n : i # j => i < j \/ j < i
    BY <1>2
  <2>2. QED
    BY <1>4, <2>1
<1>6. \A u \in ReadyTasks : \E i \in 1 .. n : ready[i] = u
  <2>1. IsFiniteSet(1 .. n) /\ Cardinality(1 .. n) = n
    <3>1. IsFiniteSet(1 .. n) /\ Cardinality(1 .. n) = IF 1 > n THEN 0 ELSE n - 1 + 1
      BY <1>2, FS_Interval
    <3>2. QED
      BY <1>2, <3>1
  <2>2. ready \in Injection(1 .. n, ReadyTasks)
    BY <1>3, <1>5 DEF Injection, IsInjective
  <2>3. Cardinality(1 .. n) = Cardinality(ReadyTasks)
    BY <2>1 DEF n
  <2>4. ready \in Surjection(1 .. n, ReadyTasks)
    BY <1>2, <2>1, <2>2, <2>3, FS_Injection
  <2>5. QED
    BY <2>4 DEF Surjection
<1>7. Len(ready) = n
  BY <1>2, <1>3
<1>8. steps = [i \in 1 .. n |-> Step(ready[i])]
  BY <1>7
<1> HIDE DEF steps
<1>9. Len(steps) = n /\ \A i \in 1 .. n : steps[i] = Step(ready[i])
  BY <1>2, <1>8
<1>10. ReadyTasks \subseteq Stepped(steps)
  <2> SUFFICES ASSUME NEW u \in ReadyTasks PROVE u \in Stepped(steps)
    OBVIOUS
  <2>1. PICK i \in 1 .. n : ready[i] = u
    BY <1>6
  <2>2. QED
    BY <1>1, <1>9, <2>1 DEF Stepped
<1>11. QED
  BY <1>10 DEF steps

\* A pass leaves nothing ready unscheduled, and nobody the semaphore should wake.
LEMMA PassAwake ==
  ASSUME TypeOK, GraphIsClosed, NEW tasks \in SUBSET AllTasks, NEW rest \in Seq(Callback),
         SchedulingPass(tasks, rest), UNCHANGED client,
         sem' \in Semaphore, Awake(status, rest, sem')
  PROVE  WakeInv'
<1>1. ReadyTasks \in SUBSET AllTasks /\ \A t \in ReadyTasks : status[t] = "PENDING"
  BY SchedulerAssumption DEF ReadyTasks, Tasks, AllTasks, TypeOK
<1>2. status' = [t \in AllTasks |-> IF t \in ReadyTasks THEN "READY" ELSE status[t]]
  BY DEF SchedulingPass
<1>3. /\ \A t \in ReadyTasks : status'[t] = "READY"
      /\ \A t \in AllTasks \ ReadyTasks : status'[t] = status[t]
  BY <1>1, <1>2
<1>4. /\ Stepped(rest) \cup ReadyTasks \subseteq Stepped(loop')
      /\ main' = "waiting" => ~event'
  <2>1. CASE Finished
    <3>1. ReadyTasks = {} /\ main' # "waiting"
      BY <2>1 DEF Finished, ReadyTasks, SchedulingPass
    <3>2. loop' = rest \/ loop' = Append(rest, Main)
      BY <2>1 DEF SchedulingPass
    <3>3. Append(rest, Main) = rest \o <<Main>> /\ <<Main>> \in Seq(Callback)
      BY Single, AppendIsConcat
    <3>4. Stepped(rest) \subseteq Stepped(rest \o <<Main>>)
      BY <3>3, SteppedOfBoth
    <3>5. QED
      BY <3>1, <3>2, <3>3, <3>4
  <2>2. CASE ~Finished /\ ~NothingInFlight(tasks \cup ReadyTasks)
    <3>1. PICK ready \in ByPriority(ReadyTasks) :
            loop' = rest \o [i \in 1 .. Len(ready) |-> Step(ready[i])]
      BY <2>2 DEF SchedulingPass
    <3> DEFINE steps == [i \in 1 .. Len(ready) |-> Step(ready[i])]
    <3>2. steps \in Seq(Callback) /\ ReadyTasks \subseteq Stepped(steps) /\ loop' = rest \o steps
      BY <3>1, ReadySteps, ReadyAreStepped
    <3> HIDE DEF steps
    <3>3. Stepped(rest) \cup Stepped(steps) \subseteq Stepped(loop')
      BY <3>2, SteppedOfBoth
    <3>4. ~event'
      <4>1. event' = FALSE
        BY <2>2, Zenon DEF SchedulingPass
      <4>2. QED
        BY <4>1, Zenon
    <3>5. QED
      BY <3>2, <3>3, <3>4
  <2>3. CASE ~Finished /\ NothingInFlight(tasks \cup ReadyTasks)
    BY <2>3 DEF SchedulingPass, NothingInFlight
  <2>4. QED
    BY <2>1, <2>2, <2>3
<1>5. Awake(status', loop', sem')
  <2>1. /\ HandsOver(sem') /\ \A t \in Queued(sem') : status[t] = "READY"
        /\ sem'.granted \subseteq Stepped(rest)
        /\ \A t \in AllTasks : status[t] = "READY" =>
             t \in Stepped(rest) \/ t \in Queued(sem') \ sem'.granted
    BY DEF Awake
  <2>2. Queued(sem') \subseteq AllTasks
    BY QueuedTyped
  <2>3. \A t \in Queued(sem') : status'[t] = "READY"
    BY <1>3, <2>1, <2>2
  <2>4. \A t \in AllTasks : status'[t] = "READY" =>
          t \in Stepped(loop') \/ t \in Queued(sem') \ sem'.granted
    BY <1>3, <1>4, <2>1
  <2>5. QED
    BY <1>4, <2>1, <2>3, <2>4 DEF Awake
<1>6. ReadyTasks' = {}
  <2>1. Tasks' = Tasks /\ dependsOn' = dependsOn /\ Tasks \subseteq AllTasks
    BY SchedulerAssumption DEF TypeOK, client, Tasks, AllTasks
  <2>2. ASSUME NEW t \in ReadyTasks' PROVE t \in ReadyTasks /\ t \notin ReadyTasks
    <3>1. t \in Tasks /\ status'[t] = "PENDING"
          /\ \A d \in dependsOn[t] \cap Tasks : status'[d] = "COMPLETED"
      BY <2>1, <2>2 DEF ReadyTasks, DepsMet
    <3>2. \A d \in Tasks : status'[d] = "COMPLETED" => status[d] = "COMPLETED"
      BY <1>3, <2>1
    <3>3. t \notin ReadyTasks /\ status[t] = "PENDING"
      BY <1>3, <2>1, <3>1
    <3>4. QED
      BY <3>1, <3>2, <3>3 DEF ReadyTasks, DepsMet
  <2>3. QED
    BY <2>2
<1>7. QED
  BY <1>4, <1>5, <1>6 DEF WakeInv

-----------------------------------------------------------------------------
LEMMA NobodyWaits ==
  ASSUME NEW s, s.waiters = <<>>, s.granted = {}
  PROVE  Queued(s) = {} /\ HandsOver(s)
BY DEF Queued, HandsOver

LEMMA WakeInit == Init => WakeInv
<1> SUFFICES ASSUME Init PROVE WakeInv
  OBVIOUS
<1>1. sem.waiters = <<>> /\ sem.granted = {} /\ main = "idle"
  BY DEF Init
<1>2. \A t \in AllTasks : status[t] = "PENDING"
  BY DEF Init
<1>3. Awake(status, loop, sem)
  BY <1>1, <1>2, NobodyWaits DEF Awake
<1>4. QED
  BY <1>1, <1>3 DEF WakeInv

LEMMA WakeStep == SafetyInv /\ SafetyInv' /\ WakeInv /\ [Next]_vars => WakeInv'
<1> SUFFICES ASSUME SafetyInv, SafetyInv', WakeInv, [Next]_vars PROVE WakeInv'
  OBVIOUS
<1> TypeOK /\ TypeOK' /\ GraphIsClosed
  BY DEF SafetyInv
<1> loop \in Seq(Callback) /\ sem \in Semaphore /\ sem' \in Semaphore
  BY DEF TypeOK, Semaphore
<1> Awake(status, loop, sem)
  BY DEF WakeInv
<1>1. ASSUME NEW deps \in DependencySets, NEW p \in Priorities, AddTask(deps, p)
      PROVE  WakeInv'
  <2>1. status' = status /\ loop' = loop /\ sem' = sem /\ main' = "idle"
    BY <1>1 DEF AddTask
  <2>2. QED
    BY <2>1 DEF WakeInv, Awake
<1>2. CASE Reset
  <2>1. /\ loop = <<>> /\ loop' = loop /\ sem' = sem /\ main' = "idle"
        /\ main \in {"idle", "returned", "raised"}
    BY <1>2 DEF Reset, Idle
  <2>2. \A t \in AllTasks : status[t] # "READY"
    BY <2>1 DEF SafetyInv, ActiveAreRunning, Active
  <2>3. \A t \in AllTasks : status'[t] = "PENDING"
    BY <1>2 DEF Reset
  <2>4. Queued(sem) = {}
    BY <2>2, QueuedTyped DEF Awake
  <2>5. Awake(status', loop', sem')
    BY <2>1, <2>3, <2>4 DEF Awake
  <2>6. QED
    BY <2>1, <2>5 DEF WakeInv
<1>3. CASE RunRaises
  <2>1. status' = status /\ loop' = loop /\ sem' = sem /\ main' = "raised"
    BY <1>3 DEF RunRaises
  <2>2. QED
    BY <2>1 DEF WakeInv
<1>4. CASE RunStarts
  <2>1. /\ main \in {"idle", "returned", "raised"} /\ SchedulingPass({}, <<>>)
        /\ UNCHANGED client
        /\ sem' = [value |-> concurrency, waiters |-> <<>>, granted |-> {}]
    BY <1>4 DEF RunStarts, Idle
  <2>2. sem'.waiters = <<>> /\ sem'.granted = {}
    BY <2>1
  <2>3. \A t \in AllTasks : status[t] # "READY"
    BY <2>1 DEF SafetyInv, ActiveAreRunning, Active
  <2>4. HandsOver(sem') /\ Queued(sem') = {}
    BY <2>2, NobodyWaits
  <2>5. Awake(status, <<>>, sem')
    BY <2>2, <2>3, <2>4 DEF Awake
  <2>6. QED
    BY <2>1, <2>5, PassAwake, Single
<1>5. CASE RunWakes
  <2> DEFINE rest == Tail(loop)
  <2>1. /\ loop # <<>> /\ Head(loop) = Main /\ SchedulingPass(running, rest)
        /\ UNCHANGED client /\ sem' = sem
    BY <1>5 DEF RunWakes
  <2>2. rest \in Seq(Callback) /\ Stepped(loop) \subseteq Stepped(rest)
    <3>1. \A t : Main # Step(t)
      <4>1. Main.cb = "main" /\ \A t : Step(t).cb = "step"
        BY DEF Main, Step
      <4>2. QED
        BY <4>1
    <3>2. Stepped(loop) \subseteq Stepped(rest) \cup {t \in AllTasks : Head(loop) = Step(t)}
      BY <2>1, SteppedAfter
    <3>3. rest \in Seq(Callback)
      BY <2>1, Dequeued
    <3> HIDE DEF rest
    <3>4. QED
      BY <2>1, <3>1, <3>2, <3>3
  <2> HIDE DEF rest
  <2>3. Awake(status, rest, sem')
    <3>1. Awake(status, rest, sem)
      BY <2>2 DEF Awake
    <3>2. QED
      BY <2>1, <3>1
  <2>4. running \in SUBSET AllTasks
    BY DEF TypeOK
  <2>5. QED
    BY <2>1, <2>2, <2>3, <2>4, PassAwake
<1>6. ASSUME NEW t \in AllTasks,
             RunReturns \/ ExecutorResolves(t) \/ TaskDiscarded(t)
      PROVE  WakeInv'
  <2>1. /\ UNCHANGED <<status, sem, event>> /\ UNCHANGED client
        /\ main' = main \/ (main = "gathering" /\ main' = "returned")
    BY <1>6 DEF RunReturns, ExecutorResolves, TaskDiscarded
  <2>2. Stepped(loop) \subseteq Stepped(loop')
    <3>1. CASE RunReturns \/ TaskDiscarded(t)
      <4>1. loop # <<>> /\ loop' = Tail(loop) /\ Head(loop) \in {Main, Discard(t)}
        BY <3>1 DEF RunReturns, TaskDiscarded
      <4>2. \A u : Step(u) \notin {Main, Discard(t)}
        <5>1. /\ Main.cb = "main" /\ Discard(t).cb = "discard"
              /\ \A u : Step(u).cb = "step"
          BY DEF Main, Step, Discard
        <5>2. QED
          BY <5>1
      <4>3. Stepped(loop) \subseteq Stepped(loop') \cup {u \in AllTasks : Head(loop) = Step(u)}
        BY <4>1, SteppedAfter
      <4>4. QED
        BY <4>1, <4>2, <4>3
    <3>2. CASE ExecutorResolves(t)
      <4>1. Step(t) \in Callback /\ <<Step(t)>> \in Seq(Callback)
        BY Single
      <4>2. loop' = Append(loop, Step(t))
        BY <3>2 DEF ExecutorResolves
      <4>3. loop' = loop \o <<Step(t)>>
        BY <4>1, <4>2, AppendIsConcat
      <4>4. QED
        BY <4>1, <4>3, SteppedOfBoth
    <3>3. QED
      BY <1>6, <3>1, <3>2
  <2>3. Awake(status', loop', sem')
    <3>1. Awake(status, loop', sem)
      BY <2>2 DEF Awake
    <3>2. QED
      BY <2>1, <3>1
  <2>4. /\ main' = "waiting" => main = "waiting"
        /\ main' \in {"waiting", "gathering", "returned"} =>
             main \in {"waiting", "gathering", "returned"}
    BY <2>1
  <2>5. ReadyTasks' = ReadyTasks
    BY <2>1 DEF ReadyTasks, DepsMet, Tasks, client
  <2>6. main' = "waiting" => ~event'
    BY <2>1, <2>4, Zenon DEF WakeInv
  <2>7. QED
    BY <2>3, <2>4, <2>5, <2>6 DEF WakeInv
<1>7. ASSUME NEW t \in AllTasks, TaskBegins(t) \/ TaskResumes(t) \/ TaskEnds(t)
      PROVE  WakeInv'
  <2>1. Awake(status', loop', sem')
    BY <1>7, TaskAwake
  <2>2. /\ main' = "waiting" => ~event'
        /\ main' \in {"waiting", "gathering", "returned"} => ReadyTasks' = {}
    BY <1>7, TaskKeepsWatch
  <2>3. QED
    BY <2>1, <2>2 DEF WakeInv
<1>8. CASE UNCHANGED vars
  <2>1. UNCHANGED <<status, loop, sem, main, event>> /\ UNCHANGED client
    BY <1>8 DEF vars
  <2>2. QED
    BY <2>1 DEF WakeInv, Awake, ReadyTasks, DepsMet, Tasks, client
<1>9. CASE RunReturns
  <2>1. AllTasks = {} \/ \E t : t \in AllTasks
    OBVIOUS
  <2>2. CASE AllTasks = {}
    <3>1. UNCHANGED <<status, sem, event>> /\ UNCHANGED client /\ main' = "returned"
          /\ main = "gathering"
      BY <1>9 DEF RunReturns
    <3>2. ReadyTasks' = ReadyTasks /\ Stepped(loop) = {} /\ Stepped(loop') = {}
      BY <2>2, <3>1 DEF ReadyTasks, DepsMet, Tasks, client, Stepped
    <3>3. QED
      BY <3>1, <3>2 DEF WakeInv, Awake
  <2>3. QED
    BY <1>6, <1>9, <2>1, <2>2
<1>10. QED
  BY <1>1, <1>2, <1>3, <1>4, <1>5, <1>6, <1>7, <1>8, <1>9 DEF Next, LoopStep

\* However slots are handed over, wake-ups queue behind each other and executors end, no
\* wake-up is lost: run() never waits beside work that could go on without it noticing.
THEOREM WakeupsAreKept == Spec => []WakeInv
<1>1. Init => SafetyInv /\ WakeInv
  BY SafetyInit, WakeInit
<1>2. SafetyInv /\ WakeInv /\ [Next]_vars => (SafetyInv /\ WakeInv)'
  BY SafetyStep, WakeStep
<1>3. QED
  BY <1>1, <1>2, PTL DEF Spec

\* When run() has returned, or waits with nothing left to wake it (scheduler.py:205-211),
\* whatever has not ended depends on something that failed or could not start itself.
THEOREM OnlyTheBlockedAreLeft == Spec => []LeavesOnlyTheBlocked
<1>1. SafetyInv /\ WakeInv => LeavesOnlyTheBlocked
  <2> SUFFICES ASSUME SafetyInv, WakeInv, main = "returned" \/ Stalled, NEW t \in Tasks,
                      status[t] \notin {"COMPLETED", "FAILED", "ABANDONED"}
               PROVE  /\ status[t] = "PENDING"
                      /\ \E d \in dependsOn[t] : status[d] \in {"FAILED", "ABANDONED", "PENDING"}
    BY DEF LeavesOnlyTheBlocked
  <2>1. TypeOK /\ Tasks \subseteq AllTasks /\ ReadyTasks = {}
    <3>1. ReadyTasks = {}
      BY DEF WakeInv, Stalled
    <3>2. Tasks \subseteq AllTasks
      BY SchedulerAssumption DEF SafetyInv, TypeOK, Tasks, AllTasks
    <3>3. QED
      BY <3>1, <3>2 DEF SafetyInv
  <2>2. \A u \in AllTasks : status[u] # "RUNNING"
    BY DEF SafetyInv, ActiveAreRunning, Active, Stalled
  <2>3. \A u \in AllTasks : status[u] # "READY"
    <3>1. CASE main = "returned"
      BY <3>1 DEF SafetyInv, ActiveAreRunning, Active
    <3>2. ASSUME Stalled, NEW u \in AllTasks, status[u] = "READY" PROVE FALSE
      <4>1. sem \in Semaphore /\ Len(loop) = 0
        BY <2>1, <3>2 DEF TypeOK, Semaphore, Stalled
      <4>2. Stepped(loop) = {}
        BY <4>1 DEF Stepped
      <4>3. sem.granted = {} /\ sem.value = 0
        BY <3>2, <4>2 DEF WakeInv, Awake, HandsOver
      <4>4. Executing = {}
        BY <2>2 DEF Executing
      <4>5. Slots(sem) = 0 /\ Cardinality(Executing) = 0
        BY <4>3, <4>4, FS_EmptySet DEF Slots
      <4>6. concurrency = 0
        BY <4>5 DEF SafetyInv, SlotsConserved
      <4>7. QED
        BY <2>1, <4>6, SchedulerAssumption DEF TypeOK
    <3>3. QED
      BY <3>1, <3>2
  <2>4. status[t] = "PENDING"
    BY <2>1, <2>2, <2>3 DEF TypeOK, Status
  <2>5. PICK d \in dependsOn[t] \cap Tasks : status[d] # "COMPLETED"
    BY <2>1, <2>4 DEF ReadyTasks, DepsMet
  <2>6. status[d] \in {"FAILED", "ABANDONED", "PENDING"}
    BY <2>1, <2>2, <2>3, <2>5 DEF TypeOK, Status
  <2>7. QED
    BY <2>4, <2>5, <2>6
<1>2. QED
  BY <1>1, Safety, WakeupsAreKept, PTL

-----------------------------------------------------------------------------
(***************************************************************************)
(* topological_sort.                                                       *)
(***************************************************************************)
Members(q) == {q[i] : i \in DOMAIN q}

\* A list of registered tasks with nobody in it twice.
Listing(q) == q \in Seq(Tasks) /\ Len(q) = Cardinality(Members(q))

LEMMA TasksCounted ==
  ASSUME TypeOK
  PROVE  /\ Tasks \in SUBSET AllTasks /\ Cardinality(Tasks) = registered
         /\ registered \in Nat /\ registered <= MaxTasks /\ MaxTasks \in Nat
         /\ \A S \in SUBSET Tasks : IsFiniteSet(S) /\ Cardinality(S) \in Nat
<1>1. registered \in Nat /\ registered <= MaxTasks /\ MaxTasks \in Nat
  BY SchedulerAssumption DEF TypeOK
<1>2. Tasks \in SUBSET AllTasks
  BY <1>1 DEF Tasks, AllTasks
<1>3. Cardinality(Tasks) = registered
  <2>1. Cardinality(1 .. registered) = IF 1 > registered THEN 0 ELSE registered - 1 + 1
    BY <1>1, FS_Interval
  <2>2. QED
    BY <1>1, <2>1 DEF Tasks
<1>4. QED
  BY <1>1, <1>2, <1>3, TasksFinite

\* A list of n places holds at most n tasks.
LEMMA MembersCounted ==
  ASSUME TypeOK, NEW q \in Seq(Tasks)
  PROVE  /\ DOMAIN q = 1 .. Len(q) /\ Len(q) \in Nat
         /\ \A i \in 1 .. Len(q) : q[i] \in Tasks
         /\ Members(q) \in SUBSET Tasks /\ IsFiniteSet(Members(q))
         /\ Cardinality(Members(q)) \in Nat /\ Cardinality(Members(q)) <= Len(q)
<1>1. /\ DOMAIN q = 1 .. Len(q) /\ Len(q) \in Nat
      /\ \A i \in 1 .. Len(q) : q[i] \in Tasks
  OBVIOUS
<1>2. Members(q) \in SUBSET Tasks
  BY <1>1 DEF Members
<1>3. IsFiniteSet(Members(q)) /\ Cardinality(Members(q)) \in Nat
  BY <1>2, TasksCounted
<1>4. Cardinality(Members(q)) <= Len(q)
  <2>1. q \in [1 .. Len(q) -> Members(q)]
    BY <1>1 DEF Members
  <2>2. q \in Surjection(1 .. Len(q), Members(q))
    BY <1>1, <2>1 DEF Surjection, Members
  <2>3. ExistsSurjection(1 .. Len(q), Members(q))
    BY <2>2 DEF ExistsSurjection
  <2>4. QED
    BY <1>1, <2>3, FS_SurjCardinalityBound
<1>5. QED
  BY <1>1, <1>2, <1>3, <1>4

\* One task more, at a place of its own.
LEMMA OneMore ==
  ASSUME TypeOK, NEW q, Listing(q), NEW t \in Tasks, t \notin Members(q),
         NEW e \in Seq(Tasks), Len(e) = Len(q) + 1, Members(e) = Members(q) \cup {t}
  PROVE  Listing(e)
<1>1. q \in Seq(Tasks) /\ Len(q) = Cardinality(Members(q)) /\ IsFiniteSet(Members(q))
  BY MembersCounted DEF Listing
<1>2. Cardinality(Members(q) \cup {t}) = Cardinality(Members(q)) + 1
  BY <1>1, FS_AddElement
<1>3. QED
  BY <1>1, <1>2 DEF Listing

\* The sort by priority moves nobody in or out.
LEMMA EnqueueAdds ==
  ASSUME TypeOK, NEW q, Listing(q), NEW t \in Tasks, t \notin Members(q)
  PROVE  Listing(Enqueue(q, t)) /\ Members(Enqueue(q, t)) = Members(q) \cup {t}
<1> DEFINE n == Len(q)
           A == {i \in DOMAIN q : priority[q[i]] >= priority[t]}
           a == Cardinality(A)
           front == SubSeq(q, 1, a)
           back == SubSeq(q, a + 1, n)
           e == front \o <<t>> \o back
<1>1. q \in Seq(Tasks) /\ DOMAIN q = 1 .. n /\ n \in Nat /\ \A i \in 1 .. n : q[i] \in Tasks
  BY MembersCounted DEF Listing
<1>2. a \in Nat /\ a <= n
  <2>1. IsFiniteSet(1 .. n) /\ Cardinality(1 .. n) = n
    <3>1. IsFiniteSet(1 .. n) /\ Cardinality(1 .. n) = IF 1 > n THEN 0 ELSE n - 1 + 1
      BY <1>1, FS_Interval
    <3>2. QED
      BY <1>1, <3>1
  <2>2. A \in SUBSET (1 .. n)
    BY <1>1
  <2> HIDE DEF A, n
  <2>3. QED
    BY <2>1, <2>2, FS_Subset, FS_CardinalityType
<1>3. Enqueue(q, t) = e
  BY DEF Enqueue
<1> HIDE DEF a, n
<1>4. /\ front \in Seq(Tasks) /\ Len(front) = a
      /\ \A i \in 1 .. a : front[i] = q[i]
  <2>1. \A i \in 1 .. a : q[i] \in Tasks
    BY <1>1, <1>2
  <2>2. /\ front \in Seq(Tasks) /\ Len(front) = IF 1 <= a THEN a - 1 + 1 ELSE 0
        /\ \A i \in 1 .. a - 1 + 1 : front[i] = q[1 + i - 1]
    BY <1>2, <2>1, SubSeqProperties
  <2> HIDE DEF front
  <2>3. Len(front) = a
    BY <1>2, <2>2
  <2>4. ASSUME NEW i \in 1 .. a PROVE front[i] = q[i]
    <3>1. i \in 1 .. a - 1 + 1 /\ 1 + i - 1 = i
      BY <1>2
    <3>2. QED
      BY <2>2, <3>1
  <2>5. QED
    BY <2>2, <2>3, <2>4
<1>5. /\ back \in Seq(Tasks) /\ Len(back) = n - a
      /\ \A i \in 1 .. n - a : back[i] = q[a + i]
  <2>1. \A i \in a + 1 .. n : q[i] \in Tasks
    BY <1>1, <1>2
  <2>2. /\ back \in Seq(Tasks) /\ Len(back) = IF a + 1 <= n THEN n - (a + 1) + 1 ELSE 0
        /\ \A i \in 1 .. n - (a + 1) + 1 : back[i] = q[(a + 1) + i - 1]
    BY <1>1, <1>2, <2>1, SubSeqProperties
  <2> HIDE DEF back
  <2>3. Len(back) = n - a
    BY <1>1, <1>2, <2>2
  <2>4. ASSUME NEW i \in 1 .. n - a PROVE back[i] = q[a + i]
    <3>1. i \in 1 .. n - (a + 1) + 1 /\ (a + 1) + i - 1 = a + i
      BY <1>1, <1>2
    <3>2. QED
      BY <2>2, <3>1
  <2>5. QED
    BY <2>2, <2>3, <2>4
<1> HIDE DEF front, back
<1>6. /\ e \in Seq(Tasks) /\ Len(e) = n + 1
      /\ \A i \in 1 .. n + 1 :
           e[i] = IF i <= a THEN q[i] ELSE IF i = a + 1 THEN t ELSE q[i - 1]
  <2> DEFINE f == front \o <<t>>
  <2>1. <<t>> \in Seq(Tasks) /\ Len(<<t>>) = 1 /\ <<t>>[1] = t
    OBVIOUS
  <2>2. /\ f \in Seq(Tasks) /\ Len(f) = Len(front) + Len(<<t>>)
        /\ \A i \in 1 .. Len(front) + Len(<<t>>) :
             f[i] = IF i <= Len(front) THEN front[i] ELSE <<t>>[i - Len(front)]
    BY <1>4, <2>1, ConcatProperties
  <2>3. f \in Seq(Tasks) /\ Len(f) = a + 1
        /\ (\A i \in 1 .. a : f[i] = q[i]) /\ f[a + 1] = t
    BY <1>2, <1>4, <2>1, <2>2
  <2> HIDE DEF f
  <2>4. /\ f \o back \in Seq(Tasks) /\ Len(f \o back) = Len(f) + Len(back)
        /\ \A i \in 1 .. Len(f) + Len(back) :
             (f \o back)[i] = IF i <= Len(f) THEN f[i] ELSE back[i - Len(f)]
    BY <1>5, <2>3, ConcatProperties
  <2>5. e = f \o back
    BY DEF f
  <2> HIDE DEF e
  <2>6. e \in Seq(Tasks) /\ Len(e) = n + 1
    BY <1>1, <1>2, <1>5, <2>3, <2>4, <2>5
  <2>7. ASSUME NEW i \in 1 .. n + 1
        PROVE  e[i] = IF i <= a THEN q[i] ELSE IF i = a + 1 THEN t ELSE q[i - 1]
    <3>1. e[i] = IF i <= a + 1 THEN f[i] ELSE back[i - (a + 1)]
      <4>1. Len(f) = a + 1 /\ Len(f) + Len(back) = n + 1
        BY <1>1, <1>2, <1>5, <2>3
      <4>2. i \in 1 .. Len(f) + Len(back)
        BY <4>1
      <4>3. e[i] = IF i <= Len(f) THEN f[i] ELSE back[i - Len(f)]
        BY <2>4, <2>5, <4>2, Zenon
      <4>4. QED
        BY <4>1, <4>3
    <3>2. CASE i <= a
      BY <1>1, <1>2, <2>3, <3>1, <3>2
    <3>3. CASE i = a + 1
      BY <1>1, <1>2, <2>3, <3>1, <3>3
    <3>4. CASE i > a + 1
      <4>1. i - (a + 1) \in 1 .. n - a /\ a + (i - (a + 1)) = i - 1 /\ ~(i <= a + 1)
            /\ ~(i <= a) /\ i # a + 1
        BY <1>1, <1>2, <3>4
      <4>2. QED
        BY <1>5, <3>1, <4>1
    <3>5. QED
      BY <1>1, <1>2, <3>2, <3>3, <3>4
  <2>8. QED
    BY <2>6, <2>7
<1> HIDE DEF e
<1>7. Members(e) = Members(q) \cup {t}
  <2>1. DOMAIN e = 1 .. n + 1
    BY <1>6
  <2>2. ASSUME NEW i \in 1 .. n + 1 PROVE e[i] \in Members(q) \cup {t}
    <3>1. i <= a => i \in 1 .. n
      BY <1>1, <1>2
    <3>2. i > a + 1 => i - 1 \in 1 .. n
      BY <1>1, <1>2
    <3>3. i <= a \/ i = a + 1 \/ i > a + 1
      BY <1>1, <1>2
    <3>4. i > a + 1 => ~(i <= a) /\ i # a + 1
      BY <1>1, <1>2
    <3>5. i = a + 1 => ~(i <= a)
      BY <1>1, <1>2
    <3>6. QED
      BY <1>1, <1>6, <3>1, <3>2, <3>3, <3>4, <3>5 DEF Members
  <2>3. ASSUME NEW i \in 1 .. n PROVE q[i] \in Members(e)
    <3>1. CASE i <= a
      <4>1. i \in 1 .. n + 1 /\ e[i] = q[i]
        BY <1>1, <1>6, <3>1
      <4>2. QED
        BY <2>1, <4>1 DEF Members
    <3>2. CASE ~(i <= a)
      <4>1. i + 1 \in 1 .. n + 1 /\ ~(i + 1 <= a) /\ i + 1 # a + 1 /\ (i + 1) - 1 = i
        BY <1>1, <1>2, <3>2
      <4>2. e[i + 1] = q[i]
        BY <1>6, <4>1
      <4>3. QED
        BY <2>1, <4>1, <4>2 DEF Members
    <3>3. QED
      BY <3>1, <3>2
  <2>4. t \in Members(e)
    <3>1. a + 1 \in 1 .. n + 1 /\ ~(a + 1 <= a)
      BY <1>1, <1>2
    <3>2. e[a + 1] = t
      BY <1>6, <3>1
    <3>3. QED
      BY <2>1, <3>1, <3>2 DEF Members
  <2>5. Members(e) \subseteq Members(q) \cup {t}
    BY <2>1, <2>2 DEF Members
  <2>6. Members(q) \subseteq Members(e)
    BY <1>1, <2>3 DEF Members
  <2>7. QED
    BY <2>4, <2>5, <2>6
<1>8. Listing(e)
  BY <1>6, <1>7, OneMore DEF n
<1>9. QED
  BY <1>3, <1>7, <1>8

\* The list Free has built when it has looked at the tasks up to each number.
FreeUpTo(g, q, S, n) ==
  g = [t \in 0 .. n |-> IF t = 0 THEN q
                        ELSE IF t \in S THEN Enqueue(g[t - 1], t) ELSE g[t - 1]]

LEMMA FreeExists ==
  ASSUME NEW q, NEW S, NEW n \in Nat
  PROVE  \E g : FreeUpTo(g, q, S, n)
<1> DEFINE P == {k \in Nat : \E g : FreeUpTo(g, q, S, k)}
<1>1. 0 \in P
  <2>1. FreeUpTo([t \in 0 .. 0 |-> q], q, S, 0)
    BY DEF FreeUpTo
  <2>2. QED
    BY <2>1
<1>2. ASSUME NEW k \in Nat, k \in P
      PROVE  k + 1 \in P
  <2>1. PICK g : FreeUpTo(g, q, S, k)
    BY <1>2
  <2> DEFINE last == IF k + 1 \in S THEN Enqueue(g[k], k + 1) ELSE g[k]
             h == [t \in 0 .. k + 1 |-> IF t = k + 1 THEN last ELSE g[t]]
  <2> HIDE DEF last
  <2>2. ASSUME NEW t \in 0 .. k + 1
        PROVE  h[t] = IF t = 0 THEN q
                      ELSE IF t \in S THEN Enqueue(h[t - 1], t) ELSE h[t - 1]
    <3>1. CASE t = k + 1
      <4>1. h[t] = last /\ h[t - 1] = g[k] /\ t # 0
        BY <3>1
      <4>2. QED
        BY <3>1, <4>1 DEF last
    <3>2. CASE t # k + 1
      <4>1. t \in 0 .. k /\ h[t] = g[t]
        BY <3>2
      <4>2. t # 0 => t - 1 \in 0 .. k /\ h[t - 1] = g[t - 1]
        BY <4>1
      <4>3. g[t] = IF t = 0 THEN q
                   ELSE IF t \in S THEN Enqueue(g[t - 1], t) ELSE g[t - 1]
        BY <2>1, <4>1 DEF FreeUpTo
      <4>4. QED
        BY <4>1, <4>2, <4>3
    <3>3. QED
      BY <3>1, <3>2
  <2>3. FreeUpTo(h, q, S, k + 1)
    BY <2>2, Zenon DEF FreeUpTo
  <2>4. QED
    BY <2>3
<1>3. QED
  <2> HIDE DEF P
  <2>1. Nat \subseteq P
    BY <1>1, <1>2, InductionOverNat
  <2>2. QED
    BY <2>1 DEF P

\* Free queues exactly the tasks it frees.
LEMMA FreeAdds ==
  ASSUME TypeOK, NEW q, Listing(q), NEW S \in SUBSET Tasks, S \cap Members(q) = {}
  PROVE  Listing(Free(q, S)) /\ Members(Free(q, S)) = Members(q) \cup S
<1> DEFINE g == CHOOSE g : FreeUpTo(g, q, S, MaxTasks)
<1>1. MaxTasks \in Nat /\ S \subseteq 1 .. MaxTasks
  BY TasksCounted DEF AllTasks
<1>2. FreeUpTo(g, q, S, MaxTasks)
  BY <1>1, FreeExists
<1>3. Free(q, S) = g[MaxTasks]
  BY Zenon DEF Free, FreeUpTo
<1> HIDE DEF g
<1> DEFINE P == {k \in Nat : k <= MaxTasks =>
                   Listing(g[k]) /\ Members(g[k]) = Members(q) \cup (S \cap (1 .. k))}
<1>4. 0 \in P
  <2>1. g[0] = q
    BY <1>1, <1>2 DEF FreeUpTo
  <2>2. S \cap (1 .. 0) = {}
    OBVIOUS
  <2>3. QED
    BY <2>1, <2>2
<1>5. ASSUME NEW k \in Nat, k \in P
      PROVE  k + 1 \in P
  <2> DEFINE t == k + 1
  <2>1. SUFFICES ASSUME t <= MaxTasks
                 PROVE  /\ Listing(g[t])
                        /\ Members(g[t]) = Members(q) \cup (S \cap (1 .. t))
    OBVIOUS
  <2>2. Listing(g[k]) /\ Members(g[k]) = Members(q) \cup (S \cap (1 .. k))
    BY <1>1, <1>5, <2>1
  <2>3. t \in 0 .. MaxTasks /\ t # 0 /\ t - 1 = k /\ t \notin 1 .. k
        /\ 1 .. t = (1 .. k) \cup {t}
    BY <1>1, <2>1
  <2> HIDE DEF t
  <2>4. g[t] = IF t \in S THEN Enqueue(g[k], t) ELSE g[k]
    BY <1>2, <2>3 DEF FreeUpTo
  <2>5. CASE t \in S
    <3>1. t \in Tasks /\ t \notin Members(g[k])
      BY <2>2, <2>3, <2>5
    <3>2. Listing(g[t]) /\ Members(g[t]) = Members(g[k]) \cup {t}
      BY <2>2, <2>4, <2>5, <3>1, EnqueueAdds
    <3>3. S \cap (1 .. t) = (S \cap (1 .. k)) \cup {t}
      BY <2>3, <2>5
    <3>4. QED
      BY <2>2, <3>2, <3>3
  <2>6. CASE t \notin S
    <3>1. S \cap (1 .. t) = S \cap (1 .. k)
      BY <2>3, <2>6
    <3>2. QED
      BY <2>2, <2>4, <2>6, <3>1
  <2>7. QED
    BY <2>5, <2>6
<1>6. MaxTasks \in P
  <2> HIDE DEF P
  <2> QED BY <1>1, <1>4, <1>5, InductionOverNat
<1>7. S \cap (1 .. MaxTasks) = S
  BY <1>1
<1>8. QED
  BY <1>1, <1>3, <1>6, <1>7

-----------------------------------------------------------------------------
\* What an iteration makes of the queue and the sorted list.
Iterated(k) ==
  IF k.queue = <<>> THEN k
  ELSE [queue  |-> Free(Tail(k.queue),
                        Freed(Head(k.queue), Members(Append(k.result, Head(k.queue))))),
        result |-> Append(k.result, Head(k.queue))]

Begin == [queue |-> Free(<<>>, {t \in Tasks : dependsOn[t] = {}}), result |-> <<>>]

SortUpTo(g, n) == g = [i \in 0 .. n |-> IF i = 0 THEN Begin ELSE Iterated(g[i - 1])]

LEMMA SortExists ==
  ASSUME NEW n \in Nat
  PROVE  \E g : SortUpTo(g, n)
<1> DEFINE P == {k \in Nat : \E g : SortUpTo(g, k)}
<1>1. 0 \in P
  <2>1. SortUpTo([i \in 0 .. 0 |-> Begin], 0)
    BY DEF SortUpTo
  <2>2. QED
    BY <2>1
<1>2. ASSUME NEW k \in Nat, k \in P
      PROVE  k + 1 \in P
  <2>1. PICK g : SortUpTo(g, k)
    BY <1>2
  <2> DEFINE last == Iterated(g[k])
             h == [i \in 0 .. k + 1 |-> IF i = k + 1 THEN last ELSE g[i]]
  <2> HIDE DEF last
  <2>2. ASSUME NEW i \in 0 .. k + 1
        PROVE  h[i] = IF i = 0 THEN Begin ELSE Iterated(h[i - 1])
    <3>1. CASE i = k + 1
      <4>1. h[i] = last /\ h[i - 1] = g[k] /\ i # 0
        BY <3>1
      <4>2. QED
        BY <4>1 DEF last
    <3>2. CASE i # k + 1
      <4>1. i \in 0 .. k /\ h[i] = g[i]
        BY <3>2
      <4>2. i # 0 => h[i - 1] = g[i - 1]
        BY <4>1
      <4>3. g[i] = IF i = 0 THEN Begin ELSE Iterated(g[i - 1])
        BY <2>1, <4>1 DEF SortUpTo
      <4>4. QED
        BY <4>1, <4>2, <4>3
    <3>3. QED
      BY <3>1, <3>2
  <2>3. SortUpTo(h, k + 1)
    BY <2>2, Zenon DEF SortUpTo
  <2>4. QED
    BY <2>3
<1>3. QED
  <2> HIDE DEF P
  <2>1. Nat \subseteq P
    BY <1>1, <1>2, InductionOverNat
  <2>2. QED
    BY <2>1 DEF P

LEMMA SortIs == \E g : SortUpTo(g, MaxTasks) /\ TopologicalSort = g[MaxTasks].result
<1> DEFINE g == CHOOSE g : SortUpTo(g, MaxTasks)
<1>1. SortUpTo(g, MaxTasks)
  BY SortExists, SchedulerAssumption
<1>2. TopologicalSort = g[MaxTasks].result
  BY Zenon DEF TopologicalSort, SortUpTo, Begin, Iterated, Members
<1>3. QED
  BY <1>1, <1>2

\* What an iteration keeps: the sorted tasks come behind all they depend on, the queue
\* holds the tasks that are free and not yet sorted, and every iteration that finds one
\* there sorts it.
Kahn(k, n) ==
  /\ Listing(k.queue) /\ Listing(k.result)
  /\ Members(k.queue) =
       {t \in Tasks : dependsOn[t] \subseteq Members(k.result)} \ Members(k.result)
  /\ \A i \in 1 .. Len(k.result) :
       dependsOn[k.result[i]] \subseteq {k.result[j] : j \in 1 .. i - 1}
  /\ k.queue = <<>> \/ Len(k.result) = n

LEMMA EmptyListing ==
  ASSUME TypeOK
  PROVE  Listing(<<>>) /\ Members(<<>>) = {}
<1>1. <<>> \in Seq(Tasks) /\ Len(<<>>) = 0 /\ Members(<<>>) = {}
  BY DEF Members
<1>2. QED
  BY <1>1, FS_EmptySet DEF Listing

\* Taking the head of a list takes one task out of it.
LEMMA HeadLeaves ==
  ASSUME TypeOK, NEW q, Listing(q), q # <<>>
  PROVE  /\ Head(q) \in Members(q) /\ Listing(Tail(q))
         /\ Members(Tail(q)) = Members(q) \ {Head(q)}
<1> DEFINE r == Tail(q)
           h == Head(q)
           n == Len(q)
<1>1. /\ q \in Seq(Tasks) /\ n = Cardinality(Members(q)) /\ DOMAIN q = 1 .. n /\ n \in Nat
      /\ IsFiniteSet(Members(q))
  BY MembersCounted DEF Listing
<1>2. r \in Seq(Tasks) /\ Len(r) = n - 1 /\ \A i \in 1 .. Len(r) : r[i] = q[i + 1]
  BY <1>1, HeadTailProperties
<1>3. h = q[1] /\ n > 0
  BY <1>1
<1> HIDE DEF r, h, n
<1>4. /\ DOMAIN r = 1 .. n - 1 /\ IsFiniteSet(Members(r)) /\ Cardinality(Members(r)) \in Nat
      /\ Cardinality(Members(r)) <= n - 1
  BY <1>2, MembersCounted
<1>5. Members(q) = Members(r) \cup {h}
  <2>1. ASSUME NEW i \in 1 .. n PROVE q[i] \in Members(r) \cup {h}
    <3>1. CASE i = 1
      BY <1>3, <3>1
    <3>2. CASE i # 1
      <4>1. i - 1 \in 1 .. n - 1 /\ (i - 1) + 1 = i
        BY <1>1, <3>2
      <4>2. r[i - 1] = q[i]
        BY <1>2, <4>1
      <4>3. QED
        BY <1>4, <4>1, <4>2 DEF Members
    <3>3. QED
      BY <3>1, <3>2
  <2>2. ASSUME NEW i \in 1 .. n - 1 PROVE r[i] \in Members(q)
    <3>1. i + 1 \in 1 .. n /\ r[i] = q[i + 1]
      BY <1>1, <1>2, <2>2
    <3>2. QED
      BY <1>1, <3>1 DEF Members
  <2>3. h \in Members(q)
    <3>1. 1 \in DOMAIN q
      BY <1>1, <1>3
    <3>2. QED
      BY <1>3, <3>1 DEF Members
  <2>4. Members(q) \subseteq Members(r) \cup {h}
    BY <1>1, <2>1 DEF Members
  <2>5. Members(r) \subseteq Members(q)
    BY <1>4, <2>2 DEF Members
  <2>6. QED
    BY <2>3, <2>4, <2>5
<1>6. Cardinality(Members(q)) = IF h \in Members(r) THEN Cardinality(Members(r))
                                ELSE Cardinality(Members(r)) + 1
  BY <1>4, <1>5, FS_AddElement
<1>7. h \notin Members(r)
  BY <1>1, <1>4, <1>6
<1>8. Cardinality(Members(r)) = n - 1
  BY <1>1, <1>4, <1>6, <1>7
<1>9. Listing(r)
  BY <1>2, <1>8 DEF Listing
<1>10. h \in Members(q) /\ Members(r) = Members(q) \ {h}
  BY <1>5, <1>7
<1>11. QED
  BY <1>9, <1>10 DEF r, h

LEMMA KahnBegins ==
  ASSUME TypeOK
  PROVE  Kahn(Begin, 0)
<1> DEFINE S == {t \in Tasks : dependsOn[t] = {}}
           free == Free(<<>>, S)
<1>1. Listing(free) /\ Members(free) = S
  BY EmptyListing, FreeAdds
<1>2. Begin.queue = free /\ Begin.result = <<>>
  BY DEF Begin
<1> HIDE DEF free
<1>3. Members(free) = {t \in Tasks : dependsOn[t] \subseteq Members(<<>>)} \ Members(<<>>)
  BY <1>1, EmptyListing
<1>4. Len(<<>>) = 0 /\ 1 .. 0 = {}
  OBVIOUS
<1>5. QED
  BY <1>1, <1>2, <1>3, <1>4, EmptyListing DEF Kahn

LEMMA KahnGoesOn ==
  ASSUME TypeOK, NEW k, NEW n \in Nat, Kahn(k, n)
  PROVE  Kahn(Iterated(k), n + 1)
<1>1. CASE k.queue = <<>>
  BY <1>1 DEF Kahn, Iterated
<1>2. CASE k.queue # <<>>
  <2> DEFINE q == k.queue
             s == k.result
             h == Head(q)
             s2 == Append(s, h)
             F == Freed(h, Members(s2))
             q2 == Free(Tail(q), F)
  <2>1. /\ Listing(q) /\ Listing(s) /\ Len(s) = n
        /\ Members(q) = {t \in Tasks : dependsOn[t] \subseteq Members(s)} \ Members(s)
        /\ \A i \in 1 .. Len(s) : dependsOn[s[i]] \subseteq {s[j] : j \in 1 .. i - 1}
    BY <1>2 DEF Kahn
  <2>2. Iterated(k).queue = q2 /\ Iterated(k).result = s2
    BY <1>2 DEF Iterated
  <2> HIDE DEF q2, q, s
  <2>3. /\ h \in Members(q) /\ Listing(Tail(q)) /\ Members(Tail(q)) = Members(q) \ {h}
    BY <1>2, <2>1, HeadLeaves DEF q
  <2> HIDE DEF h
  <2>4. h \in Tasks /\ h \notin Members(s) /\ dependsOn[h] \subseteq Members(s)
    BY <2>1, <2>3
  <2>5. s \in Seq(Tasks) /\ DOMAIN s = 1 .. n
    BY <2>1, MembersCounted DEF Listing
  <2>6. /\ s2 \in Seq(Tasks) /\ Len(s2) = n + 1 /\ s2[n + 1] = h
        /\ \A i \in 1 .. n : s2[i] = s[i]
    BY <2>1, <2>4, <2>5, AppendProperties
  <2> HIDE DEF s2
  <2>7. DOMAIN s2 = DOMAIN s \cup {n + 1}
    <3>1. DOMAIN s2 = 1 .. n + 1
      BY <2>6
    <3>2. QED
      BY <2>5, <3>1
  <2>8. Members(s2) = Members(s) \cup {h}
    <3>1. \A i \in DOMAIN s : s2[i] = s[i]
      BY <2>5, <2>6
    <3>2. {s2[i] : i \in DOMAIN s2} = {s2[i] : i \in DOMAIN s} \cup {s2[n + 1]}
      BY <2>7
    <3>3. {s2[i] : i \in DOMAIN s} = {s[i] : i \in DOMAIN s}
      BY <3>1
    <3>4. QED
      BY <2>6, <3>2, <3>3 DEF Members
  <2>9. Listing(s2)
    BY <2>1, <2>4, <2>6, <2>8, OneMore
  <2>10. \A i \in 1 .. n + 1 : dependsOn[s2[i]] \subseteq {s2[j] : j \in 1 .. i - 1}
    <3>1. ASSUME NEW i \in 1 .. n PROVE dependsOn[s2[i]] \subseteq {s2[j] : j \in 1 .. i - 1}
      <4>1. dependsOn[s[i]] \subseteq {s[j] : j \in 1 .. i - 1} /\ s2[i] = s[i]
        BY <2>1, <2>6
      <4>2. \A j \in 1 .. i - 1 : s2[j] = s[j]
        BY <2>6
      <4>3. {s2[j] : j \in 1 .. i - 1} = {s[j] : j \in 1 .. i - 1}
        BY <4>2
      <4>4. QED
        BY <4>1, <4>3
    <3>2. dependsOn[s2[n + 1]] \subseteq {s2[j] : j \in 1 .. n}
      <4>1. Members(s) = {s2[j] : j \in 1 .. n}
        BY <2>5, <2>6 DEF Members
      <4>2. QED
        BY <2>4, <2>6, <4>1
    <3>3. (n + 1) - 1 = n
      OBVIOUS
    <3>4. \A i \in 1 .. n + 1 : i \in 1 .. n \/ i = n + 1
      OBVIOUS
    <3>5. dependsOn[s2[n + 1]] \subseteq {s2[j] : j \in 1 .. (n + 1) - 1}
      BY <3>2, <3>3
    <3>6. QED
      BY <3>1, <3>4, <3>5
  <2>11. \A t \in Members(s) : dependsOn[t] \subseteq Members(s)
    <3>1. SUFFICES ASSUME NEW i \in 1 .. n PROVE dependsOn[s[i]] \subseteq Members(s)
      BY <2>5 DEF Members
    <3>2. \A j \in 1 .. i - 1 : j \in 1 .. n
      OBVIOUS
    <3>3. {s[j] : j \in 1 .. i - 1} \subseteq Members(s)
      BY <2>5, <3>2 DEF Members
    <3>4. QED
      BY <2>1, <3>3
  <2>12. F = {t \in Tasks : h \in dependsOn[t] /\ dependsOn[t] \subseteq Members(s) \cup {h}}
    BY <2>8 DEF Freed
  <2> HIDE DEF F
  <2>13. F \in SUBSET Tasks /\ F \cap Members(Tail(q)) = {}
    BY <2>1, <2>3, <2>4, <2>12
  <2>14. Listing(q2) /\ Members(q2) = Members(Tail(q)) \cup F
    BY <2>3, <2>13, FreeAdds DEF q2
  <2>15. Members(q2) = {t \in Tasks : dependsOn[t] \subseteq Members(s2)} \ Members(s2)
    <3>1. ASSUME NEW t \in Members(q2)
          PROVE  t \in Tasks /\ dependsOn[t] \subseteq Members(s2) /\ t \notin Members(s2)
      <4>1. CASE t \in Members(Tail(q))
        BY <2>1, <2>3, <2>8, <4>1
      <4>2. CASE t \in F
        BY <2>4, <2>8, <2>11, <2>12, <4>2
      <4>3. QED
        BY <2>14, <3>1, <4>1, <4>2
    <3>2. ASSUME NEW t \in Tasks, dependsOn[t] \subseteq Members(s2), t \notin Members(s2)
          PROVE  t \in Members(q2)
      <4>1. CASE h \in dependsOn[t]
        BY <2>8, <2>12, <2>14, <3>2, <4>1
      <4>2. CASE h \notin dependsOn[t]
        BY <2>1, <2>3, <2>8, <2>14, <3>2, <4>2
      <4>3. QED
        BY <4>1, <4>2
    <3>3. QED
      BY <3>1, <3>2
  <2>16. Kahn(Iterated(k), n + 1)
    BY <2>2, <2>6, <2>9, <2>10, <2>14, <2>15 DEF Kahn
  <2>17. QED
    BY <2>16
<1>3. QED
  BY <1>1, <1>2

\* What the sort has when it ends: nothing more was free.
LEMMA Sorted ==
  ASSUME TypeOK
  PROVE  /\ Listing(TopologicalSort)
         /\ {t \in Tasks : dependsOn[t] \subseteq Members(TopologicalSort)}
              \subseteq Members(TopologicalSort)
         /\ \A i \in 1 .. Len(TopologicalSort) :
              dependsOn[TopologicalSort[i]] \subseteq {TopologicalSort[j] : j \in 1 .. i - 1}
<1>1. PICK g : SortUpTo(g, MaxTasks) /\ TopologicalSort = g[MaxTasks].result
  BY SortIs
<1> DEFINE P == {n \in Nat : n <= MaxTasks => Kahn(g[n], n)}
<1>2. MaxTasks \in Nat
  BY TasksCounted
<1>3. 0 \in P
  <2>1. g[0] = Begin
    BY <1>1, <1>2 DEF SortUpTo
  <2>2. QED
    BY <2>1, KahnBegins
<1>4. ASSUME NEW n \in Nat, n \in P
      PROVE  n + 1 \in P
  <2>1. SUFFICES ASSUME n + 1 <= MaxTasks PROVE Kahn(g[n + 1], n + 1)
    OBVIOUS
  <2>2. n + 1 \in 0 .. MaxTasks /\ n + 1 # 0 /\ (n + 1) - 1 = n /\ n <= MaxTasks
    BY <1>2, <2>1
  <2>3. g[n + 1] = Iterated(g[n])
    BY <1>1, <2>2 DEF SortUpTo
  <2>4. QED
    BY <1>4, <2>2, <2>3, KahnGoesOn
<1>5. Kahn(g[MaxTasks], MaxTasks)
  <2>1. MaxTasks \in P
    <3> HIDE DEF P
    <3> QED BY <1>2, <1>3, <1>4, InductionOverNat
  <2>2. QED
    BY <1>2, <2>1
<1> DEFINE k == g[MaxTasks]
<1>6. Members(k.queue) = {}
  <2>1. CASE k.queue = <<>>
    BY <2>1, EmptyListing
  <2>2. CASE Len(k.result) = MaxTasks
    <3>1. Members(k.result) \in SUBSET Tasks /\ Cardinality(Members(k.result)) = MaxTasks
      BY <1>5, <2>2, MembersCounted DEF Kahn, Listing
    <3>2. Cardinality(Members(k.result)) <= Cardinality(Tasks)
      BY <3>1, TasksCounted, FS_Subset
    <3>3. Cardinality(Members(k.result)) = Cardinality(Tasks)
      BY <3>1, <3>2, TasksCounted
    <3>4. Members(k.result) = Tasks
      BY <3>1, <3>3, TasksCounted, FS_Subset
    <3>5. QED
      BY <1>5, <3>4 DEF Kahn
  <2>3. QED
    BY <1>5, <2>1, <2>2 DEF Kahn
<1>7. Kahn(k, MaxTasks) /\ k.result = TopologicalSort
  BY <1>1, <1>5
<1> HIDE DEF k
<1>8. {t \in Tasks : dependsOn[t] \subseteq Members(k.result)} \ Members(k.result) = {}
  BY <1>6, <1>7 DEF Kahn
<1>9. /\ Listing(k.result)
      /\ \A i \in 1 .. Len(k.result) :
           dependsOn[k.result[i]] \subseteq {k.result[j] : j \in 1 .. i - 1}
  BY <1>7 DEF Kahn
<1>10. {t \in Tasks : dependsOn[t] \subseteq Members(k.result)} \subseteq Members(k.result)
  BY <1>8
<1>11. QED
  BY <1>7, <1>9, <1>10, Zenon

LEMMA NotEmpty ==
  ASSUME NEW T, NEW S
  PROVE  S \in (SUBSET T) \ {{}} <=> S \in SUBSET T /\ S # {}
OBVIOUS

\* topological_sort (scheduler.py:87-137) finds an order exactly when the dependencies have no
\* cycle, and in what it returns every task stands behind all it depends on.
THEOREM SortFindsEveryOrder == Spec => []TopologicalSortCorrect
<1>1. TypeOK => TopologicalSortCorrect
  <2> SUFFICES ASSUME TypeOK, \A t \in Tasks : dependsOn[t] \subseteq Tasks
               PROVE  LET sorted == TopologicalSort
                          cyclic == \E S \in (SUBSET Tasks) \ {{}} :
                                      \A t \in S : dependsOn[t] \cap S # {}
                      IN  /\ (Len(sorted) = registered) <=> ~cyclic
                          /\ \A i \in DOMAIN sorted :
                               dependsOn[sorted[i]] \subseteq {sorted[j] : j \in 1 .. i - 1}
    BY DEF TopologicalSortCorrect
  <2> DEFINE s == TopologicalSort
             M == Members(TopologicalSort)
             Cyclic(S) == S # {} /\ \A t \in S : dependsOn[t] \cap S # {}
  <2>1. /\ s \in Seq(Tasks) /\ Len(s) = Cardinality(M) /\ DOMAIN s = 1 .. Len(s)
        /\ Len(s) \in Nat /\ M \in SUBSET Tasks
        /\ \A t \in Tasks : dependsOn[t] \subseteq M => t \in M
        /\ \A i \in 1 .. Len(s) : dependsOn[s[i]] \subseteq {s[j] : j \in 1 .. i - 1}
    BY Sorted, MembersCounted DEF Listing
  <2>2. M = {s[i] : i \in 1 .. Len(s)}
    BY <2>1 DEF Members
  <2> HIDE DEF s, M
  <2>3. Len(s) = registered <=> M = Tasks
    <3>1. IsFiniteSet(Tasks) /\ Cardinality(Tasks) = registered
      BY TasksCounted
    <3>2. Cardinality(M) = Cardinality(Tasks) => M = Tasks
      BY <2>1, <3>1, FS_Subset
    <3>3. QED
      BY <2>1, <3>1, <3>2
  <2>4. ASSUME M # Tasks PROVE \E S \in SUBSET Tasks : Cyclic(S)
    <3>1. Tasks \ M # {} /\ \A t \in Tasks \ M : dependsOn[t] \cap (Tasks \ M) # {}
      BY <2>1, <2>4
    <3>2. QED
      BY <3>1
  <2>5. ASSUME M = Tasks, NEW S \in SUBSET Tasks, Cyclic(S) PROVE FALSE
    <3> DEFINE I == {i \in 1 .. Len(s) : s[i] \in S}
               id == [i \in I |-> i]
    <3>1. I # {}
      BY <2>2, <2>5
    <3>2. IsFiniteSet(I) /\ \A i \in I : id[i] \in Int
      <4>1. IsFiniteSet(1 .. Len(s)) /\ I \in SUBSET (1 .. Len(s))
        BY <2>1, FS_Interval
      <4> HIDE DEF I
      <4>2. \A i \in I : i \in Int /\ id[i] = i
        BY <2>1, <4>1
      <4>3. IsFiniteSet(I)
        BY <4>1, FS_Subset
      <4>4. QED
        BY <4>2, <4>3
    <3> HIDE DEF I, id
    <3>3. PICK m \in I : \A j \in I : id[m] <= id[j]
      BY <3>1, <3>2, LeastExists
    <3>4. \A j \in I : m <= j
      BY <3>3 DEF id
    <3>5. m \in 1 .. Len(s) /\ s[m] \in S
      BY <3>3 DEF I
    <3>6. PICK d \in S : d \in dependsOn[s[m]]
      BY <2>5, <3>5
    <3>7. PICK j \in 1 .. m - 1 : d = s[j]
      BY <2>1, <3>5, <3>6
    <3>8. j \in 1 .. Len(s) /\ ~(m <= j)
      BY <2>1, <3>5, <3>7
    <3>9. j \in I
      BY <3>6, <3>7, <3>8 DEF I
    <3>10. QED
      BY <3>4, <3>8, <3>9
  <2>6. (Len(s) = registered) <=> ~ \E S \in (SUBSET Tasks) \ {{}} :
                                       \A t \in S : dependsOn[t] \cap S # {}
    <3>1. (\E S \in (SUBSET Tasks) \ {{}} : \A t \in S : dependsOn[t] \cap S # {})
            <=> \E S \in SUBSET Tasks : Cyclic(S)
      <4>1. ASSUME NEW S \in (SUBSET Tasks) \ {{}}, \A t \in S : dependsOn[t] \cap S # {}
            PROVE  \E C \in SUBSET Tasks : Cyclic(C)
        <5>1. S \in SUBSET Tasks /\ S # {}
          BY <4>1, NotEmpty
        <5>2. Cyclic(S)
          BY <4>1, <5>1, Zenon
        <5>3. QED
          BY <5>1, <5>2, Zenon
      <4>2. ASSUME NEW S \in SUBSET Tasks, Cyclic(S)
            PROVE  \E C \in (SUBSET Tasks) \ {{}} : \A t \in C : dependsOn[t] \cap C # {}
        <5>1. S # {} /\ \A t \in S : dependsOn[t] \cap S # {}
          BY <4>2, Zenon
        <5>2. S \in (SUBSET Tasks) \ {{}}
          BY <4>2, <5>1, NotEmpty
        <5>3. QED
          BY <5>1, <5>2, Zenon
      <4> HIDE DEF Cyclic
      <4>3. QED
        BY <4>1, <4>2
    <3> HIDE DEF Cyclic
    <3>2. M = Tasks <=> ~ \E S \in SUBSET Tasks : Cyclic(S)
      BY <2>4, <2>5
    <3>3. QED
      BY <2>3, <3>1, <3>2
  <2>7. QED
    BY <2>1, <2>6 DEF s
<1>2. QED
  BY <1>1, TypeCorrect, PTL
-----------------------------------------------------------------------------
(***************************************************************************)
(* Who starts before whom.                                                 *)
(***************************************************************************)
\* What every order of starts must respect: nobody of a later pass, or of the same pass with
\* a lower priority, goes first.
NotBehind(t, u) == pass[t] < pass[u] \/ (pass[t] = pass[u] /\ priority[t] >= priority[u])

\* The tasks that are READY and have not reached the semaphore.
Fresh(st, s) == {t \in AllTasks : st[t] = "READY"} \ Queued(s)

\* The callbacks q fit the queue of s: a task is scheduled at most once, and only when it
\* has something to do; the granted are in front, and scheduled as they stand in the queue.
LinedUp(st, q, s) ==
  /\ \A t \in AllTasks : \A i, j \in 1 .. Len(q) : q[i] = Step(t) /\ q[j] = Step(t) => i = j
  /\ \A t \in Stepped(q) : st[t] \in {"READY", "RUNNING"}
  /\ Stepped(q) \cap Queued(s) \subseteq s.granted
  /\ \A m, n \in DOMAIN s.waiters :
       m < n /\ s.waiters[n] \in s.granted => s.waiters[m] \in s.granted
  /\ \A i, j \in 1 .. Len(q) : \A m, n \in DOMAIN s.waiters :
       i < j /\ q[i] = Step(s.waiters[m]) /\ q[j] = Step(s.waiters[n]) => m < n

\* Who waits is not behind who comes next, in the queue and then in the loop.
InOrder(st, q, s) ==
  /\ \A m, n \in DOMAIN s.waiters : m < n => NotBehind(s.waiters[m], s.waiters[n])
  /\ \A t \in Queued(s), u \in Fresh(st, s) : NotBehind(t, u)
  /\ \A t, u \in Fresh(st, s) : \A i, j \in 1 .. Len(q) :
       i < j /\ q[i] = Step(t) /\ q[j] = Step(u) => NotBehind(t, u)

OrderInv ==
  /\ LinedUp(status, loop, sem)
  /\ InOrder(status, loop, sem)
  /\ \A t \in AllTasks : status[t] = "READY" => pass[t] < passes

Ordered(st, q, s) == LinedUp(st, q, s) /\ InOrder(st, q, s)

LEMMA StepsDiffer ==
  /\ \A t, u : Step(t) = Step(u) => t = u
  /\ \A t, u : Step(t) # Main /\ Step(t) # Discard(u)
<1>1. /\ Main.cb = "main" /\ \A u : Discard(u).cb = "discard"
      /\ \A u : Step(u).cb = "step" /\ Step(u).task = u
  BY DEF Main, Step, Discard
<1>2. QED
  BY <1>1

\* Fewer tasks are READY.
LEMMA FewerReady ==
  ASSUME NEW st, NEW st2, NEW q, NEW s, Ordered(st, q, s),
         \A u \in AllTasks : st2[u] = "READY" => st[u] = "READY",
         \A u \in Stepped(q) : st2[u] \in {"READY", "RUNNING"}
  PROVE  Ordered(st2, q, s)
<1>1. Fresh(st2, s) \subseteq Fresh(st, s)
  BY DEF Fresh
<1>2. LinedUp(st2, q, s)
  BY DEF Ordered, LinedUp
<1>3. InOrder(st2, q, s)
  BY <1>1 DEF Ordered, InOrder
<1>4. QED
  BY <1>2, <1>3 DEF Ordered

\* A callback leaves the loop, which held it only once.
LEMMA OneCallbackLess ==
  ASSUME NEW st, NEW q \in Seq(Callback), q # <<>>, NEW s, Ordered(st, q, s)
  PROVE  /\ Ordered(st, Tail(q), s)
         /\ \A t \in AllTasks : Head(q) = Step(t) => t \notin Stepped(Tail(q))
<1> DEFINE r == Tail(q)
           n == Len(q)
<1>1. /\ r \in Seq(Callback) /\ Len(r) = n - 1 /\ n \in Nat /\ Head(q) = q[1] /\ n > 0
      /\ \A i \in 1 .. Len(r) : r[i] = q[i + 1]
  BY HeadTailProperties
<1> HIDE DEF r, n
<1>2. \A i \in 1 .. Len(r) : i \in Int /\ i + 1 \in 1 .. n /\ r[i] = q[i + 1]
  BY <1>1
<1>3. \A i, j \in 1 .. Len(r) : i < j => i + 1 < j + 1
  BY <1>1
<1>4. Stepped(r) \subseteq Stepped(q)
  BY <1>2 DEF Stepped, n
<1>5. ASSUME NEW t \in AllTasks, NEW i \in 1 .. Len(r), NEW j \in 1 .. Len(r),
             r[i] = Step(t), r[j] = Step(t)
      PROVE  i = j
  <2>1. i + 1 = j + 1
    BY <1>2, <1>5 DEF Ordered, LinedUp, n
  <2>2. QED
    BY <1>1, <2>1
<1>6. \A i, j \in 1 .. Len(r) : \A k, l \in DOMAIN s.waiters :
        i < j /\ r[i] = Step(s.waiters[k]) /\ r[j] = Step(s.waiters[l]) => k < l
  BY <1>2, <1>3 DEF Ordered, LinedUp, n
<1>7. \A t, u \in Fresh(st, s) : \A i, j \in 1 .. Len(r) :
        i < j /\ r[i] = Step(t) /\ r[j] = Step(u) => NotBehind(t, u)
  BY <1>2, <1>3 DEF Ordered, InOrder, n
<1>8. LinedUp(st, r, s)
  BY <1>4, <1>5, <1>6 DEF Ordered, LinedUp
<1>9. InOrder(st, r, s)
  BY <1>7 DEF Ordered, InOrder
<1>10. ASSUME NEW t \in AllTasks, Head(q) = Step(t), t \in Stepped(r)
       PROVE  FALSE
  <2>1. PICK i \in 1 .. Len(r) : r[i] = Step(t)
    BY <1>10 DEF Stepped
  <2>2. i + 1 \in 1 .. n /\ q[i + 1] = Step(t) /\ 1 \in 1 .. n /\ q[1] = Step(t) /\ i + 1 # 1
    BY <1>1, <1>2, <1>10, <2>1
  <2>3. QED
    BY <2>2 DEF Ordered, LinedUp, n
<1>11. QED
  BY <1>8, <1>9, <1>10 DEF Ordered, r

LEMMA OneBehind ==
  ASSUME NEW q \in Seq(Callback), NEW c \in Callback
  PROVE  /\ q \o <<c>> \in Seq(Callback) /\ Len(q \o <<c>>) = Len(q) + 1 /\ Len(q) \in Nat
         /\ \A i \in 1 .. Len(q) : (q \o <<c>>)[i] = q[i] /\ i < Len(q) + 1
         /\ (q \o <<c>>)[Len(q) + 1] = c
         /\ \A i \in 1 .. Len(q) + 1 : i \in 1 .. Len(q) \/ i = Len(q) + 1
         /\ 1 .. Len(q) \subseteq 1 .. Len(q) + 1
<1>1. <<c>> \in Seq(Callback) /\ Len(<<c>>) = 1 /\ <<c>>[1] = c
  OBVIOUS
<1>2. /\ q \o <<c>> \in Seq(Callback) /\ Len(q \o <<c>>) = Len(q) + Len(<<c>>)
      /\ \A i \in 1 .. Len(q) + Len(<<c>>) :
           (q \o <<c>>)[i] = IF i <= Len(q) THEN q[i] ELSE <<c>>[i - Len(q)]
  BY <1>1, ConcatProperties
<1>3. Len(q) \in Nat
  OBVIOUS
<1>4. QED
  BY <1>1, <1>2, <1>3

\* A callback that is no step of a task changes nothing.
LEMMA OneCallbackMore ==
  ASSUME NEW st, NEW q \in Seq(Callback), NEW s, Ordered(st, q, s), NEW c \in Callback,
         \A t : c # Step(t)
  PROVE  Ordered(st, q \o <<c>>, s) /\ Stepped(q \o <<c>>) = Stepped(q)
<1> DEFINE r == q \o <<c>>
           n == Len(q)
<1>1. /\ Len(r) = n + 1 /\ n \in Nat /\ r[n + 1] = c
      /\ \A i \in 1 .. n : r[i] = q[i]
      /\ \A i \in 1 .. n + 1 : i \in 1 .. n \/ i = n + 1
      /\ 1 .. n \subseteq 1 .. n + 1
  BY OneBehind
<1> HIDE DEF r, n
<1>2. \A t : \A i \in 1 .. Len(r) : r[i] = Step(t) => i \in 1 .. n /\ q[i] = Step(t)
  BY <1>1
<1>3. Stepped(r) = Stepped(q)
  BY <1>1, <1>2 DEF Stepped, n
<1>4. \A t \in AllTasks : \A i, j \in 1 .. Len(r) : r[i] = Step(t) /\ r[j] = Step(t) => i = j
  BY <1>2 DEF Ordered, LinedUp, n
<1>5. \A i, j \in 1 .. Len(r) : \A k, l \in DOMAIN s.waiters :
        i < j /\ r[i] = Step(s.waiters[k]) /\ r[j] = Step(s.waiters[l]) => k < l
  BY <1>2 DEF Ordered, LinedUp, n
<1>6. \A t, u \in Fresh(st, s) : \A i, j \in 1 .. Len(r) :
        i < j /\ r[i] = Step(t) /\ r[j] = Step(u) => NotBehind(t, u)
  BY <1>2 DEF Ordered, InOrder, n
<1>7. LinedUp(st, r, s)
  BY <1>3, <1>4, <1>5 DEF Ordered, LinedUp
<1>8. InOrder(st, r, s)
  BY <1>6 DEF Ordered, InOrder
<1>9. QED
  BY <1>3, <1>7, <1>8 DEF Ordered, r

\* A step of a task that is not scheduled goes behind all others: of one that executes, or
\* of the one that is granted a slot, in front of which the queue has only granted ones.
LEMMA OneStepMore ==
  ASSUME NEW st, NEW q \in Seq(Callback), NEW s \in Semaphore, NEW s2 \in Semaphore,
         NEW t \in AllTasks, Ordered(st, q, s),
         t \notin Stepped(q), t \notin Fresh(st, s), st[t] \in {"READY", "RUNNING"},
         s2.waiters = s.waiters, s.granted \subseteq s2.granted,
         t \in Queued(s) => t \in s2.granted,
         \A m, n \in DOMAIN s2.waiters :
           m < n /\ s2.waiters[n] \in s2.granted => s2.waiters[m] \in s2.granted,
         \A m, n \in DOMAIN s.waiters :
           s.waiters[n] = t /\ s.waiters[m] \in s.granted => m < n
  PROVE  Ordered(st, q \o <<Step(t)>>, s2)
<1> DEFINE r == q \o <<Step(t)>>
           n == Len(q)
<1>1. Step(t) \in Callback
  BY Single
<1>2. /\ Len(r) = n + 1 /\ n \in Nat /\ r[n + 1] = Step(t)
      /\ \A i \in 1 .. n : r[i] = q[i] /\ i < n + 1 /\ ~(n + 1 < i)
      /\ \A i \in 1 .. n + 1 : i \in 1 .. n \/ i = n + 1
      /\ 1 .. n \subseteq 1 .. n + 1
  <2> HIDE DEF n, r
  <2>1. /\ Len(r) = n + 1 /\ n \in Nat /\ r[n + 1] = Step(t)
        /\ \A i \in 1 .. n : r[i] = q[i] /\ i < n + 1
        /\ \A i \in 1 .. n + 1 : i \in 1 .. n \/ i = n + 1
        /\ 1 .. n \subseteq 1 .. n + 1
    BY <1>1, OneBehind DEF n, r
  <2>2. \A i \in 1 .. n : ~(n + 1 < i)
    BY <2>1
  <2>3. QED
    BY <2>1, <2>2
<1> HIDE DEF r, n
<1>3. Queued(s2) = Queued(s) /\ Fresh(st, s2) = Fresh(st, s)
  BY DEF Queued, Fresh
<1>4. Stepped(r) = Stepped(q) \cup {t}
  <2>1. \A u \in AllTasks : u \in Stepped(r) => u \in Stepped(q) \cup {t}
    BY <1>2, StepsDiffer DEF Stepped, n
  <2>2. \A u \in AllTasks : u \in Stepped(q) => u \in Stepped(r)
    BY <1>2 DEF Stepped, n
  <2>3. t \in Stepped(r)
    <3>1. n + 1 \in 1 .. Len(r)
      BY <1>2
    <3>2. QED
      BY <1>2, <3>1 DEF Stepped
  <2>4. Stepped(r) \subseteq AllTasks /\ Stepped(q) \subseteq AllTasks
    BY DEF Stepped
  <2>5. QED
    BY <2>1, <2>2, <2>3, <2>4
<1>5. \A u : \A i \in 1 .. Len(r) :
        r[i] = Step(u) => (i \in 1 .. n /\ q[i] = Step(u)) \/ (i = n + 1 /\ u = t)
  BY <1>2, StepsDiffer
<1>6. \A i \in 1 .. n : q[i] # Step(t)
  BY DEF Stepped, n
<1>7. \A u \in AllTasks : \A i, j \in 1 .. Len(r) : r[i] = Step(u) /\ r[j] = Step(u) => i = j
  BY <1>5, <1>6 DEF Ordered, LinedUp, n
<1>8. ASSUME NEW i \in 1 .. Len(r), NEW j \in 1 .. Len(r),
             NEW k \in DOMAIN s.waiters, NEW l \in DOMAIN s.waiters,
             i < j, r[i] = Step(s.waiters[k]), r[j] = Step(s.waiters[l])
      PROVE  k < l
  <2>1. i \in 1 .. n /\ q[i] = Step(s.waiters[k])
    <3>1. i # n + 1
      BY <1>2, <1>8
    <3>2. QED
      BY <1>5, <1>8, <3>1
  <2>2. CASE j \in 1 .. n /\ q[j] = Step(s.waiters[l])
    BY <1>8, <2>1, <2>2 DEF Ordered, LinedUp, n
  <2>3. CASE j = n + 1 /\ s.waiters[l] = t
    <3>1. s.waiters[k] \in AllTasks /\ s.waiters[k] \in Queued(s)
      BY QueuedTyped DEF Queued
    <3>2. s.waiters[k] \in Stepped(q)
      BY <2>1, <3>1 DEF Stepped, n
    <3>3. s.waiters[k] \in s.granted
      BY <3>1, <3>2 DEF Ordered, LinedUp
    <3>4. QED
      BY <2>3, <3>3
  <2>4. QED
    BY <1>5, <1>8, <2>2, <2>3
<1>9. ASSUME NEW u \in Fresh(st, s), NEW v \in Fresh(st, s),
             NEW i \in 1 .. Len(r), NEW j \in 1 .. Len(r),
             i < j, r[i] = Step(u), r[j] = Step(v)
      PROVE  NotBehind(u, v)
  <2>1. i \in 1 .. n /\ q[i] = Step(u) /\ j \in 1 .. n /\ q[j] = Step(v)
    BY <1>5, <1>9
  <2>2. QED
    BY <1>9, <2>1 DEF Ordered, InOrder, n
<1>10. LinedUp(st, r, s2)
  <2>1. \A u \in Stepped(r) : st[u] \in {"READY", "RUNNING"}
    BY <1>4 DEF Ordered, LinedUp
  <2>2. Stepped(r) \cap Queued(s2) \subseteq s2.granted
    BY <1>3, <1>4 DEF Ordered, LinedUp
  <2>3. \A i, j \in 1 .. Len(r) : \A k, l \in DOMAIN s2.waiters :
          i < j /\ r[i] = Step(s2.waiters[k]) /\ r[j] = Step(s2.waiters[l]) => k < l
    BY <1>8
  <2>4. QED
    BY <1>7, <2>1, <2>2, <2>3 DEF LinedUp
<1>11. InOrder(st, r, s2)
  BY <1>3, <1>9 DEF Ordered, InOrder
<1>12. QED
  BY <1>10, <1>11 DEF Ordered, r

LEMMA SameQueue ==
  ASSUME NEW st, NEW q, NEW s, NEW s2, Ordered(st, q, s),
         s2.waiters = s.waiters, s2.granted = s.granted
  PROVE  Ordered(st, q, s2)
<1>1. Queued(s2) = Queued(s) /\ Fresh(st, s2) = Fresh(st, s)
  BY DEF Queued, Fresh
<1>2. LinedUp(st, q, s2)
  BY <1>1 DEF Ordered, LinedUp
<1>3. InOrder(st, q, s2)
  BY <1>1 DEF Ordered, InOrder
<1>4. QED
  BY <1>2, <1>3 DEF Ordered

\* The one task that has been granted a slot is woken.
LEMMA OneWakeup ==
  ASSUME NEW s, NEW s2, NEW w, w \in s2.granted, w \notin s.granted,
         \A x \in s2.granted : x \notin s.granted => x = w
  PROVE  Wakeups(s, s2) = <<Step(w)>>
<1> DEFINE v == CHOOSE t \in s2.granted : t \notin s.granted
<1>1. v \in s2.granted /\ v \notin s.granted
  OBVIOUS
<1>2. Wakeups(s, s2) = <<Step(v)>>
  BY DEF Wakeups
<1> HIDE DEF v
<1>3. QED
  BY <1>1, <1>2

\* A hand-over schedules the first waiter without a slot behind those with one.  s0 is the
\* semaphore as it was before the slot became free.
LEMMA WakeNextOrdered ==
  ASSUME NEW st, NEW q \in Seq(Callback), NEW s \in Semaphore, s.value > 0,
         Ordered(st, q, s),
         \A i, j \in DOMAIN s.waiters : s.waiters[i] = s.waiters[j] => i = j,
         s.granted \subseteq Queued(s),
         \A u \in Queued(s) : st[u] = "READY",
         NEW s0, \A u \in Queued(s) : u \in s0.granted <=> u \in s.granted
  PROVE  Ordered(st, q \o Wakeups(s0, WakeNext(s)), WakeNext(s))
<1> DEFINE first == {i \in DOMAIN s.waiters :
                       /\ s.waiters[i] \notin s.granted
                       /\ \A j \in 1 .. i - 1 : s.waiters[j] \in s.granted}
<1>1. /\ DOMAIN s.waiters = 1 .. Len(s.waiters) /\ Len(s.waiters) \in Nat
      /\ Queued(s) \in SUBSET AllTasks /\ WakeNext(s) \in Semaphore
  BY QueuedTyped, WakeNextKeeps
<1>2. CASE first = {}
  <2>1. WakeNext(s) = s
    BY <1>2 DEF WakeNext
  <2>2. Wakeups(s0, s) = <<>>
    BY DEF Wakeups
  <2>3. q \o <<>> = q
    BY ConcatEmptySeq
  <2>4. QED
    BY <2>1, <2>2, <2>3
<1>3. CASE first # {}
  <2>1. PICK i \in first : TRUE
    BY <1>3
  <2>2. \A k \in first : k = i
    <3>1. SUFFICES ASSUME NEW k \in first, k # i PROVE FALSE
      OBVIOUS
    <3>2. k \in 1 .. i - 1 \/ i \in 1 .. k - 1
      BY <1>1, <2>1, <3>1
    <3>3. QED
      BY <2>1, <3>1, <3>2
  <2>3. {s.waiters[k] : k \in first} = {s.waiters[i]}
    BY <2>1, <2>2
  <2>4. /\ i \in DOMAIN s.waiters /\ s.waiters[i] \notin s.granted
        /\ \A j \in DOMAIN s.waiters : j < i => s.waiters[j] \in s.granted
    BY <1>1, <2>1
  <2> DEFINE w == s.waiters[i]
             g == s.granted \cup {w}
             after == [s EXCEPT !.value = @ - 1, !.granted = g]
  <2>5. WakeNext(s) = after
    BY <1>3, <2>3 DEF WakeNext
  <2>6. after.granted = g /\ after.waiters = s.waiters
    BY DEF Semaphore
  <2> HIDE DEF first, after
  <2>7. w \in Queued(s) /\ w \in AllTasks
    BY <1>1, <2>4 DEF Queued
  <2>8. Wakeups(s0, after) = <<Step(w)>>
    <3>1. w \in after.granted /\ w \notin s0.granted
      BY <2>4, <2>6, <2>7
    <3>2. \A x \in after.granted : x \notin s0.granted => x = w
      BY <2>6
    <3> HIDE DEF w
    <3>3. QED
      BY <3>1, <3>2, OneWakeup
  <2>9. w \notin Stepped(q) /\ w \notin Fresh(st, s) /\ st[w] = "READY"
    BY <2>4, <2>7 DEF Ordered, LinedUp, Fresh
  <2>10. \A m, n \in DOMAIN s.waiters :
           m < n /\ s.waiters[n] \in g => s.waiters[m] \in g
    BY <2>4 DEF Ordered, LinedUp
  <2>11. \A m, n \in DOMAIN s.waiters :
           s.waiters[n] = w /\ s.waiters[m] \in s.granted => m < n
    <3>1. SUFFICES ASSUME NEW m \in DOMAIN s.waiters, s.waiters[m] \in s.granted
                   PROVE  m < i
      BY <2>4
    <3>2. m # i /\ ~(i < m)
      BY <2>4, <3>1 DEF Ordered, LinedUp
    <3>3. QED
      BY <1>1, <2>4, <3>2
  <2> HIDE DEF w, g
  <2>12. Ordered(st, q \o <<Step(w)>>, after)
    <3>1. s.granted \subseteq g /\ w \in g
      BY DEF g
    <3>2. after \in Semaphore
      BY <1>1, <2>5
    <3>3. QED
      BY <2>6, <2>7, <2>9, <2>10, <2>11, <3>1, <3>2, OneStepMore
  <2>13. QED
    BY <2>5, <2>8, <2>12
<1>4. QED
  BY <1>2, <1>3

LEMMA ReleaseOrdered ==
  ASSUME NEW st, NEW q \in Seq(Callback), NEW s \in Semaphore, HandsOver(s),
         Ordered(st, q, s), \A u \in Queued(s) : st[u] = "READY"
  PROVE  Ordered(st, q \o Wakeups(s, Release(s)), Release(s))
<1> DEFINE v == s.value + 1
           more == [s EXCEPT !.value = v]
<1>1. s.value \in Nat /\ v \in Nat /\ v > 0
  BY QueuedTyped
<1> HIDE DEF v
<1>2. more \in Semaphore /\ more.value = v /\ more.waiters = s.waiters
      /\ more.granted = s.granted
  BY <1>1 DEF Semaphore
<1>3. Release(s) = WakeNext(more)
  BY DEF Release, v
<1> HIDE DEF more
<1>4. Queued(more) = Queued(s)
  BY <1>2 DEF Queued
<1>5. Ordered(st, q, more)
  BY <1>2, SameQueue
<1>6. /\ \A i, j \in DOMAIN more.waiters : more.waiters[i] = more.waiters[j] => i = j
      /\ more.granted \subseteq Queued(more)
      /\ \A u \in Queued(more) : st[u] = "READY"
      /\ \A u \in Queued(more) : u \in s.granted <=> u \in more.granted
  BY <1>2, <1>4 DEF HandsOver
<1>7. more.value > 0
  BY <1>1, <1>2
<1>8. Ordered(st, q \o Wakeups(s, WakeNext(more)), WakeNext(more))
  BY <1>2, <1>5, <1>6, <1>7, WakeNextOrdered
<1>9. QED
  BY <1>3, <1>8

\* The first of the queue leaves it.
LEMMA ResumeOrdered ==
  ASSUME NEW st, NEW q \in Seq(Callback), NEW s \in Semaphore, HandsOver(s),
         NEW t \in s.granted, s.waiters[1] = t,
         Ordered(st, q, s), t \notin Stepped(q), st[t] # "READY",
         \A u \in Queued(s) \ {t} : st[u] = "READY"
  PROVE  Ordered(st, q \o Wakeups(s, Resume(s, t)), Resume(s, t))
<1> DEFINE ws == s.waiters
           n == Len(s.waiters)
           at == CHOOSE i \in DOMAIN s.waiters : s.waiters[i] = t
           queue == [i \in 1 .. Len(s.waiters) - 1 |->
                       IF i < at THEN s.waiters[i] ELSE s.waiters[i + 1]]
           g == s.granted \ {t}
           left == [s EXCEPT !.waiters = queue, !.granted = g]
<1>1. /\ DOMAIN ws = 1 .. n /\ n \in Nat /\ ws \in Seq(AllTasks) /\ s.value \in Nat
      /\ s.granted \in SUBSET AllTasks
  BY QueuedTyped
<1>2. at = 1 /\ 1 \in 1 .. n
  <2>1. \E i \in DOMAIN ws : ws[i] = t
    BY DEF HandsOver, Queued
  <2>2. at \in DOMAIN ws /\ ws[at] = t
    BY <2>1
  <2>3. 1 \in DOMAIN ws
    BY <1>1, <2>2
  <2>4. QED
    BY <1>1, <2>2, <2>3 DEF HandsOver
<1>3. Resume(s, t) = IF left.value > 0 THEN WakeNext(left) ELSE left
  BY DEF Resume
<1> HIDE DEF at
<1>4. /\ n - 1 \in Nat /\ DOMAIN queue = 1 .. n - 1
      /\ \A i \in 1 .. n - 1 : queue[i] = ws[i + 1] /\ i + 1 \in 1 .. n /\ i + 1 # 1
  BY <1>1, <1>2
<1>5. queue \in Seq(AllTasks)
  <2>1. \A i \in 1 .. n - 1 : queue[i] \in AllTasks
    BY <1>1, <1>4
  <2>2. queue \in [1 .. n - 1 -> AllTasks]
    BY <1>4, <2>1
  <2> HIDE DEF queue, n, ws
  <2>3. QED
    BY <1>4, <2>2, SeqDef
<1> HIDE DEF queue, n
<1>6. left \in Semaphore /\ left.value = s.value /\ left.waiters = queue /\ left.granted = g
  BY <1>1, <1>5 DEF Semaphore
<1>7. ws = s.waiters
  OBVIOUS
<1> HIDE DEF left, ws
<1>8. \A i, j \in 1 .. n : ws[i] = ws[j] => i = j
  BY <1>7, <1>1 DEF HandsOver
<1>9. ws[1] = t /\ \A i \in 1 .. n - 1 : queue[i] # t
  BY <1>7, <1>2, <1>4, <1>8
<1>10. Queued(left) = Queued(s) \ {t}
  <2>1. Queued(s) = {ws[i] : i \in 1 .. n} /\ Queued(left) = {queue[i] : i \in 1 .. n - 1}
    <3>1. Queued(s) = {ws[i] : i \in DOMAIN ws}
      BY <1>7 DEF Queued
    <3>2. Queued(left) = {queue[i] : i \in DOMAIN queue}
      BY <1>6 DEF Queued
    <3>3. QED
      BY <1>1, <1>4, <3>1, <3>2
  <2>2. ASSUME NEW i \in 1 .. n, ws[i] # t PROVE ws[i] \in {queue[j] : j \in 1 .. n - 1}
    <3>1. i # 1
      BY <1>9, <2>2
    <3>2. i - 1 \in 1 .. n - 1 /\ (i - 1) + 1 = i
      BY <1>1, <3>1
    <3>3. queue[i - 1] = ws[i]
      BY <1>4, <3>2
    <3>4. QED
      BY <3>2, <3>3
  <2>3. \A i \in 1 .. n - 1 : queue[i] \in {ws[j] : j \in 1 .. n} \ {t}
    BY <1>4, <1>9
  <2>4. QED
    BY <2>1, <2>2, <2>3
<1>11. Fresh(st, left) = Fresh(st, s)
  BY <1>10 DEF Fresh
<1>12. \A i, j \in 1 .. n - 1 : i + 1 = j + 1 => i = j
  BY <1>4
<1>13. \A i, j \in 1 .. n - 1 : i < j => i + 1 < j + 1
  BY <1>4
<1>14. \A i, j \in 1 .. n - 1 : i + 1 < j + 1 => i < j
  BY <1>4
<1>15. /\ \A m, l \in 1 .. n : m < l /\ ws[l] \in s.granted => ws[m] \in s.granted
       /\ \A i, j \in 1 .. Len(q) : \A m, l \in 1 .. n :
            i < j /\ q[i] = Step(ws[m]) /\ q[j] = Step(ws[l]) => m < l
       /\ \A m, l \in 1 .. n : m < l => NotBehind(ws[m], ws[l])
  BY <1>7, <1>1 DEF Ordered, LinedUp, InOrder
<1>16. LinedUp(st, q, left)
  <2>1. Stepped(q) \cap Queued(left) \subseteq left.granted
    BY <1>6, <1>10 DEF Ordered, LinedUp
  <2>2. \A k, l \in DOMAIN left.waiters :
          k < l /\ left.waiters[l] \in left.granted => left.waiters[k] \in left.granted
    <3>1. SUFFICES ASSUME NEW k \in 1 .. n - 1, NEW l \in 1 .. n - 1, k < l,
                          queue[l] \in g
                   PROVE  queue[k] \in g
      BY <1>4, <1>6
    <3>2. ws[l + 1] \in s.granted /\ l + 1 \in 1 .. n /\ k + 1 \in 1 .. n /\ k + 1 < l + 1
      BY <1>4, <1>13, <3>1
    <3>3. queue[k] \in s.granted
      BY <1>4, <1>15, <3>2
    <3>4. QED
      BY <1>9, <3>3
  <2>3. \A i, j \in 1 .. Len(q) : \A k, l \in DOMAIN left.waiters :
          i < j /\ q[i] = Step(left.waiters[k]) /\ q[j] = Step(left.waiters[l]) => k < l
    <3>1. SUFFICES ASSUME NEW i \in 1 .. Len(q), NEW j \in 1 .. Len(q),
                          NEW k \in 1 .. n - 1, NEW l \in 1 .. n - 1, i < j,
                          q[i] = Step(queue[k]), q[j] = Step(queue[l])
                   PROVE  k < l
      BY <1>4, <1>6
    <3>2. k + 1 < l + 1
      BY <1>4, <1>15, <3>1
    <3>3. QED
      BY <1>14, <3>2
  <2>4. QED
    BY <2>1, <2>2, <2>3 DEF Ordered, LinedUp
<1>17. InOrder(st, q, left)
  <2>1. \A k, l \in DOMAIN left.waiters :
          k < l => NotBehind(left.waiters[k], left.waiters[l])
    <3>1. SUFFICES ASSUME NEW k \in 1 .. n - 1, NEW l \in 1 .. n - 1, k < l
                   PROVE  NotBehind(queue[k], queue[l])
      BY <1>4, <1>6
    <3>2. QED
      BY <1>4, <1>13, <1>15, <3>1
  <2>2. QED
    BY <1>10, <1>11, <2>1 DEF Ordered, InOrder
<1>18. Ordered(st, q, left)
  BY <1>16, <1>17 DEF Ordered
<1>19. CASE left.value > 0
  <2>1. \A i, j \in DOMAIN left.waiters : left.waiters[i] = left.waiters[j] => i = j
    BY <1>4, <1>6, <1>8, <1>12
  <2>2. /\ left.granted \subseteq Queued(left)
        /\ \A u \in Queued(left) : st[u] = "READY"
        /\ \A u \in Queued(left) : u \in s.granted <=> u \in left.granted
    BY <1>6, <1>10 DEF HandsOver
  <2>3. Ordered(st, q \o Wakeups(s, WakeNext(left)), WakeNext(left))
    BY <1>6, <1>18, <1>19, <2>1, <2>2, WakeNextOrdered
  <2>4. QED
    BY <1>3, <1>19, <2>3
<1>20. CASE ~(left.value > 0)
  <2>1. Resume(s, t) = left /\ Wakeups(s, left) = <<>>
    BY <1>3, <1>6, <1>20 DEF Wakeups
  <2>2. q \o <<>> = q
    BY ConcatEmptySeq
  <2>3. QED
    BY <1>18, <2>1, <2>2
<1>21. QED
  BY <1>19, <1>20

\* What the executor does after the task has entered the semaphore.
LEMMA ExecuteOrdered ==
  ASSUME NEW t \in AllTasks, NEW s \in Semaphore, NEW rest \in Seq(Callback),
         HandsOver(s), Execute(t, s, rest),
         Ordered(status', rest, s), \A u \in Queued(s) : status'[u] = "READY"
  PROVE  Ordered(status', loop', sem')
<1>1. CASE Finish(t, s, rest)
  <2>0. PICK resumed \in {<<Main>>, <<>>} :
          loop' = ((rest \o resumed) \o Wakeups(s, Release(s))) \o <<Discard(t)>>
    BY <1>1, FinishShape
  <2> DEFINE one == rest \o resumed
             two == one \o Wakeups(s, Release(s))
  <2>1. loop' = two \o <<Discard(t)>> /\ sem' = Release(s)
    BY <1>1, <2>0, FinishShape
  <2>2. one \in Seq(Callback) /\ Ordered(status', one, s)
    <3>1. CASE resumed = <<Main>>
      <4>1. Main \in Callback /\ \A u : Main # Step(u)
        BY Single, StepsDiffer
      <4>2. rest \o <<Main>> \in Seq(Callback) /\ Ordered(status', rest \o <<Main>>, s)
        BY <4>1, OneBehind, OneCallbackMore
      <4>3. QED
        BY <3>1, <4>2
    <3>2. CASE resumed = <<>>
      <4>1. rest \o <<>> = rest
        BY ConcatEmptySeq
      <4>2. QED
        BY <3>2, <4>1
    <3>3. QED
      BY <3>1, <3>2
  <2> HIDE DEF one
  <2>3. Ordered(status', two, Release(s))
    BY <2>2, ReleaseOrdered
  <2>4. two \in Seq(Callback)
    <3>1. Wakeups(s, Release(s)) \in Seq(Callback)
      BY ReleaseAdds, WakeupsOnlyStep
    <3>2. QED
      BY <2>2, <3>1, Concatenated
  <2> HIDE DEF two
  <2>5. Discard(t) \in Callback /\ \A u : Discard(t) # Step(u)
    BY Single, StepsDiffer
  <2>6. Ordered(status', two \o <<Discard(t)>>, Release(s))
    BY <2>3, <2>4, <2>5, OneCallbackMore
  <2>7. QED
    BY <2>1, <2>6
<1>2. CASE ~Finish(t, s, rest)
  <2>1. sem' = s /\ loop' = rest
    BY <1>2 DEF Execute
  <2>2. QED
    BY <2>1
<1>3. QED
  BY <1>1, <1>2

\* The next task to reach the semaphore is not behind the others on their way to it.
LEMMA FirstFresh ==
  ASSUME SafetyInv, WakeInv, OrderInv, NEW t \in AllTasks, loop # <<>>, Head(loop) = Step(t),
         t \in Fresh(status, sem), NEW u \in Fresh(status, sem), u # t
  PROVE  NotBehind(t, u)
<1>1. loop \in Seq(Callback)
  BY DEF SafetyInv, TypeOK
<1>2. /\ status[u] = "READY" /\ u \in AllTasks /\ u \notin Queued(sem)
      /\ u \in Stepped(loop) \/ u \in Queued(sem) \ sem.granted
  BY DEF Fresh, WakeInv, Awake
<1>3. u \in Stepped(loop)
  BY <1>2
<1>4. PICK j \in 1 .. Len(loop) : loop[j] = Step(u)
  BY <1>3 DEF Stepped
<1>5. loop[1] = Step(t) /\ Len(loop) \in Nat
  BY <1>1
<1>6. j # 1
  BY <1>4, <1>5, StepsDiffer
<1>7. 1 \in 1 .. Len(loop) /\ 1 < j
  BY <1>4, <1>5, <1>6
<1>8. QED
  BY <1>4, <1>5, <1>7 DEF OrderInv, InOrder

\* The next task to resume is the first in the queue.
LEMMA FirstGranted ==
  ASSUME SafetyInv, WakeInv, OrderInv, NEW t \in sem.granted, loop # <<>>,
         Head(loop) = Step(t)
  PROVE  sem.waiters[1] = t
<1>1. /\ loop \in Seq(Callback) /\ Len(loop) \in Nat /\ loop[1] = Step(t)
      /\ sem \in Semaphore
  BY DEF SafetyInv, TypeOK, Semaphore
<1>2. DOMAIN sem.waiters = 1 .. Len(sem.waiters) /\ Len(sem.waiters) \in Nat
      /\ Queued(sem) \in SUBSET AllTasks
  BY <1>1, QueuedTyped
<1>3. PICK n \in DOMAIN sem.waiters : sem.waiters[n] = t
  BY DEF WakeInv, Awake, HandsOver, Queued
<1>4. CASE n = 1
  BY <1>3, <1>4
<1>5. ASSUME n # 1 PROVE FALSE
  <2>1. 1 \in DOMAIN sem.waiters /\ 1 < n
    BY <1>2, <1>3, <1>5
  <2>2. sem.waiters[1] \in sem.granted
    BY <1>3, <2>1 DEF OrderInv, LinedUp
  <2>3. sem.waiters[1] # t
    BY <1>3, <1>5, <2>1 DEF WakeInv, Awake, HandsOver
  <2>4. sem.waiters[1] \in Stepped(loop)
    BY <2>2 DEF WakeInv, Awake
  <2>5. PICK j \in 1 .. Len(loop) : loop[j] = Step(sem.waiters[1])
    BY <2>4 DEF Stepped
  <2>6. j # 1
    BY <1>1, <2>3, <2>5, StepsDiffer
  <2>7. 1 \in 1 .. Len(loop) /\ 1 < j
    BY <1>1, <2>5, <2>6
  <2>8. n < 1
    BY <1>1, <1>3, <2>1, <2>5, <2>7 DEF OrderInv, LinedUp
  <2>9. QED
    BY <2>1, <2>8, <1>2, <1>3
<1>6. QED
  BY <1>4, <1>5

\* A task that has to wait queues behind all others, ahead of those still on their way.
LEMMA QueueOrdered ==
  ASSUME NEW st, NEW q, NEW s \in Semaphore, NEW s2, NEW t \in Fresh(st, s),
         Ordered(st, q, s), t \notin Stepped(q), s.granted \subseteq Queued(s),
         \A u \in Fresh(st, s) : u # t => NotBehind(t, u),
         s2.waiters = Append(s.waiters, t), s2.granted = s.granted
  PROVE  Ordered(st, q, s2)
<1> DEFINE ws == s.waiters
           vs == s2.waiters
           n == Len(s.waiters)
<1>1. /\ DOMAIN ws = 1 .. n /\ n \in Nat /\ ws \in Seq(AllTasks) /\ t \in AllTasks
      /\ t \notin Queued(s) /\ \A i \in 1 .. n : ws[i] \in Queued(s)
  <2>1. DOMAIN ws = 1 .. n /\ n \in Nat /\ ws \in Seq(AllTasks)
    BY QueuedTyped
  <2>2. QED
    BY <2>1 DEF Fresh, Queued
<1>2. /\ vs[n + 1] = t /\ \A i \in 1 .. n : vs[i] = ws[i]
      /\ DOMAIN vs = 1 .. n + 1
  <2>1. vs = Append(ws, t)
    OBVIOUS
  <2> HIDE DEF vs, ws, n
  <2>2. n = Len(ws)
    BY DEF n, ws
  <2>3. QED
    BY <1>1, <2>1, <2>2
<1>0. ws = s.waiters /\ vs = s2.waiters
  OBVIOUS
<1> HIDE DEF vs, ws, n
<1>3. \A i \in 1 .. n + 1 : (i \in 1 .. n /\ i < n + 1) \/ i = n + 1
  BY <1>1
<1>4. Queued(s) = {ws[i] : i \in 1 .. n} /\ Queued(s2) = {vs[i] : i \in 1 .. n + 1}
  <2>1. Queued(s) = {ws[i] : i \in DOMAIN ws} /\ Queued(s2) = {vs[i] : i \in DOMAIN vs}
    BY <1>0 DEF Queued
  <2>2. QED
    BY <1>1, <1>2, <2>1
<1>5. Queued(s2) = Queued(s) \cup {t}
  <2>1. n + 1 \in 1 .. n + 1 /\ 1 .. n \subseteq 1 .. n + 1
    BY <1>1
  <2>2. QED
    BY <1>2, <1>3, <1>4, <2>1
<1>6. Fresh(st, s2) = Fresh(st, s) \ {t}
  BY <1>5 DEF Fresh
<1>7. /\ \A m, l \in 1 .. n : m < l /\ ws[l] \in s.granted => ws[m] \in s.granted
      /\ \A i, j \in 1 .. Len(q) : \A m, l \in 1 .. n :
           i < j /\ q[i] = Step(ws[m]) /\ q[j] = Step(ws[l]) => m < l
      /\ \A m, l \in 1 .. n : m < l => NotBehind(ws[m], ws[l])
  BY <1>0, <1>1 DEF Ordered, LinedUp, InOrder
<1>8. \A i \in 1 .. Len(q) : q[i] # Step(t)
  BY <1>1 DEF Stepped
<1>9. LinedUp(st, q, s2)
  <2>1. Stepped(q) \cap Queued(s2) \subseteq s2.granted
    BY <1>5 DEF Ordered, LinedUp
  <2>2. \A k, l \in DOMAIN s2.waiters :
          k < l /\ s2.waiters[l] \in s2.granted => s2.waiters[k] \in s2.granted
    <3>1. SUFFICES ASSUME NEW k \in 1 .. n + 1, NEW l \in 1 .. n + 1, k < l,
                          vs[l] \in s.granted
                   PROVE  vs[k] \in s.granted
      BY <1>0, <1>2
    <3>2. vs[l] # t
      BY <1>1, <3>1
    <3>3. l \in 1 .. n
      BY <1>2, <1>3, <3>2
    <3>4. k \in 1 .. n
      BY <1>1, <3>1, <3>3
    <3>5. QED
      BY <1>2, <1>7, <3>1, <3>3, <3>4
  <2>3. \A i, j \in 1 .. Len(q) : \A k, l \in DOMAIN s2.waiters :
          i < j /\ q[i] = Step(s2.waiters[k]) /\ q[j] = Step(s2.waiters[l]) => k < l
    <3>1. SUFFICES ASSUME NEW i \in 1 .. Len(q), NEW j \in 1 .. Len(q),
                          NEW k \in 1 .. n + 1, NEW l \in 1 .. n + 1, i < j,
                          q[i] = Step(vs[k]), q[j] = Step(vs[l])
                   PROVE  k < l
      BY <1>0, <1>2
    <3>2. k \in 1 .. n /\ l \in 1 .. n
      BY <1>2, <1>3, <1>8, <3>1
    <3>3. QED
      BY <1>2, <1>7, <3>1, <3>2
  <2>4. QED
    BY <2>1, <2>2, <2>3 DEF Ordered, LinedUp
<1>10. InOrder(st, q, s2)
  <2>1. \A k, l \in DOMAIN s2.waiters : k < l => NotBehind(s2.waiters[k], s2.waiters[l])
    <3>1. SUFFICES ASSUME NEW k \in 1 .. n + 1, NEW l \in 1 .. n + 1, k < l
                   PROVE  NotBehind(vs[k], vs[l])
      BY <1>0, <1>2
    <3>2. k \in 1 .. n
      BY <1>1, <3>1
    <3>3. CASE l \in 1 .. n
      BY <1>2, <1>7, <3>1, <3>2, <3>3
    <3>4. CASE l = n + 1
      <4>1. vs[l] = t /\ vs[k] \in Queued(s)
        BY <1>1, <1>2, <3>2, <3>4
      <4>2. QED
        BY <4>1 DEF Ordered, InOrder
    <3>5. QED
      BY <1>3, <3>3, <3>4
  <2>2. \A u \in Queued(s2), v \in Fresh(st, s2) : NotBehind(u, v)
    BY <1>5, <1>6 DEF Ordered, InOrder
  <2>3. QED
    BY <1>6, <2>1, <2>2 DEF Ordered, InOrder
<1>11. QED
  BY <1>9, <1>10 DEF Ordered

\* What a callback of a task does to the status of the tasks.
LEMMA OneStatus ==
  ASSUME TypeOK, NEW t \in AllTasks, TaskBegins(t) \/ TaskResumes(t) \/ TaskEnds(t)
  PROVE  /\ \A u \in AllTasks : u # t => status'[u] = status[u]
         /\ status' = status \/ status'[t] # "READY"
         /\ \A u \in AllTasks : status'[u] = "READY" => status[u] = "READY"
<1>1. Moves(t)
  BY TaskMoves
<1>2. \/ status' = status
      \/ \E o \in {"RUNNING", "COMPLETED", "FAILED", "ABANDONED"} : status' = [status EXCEPT ![t] = o]
  BY <1>1 DEF Moves
<1>3. CASE status' = status
  BY <1>3
<1>4. ASSUME NEW o \in {"RUNNING", "COMPLETED", "FAILED", "ABANDONED"}, status' = [status EXCEPT ![t] = o]
      PROVE  /\ \A u \in AllTasks : u # t => status'[u] = status[u]
             /\ status'[t] # "READY"
             /\ \A u \in AllTasks : status'[u] = "READY" => status[u] = "READY"
  BY <1>4 DEF TypeOK
<1>5. QED
  BY <1>2, <1>3, <1>4

\* Inside the semaphore the task is not READY any more.
LEMMA ExecuteStarts ==
  ASSUME TypeOK, NEW t \in AllTasks, NEW s, NEW rest, Execute(t, s, rest)
  PROVE  status'[t] # "READY" /\ \A u \in AllTasks : u # t => status'[u] = status[u]
<1>1. \E o \in {"RUNNING", "COMPLETED", "FAILED", "ABANDONED"} : status' = [status EXCEPT ![t] = o]
  BY DEF Execute, Finish
<1>2. QED
  BY <1>1 DEF TypeOK

LEMMA TaskOrdered ==
  ASSUME SafetyInv, WakeInv, OrderInv, NEW t \in AllTasks,
         TaskBegins(t) \/ TaskResumes(t) \/ TaskEnds(t)
  PROVE  Ordered(status', loop', sem')
<1> DEFINE rest == Tail(loop)
<1>1. /\ TypeOK /\ sem \in Semaphore /\ loop \in Seq(Callback) /\ loop # <<>>
      /\ Head(loop) = Step(t)
  BY DEF SafetyInv, TypeOK, Semaphore, TaskBegins, TaskResumes, TaskEnds
<1>2. rest \in Seq(Callback)
  BY <1>1, Dequeued
<1>3. Ordered(status, loop, sem)
  BY DEF OrderInv, Ordered
<1>4. Ordered(status, rest, sem) /\ t \notin Stepped(rest)
  BY <1>1, <1>3, OneCallbackLess
<1> HIDE DEF rest
<1>5. /\ HandsOver(sem) /\ sem.granted \subseteq Queued(sem)
      /\ \A u \in Queued(sem) : status[u] = "READY"
      /\ Queued(sem) \subseteq AllTasks /\ sem.value \in Nat
  BY <1>1, QueuedTyped DEF WakeInv, Awake, HandsOver
<1>6. /\ \A u \in AllTasks : u # t => status'[u] = status[u]
      /\ \A u \in AllTasks : status'[u] = "READY" => status[u] = "READY"
  BY <1>1, OneStatus
<1>7. Ordered(status', rest, sem)
  <2>1. \A u \in Stepped(rest) : status'[u] \in {"READY", "RUNNING"}
    BY <1>4, <1>6 DEF Ordered, LinedUp, Stepped
  <2>2. QED
    BY <1>4, <1>6, <2>1, FewerReady
<1>8. CASE TaskBegins(t)
  <2>1. t \notin Queued(sem) /\ status[t] = "READY"
    BY <1>8 DEF TaskBegins, Queued
  <2>2. t \in Fresh(status, sem)
    BY <2>1 DEF Fresh
  <2>3. CASE Locked
    <3> DEFINE ws == Append(sem.waiters, t)
    <3>1. sem' = [sem EXCEPT !.waiters = ws] /\ loop' = rest /\ status' = status
      BY <1>8, <2>3 DEF TaskBegins, rest
    <3> HIDE DEF ws
    <3>2. sem'.waiters = ws /\ sem'.granted = sem.granted
      BY <1>1, <3>1 DEF Semaphore
    <3>3. sem'.waiters = Append(sem.waiters, t)
      BY <3>2 DEF ws
    <3>4. \A u \in Fresh(status, sem) : u # t => NotBehind(t, u)
      BY <1>1, <2>2, FirstFresh
    <3>5. Ordered(status, rest, sem')
      BY <1>1, <1>4, <1>5, <2>2, <3>2, <3>3, <3>4, QueueOrdered
    <3>6. QED
      BY <3>1, <3>5
  <2>4. CASE ~Locked
    <3> DEFINE v == sem.value - 1
               taken == [sem EXCEPT !.value = v]
    <3>1. sem.value > 0 /\ sem.waiters = <<>> /\ v \in Nat
      BY <1>5, <2>4 DEF Locked
    <3>2. Execute(t, taken, rest)
      BY <1>8, <2>4 DEF TaskBegins, rest
    <3> HIDE DEF v
    <3>3. taken \in Semaphore /\ taken.waiters = sem.waiters /\ taken.granted = sem.granted
      BY <1>1, <3>1 DEF Semaphore
    <3>4. Queued(sem) = {} /\ Queued(taken) = {} /\ taken.granted = {}
      BY <1>5, <3>1, <3>3 DEF Queued
    <3> HIDE DEF taken
    <3>5. HandsOver(taken)
      BY <3>1, <3>3, <3>4 DEF HandsOver
    <3>6. Ordered(status', rest, taken)
      BY <1>7, <3>3, SameQueue
    <3>7. QED
      BY <1>2, <3>2, <3>3, <3>4, <3>5, <3>6, ExecuteOrdered
  <2>5. QED
    BY <2>3, <2>4
<1>9. CASE TaskResumes(t)
  <2> DEFINE resumed == Resume(sem, t)
             queue == rest \o Wakeups(sem, resumed)
  <2>1. status[t] = "READY" /\ t \in sem.granted /\ Execute(t, resumed, queue)
    BY <1>9 DEF TaskResumes, rest
  <2>2. resumed \in Semaphore /\ HandsOver(resumed) /\ Queued(resumed) = Queued(sem) \ {t}
    BY <1>1, <1>5, <2>1, ResumeHandsOver, ResumeTakes
  <2>3. sem.waiters[1] = t
    BY <1>1, <2>1, FirstGranted
  <2>4. status'[t] # "READY" /\ \A u \in Queued(sem) \ {t} : status'[u] = "READY"
    <3>1. status'[t] # "READY"
      BY <1>1, <2>1, ExecuteStarts
    <3>2. QED
      BY <1>5, <1>6, <3>1
  <2>5. Ordered(status', queue, resumed)
    BY <1>1, <1>2, <1>4, <1>5, <1>7, <2>1, <2>3, <2>4, ResumeOrdered
  <2>6. queue \in Seq(Callback)
    <3>1. Wakeups(sem, resumed) \in Seq(Callback)
      BY <1>1, <2>2, WakeupsOnlyStep
    <3>2. QED
      BY <1>2, <3>1, Concatenated
  <2> HIDE DEF resumed, queue
  <2>7. QED
    BY <2>1, <2>2, <2>4, <2>5, <2>6, ExecuteOrdered
<1>10. CASE TaskEnds(t)
  <2>1. status[t] = "RUNNING" /\ Execute(t, sem, rest)
    BY <1>10 DEF TaskEnds, rest, Execute
  <2>2. \A u \in Queued(sem) : status'[u] = "READY"
    BY <1>5, <1>6, <2>1
  <2>3. QED
    BY <1>1, <1>2, <1>5, <1>7, <2>1, <2>2, ExecuteOrdered
<1>11. QED
  BY <1>8, <1>9, <1>10

\* A task that starts is not behind any that stays READY.
LEMMA StartsInOrder ==
  ASSUME SafetyInv, WakeInv, OrderInv, NEW t \in AllTasks,
         TaskBegins(t) \/ TaskResumes(t) \/ TaskEnds(t),
         status[t] = "READY", status'[t] # "READY",
         NEW u \in AllTasks, u # t, status[u] = "READY"
  PROVE  NotBehind(t, u)
<1>1. /\ TypeOK /\ sem \in Semaphore /\ loop # <<>> /\ Head(loop) = Step(t)
  BY DEF SafetyInv, TypeOK, Semaphore, TaskBegins, TaskResumes, TaskEnds
<1>2. u \in Queued(sem) \/ u \in Fresh(status, sem)
  BY DEF Fresh
<1>3. CASE TaskBegins(t)
  <2>1. ~Locked /\ t \in Fresh(status, sem)
    BY <1>3 DEF TaskBegins, Fresh, Queued
  <2>2. Queued(sem) = {}
    BY <2>1 DEF Locked, Queued
  <2>3. QED
    BY <1>1, <1>2, <2>1, <2>2, FirstFresh
<1>4. CASE TaskResumes(t)
  <2>1. t \in sem.granted /\ sem.waiters[1] = t
    BY <1>1, <1>4, FirstGranted DEF TaskResumes
  <2>2. t \in Queued(sem)
    BY <2>1 DEF WakeInv, Awake, HandsOver
  <2>3. CASE u \in Fresh(status, sem)
    BY <2>2, <2>3 DEF OrderInv, InOrder
  <2>4. CASE u \in Queued(sem)
    <3>1. DOMAIN sem.waiters = 1 .. Len(sem.waiters) /\ Len(sem.waiters) \in Nat
      BY <1>1, QueuedTyped
    <3>2. PICK n \in DOMAIN sem.waiters : sem.waiters[n] = u
      BY <2>4 DEF Queued
    <3>3. 1 \in DOMAIN sem.waiters /\ 1 < n
      BY <2>1, <3>1, <3>2
    <3>4. NotBehind(sem.waiters[1], sem.waiters[n])
      BY <3>2, <3>3 DEF OrderInv, InOrder
    <3>5. QED
      BY <2>1, <3>2, <3>4
  <2>5. QED
    BY <1>2, <2>3, <2>4
<1>5. CASE TaskEnds(t)
  BY <1>5 DEF TaskEnds
<1>6. QED
  BY <1>3, <1>4, <1>5

\* A pass puts what it makes ready behind everything that was, the highest priority first.
LEMMA PassOrdered ==
  ASSUME TypeOK, GraphIsClosed, NEW tasks \in SUBSET AllTasks, NEW rest \in Seq(Callback),
         SchedulingPass(tasks, rest), UNCHANGED client,
         sem' \in Semaphore, Ordered(status, rest, sem'),
         \A u \in Queued(sem') : status[u] = "READY",
         \A u \in AllTasks : status[u] = "READY" => pass[u] < passes
  PROVE  OrderInv'
<1> DEFINE S == ReadyTasks
           N(t, u) == \/ pass'[t] < pass'[u]
                      \/ pass'[t] = pass'[u] /\ priority[t] >= priority[u]
           R == {t \in AllTasks : status[t] = "READY" /\ t \notin S}
           F == Fresh(status, sem')
           Q == Queued(sem')
           ws == sem'.waiters
           LoopOrdered ==
             /\ \A t \in AllTasks : \A i, j \in 1 .. Len(loop') :
                  loop'[i] = Step(t) /\ loop'[j] = Step(t) => i = j
             /\ Stepped(loop') = Stepped(rest) \cup S
             /\ \A i, j \in 1 .. Len(loop') : \A k, l \in DOMAIN ws :
                  i < j /\ loop'[i] = Step(ws[k]) /\ loop'[j] = Step(ws[l]) => k < l
             /\ \A t, u \in F \cup S : \A i, j \in 1 .. Len(loop') :
                  i < j /\ loop'[i] = Step(t) /\ loop'[j] = Step(u) => N(t, u)
<1>1. S \in SUBSET AllTasks /\ \A t \in S : status[t] = "PENDING"
  BY SchedulerAssumption DEF ReadyTasks, Tasks, AllTasks, TypeOK
<1>2. /\ status' = [t \in AllTasks |-> IF t \in S THEN "READY" ELSE status[t]]
      /\ pass' = [t \in AllTasks |-> IF t \in S THEN passes ELSE pass[t]]
      /\ passes' = passes + 1 /\ priority' = priority
  BY DEF SchedulingPass, client
<1> HIDE DEF S
<1>3. /\ \A t \in S : status'[t] = "READY" /\ pass'[t] = passes
      /\ \A t \in AllTasks \ S : status'[t] = status[t] /\ pass'[t] = pass[t]
      /\ passes \in Nat /\ \A t \in AllTasks : pass[t] \in Nat /\ priority[t] \in Int
  BY <1>1, <1>2 DEF TypeOK
<1>4. \A t \in AllTasks : status'[t] = "READY" => pass'[t] < passes'
  BY <1>2, <1>3
<1>5. Q \subseteq R /\ F \subseteq R
  <2>1. Q \subseteq AllTasks
    BY QueuedTyped
  <2>2. QED
    BY <1>1, <2>1 DEF Fresh
<1>6. Stepped(rest) \cap S = {}
  BY <1>1 DEF Ordered, LinedUp
<1>7. Fresh(status', sem') = F \cup S
  <2>1. \A t \in AllTasks : status'[t] = "READY" <=> status[t] = "READY" \/ t \in S
    BY <1>1, <1>3
  <2>2. Q \cap S = {}
    BY <1>5
  <2>3. QED
    BY <1>1, <2>1, <2>2 DEF Fresh
<1>8. \A t, u \in R : NotBehind(t, u) => N(t, u)
  BY <1>3 DEF NotBehind
<1>9. \A t \in R, u \in S : N(t, u)
  BY <1>1, <1>3
<1>10. LoopOrdered
  <2>1. ASSUME S = {}, loop' \in {rest, Append(rest, Main)} PROVE LoopOrdered
    <3>1. Ordered(status, loop', sem') /\ Stepped(loop') = Stepped(rest)
      <4>1. Main \in Callback /\ \A u : Main # Step(u) /\ Append(rest, Main) = rest \o <<Main>>
        BY Single, StepsDiffer, AppendIsConcat
      <4>2. /\ Ordered(status, rest \o <<Main>>, sem')
            /\ Stepped(rest \o <<Main>>) = Stepped(rest)
        BY <4>1, OneCallbackMore
      <4>3. QED
        BY <2>1, <4>1, <4>2
    <3>2. \A t, u \in F : \A i, j \in 1 .. Len(loop') :
            i < j /\ loop'[i] = Step(t) /\ loop'[j] = Step(u) => N(t, u)
      <4> HIDE DEF N
      <4> QED BY <1>5, <1>8, <3>1 DEF Ordered, InOrder
    <3> HIDE DEF N, F
    <3>3. QED
      BY <2>1, <3>1, <3>2 DEF Ordered, LinedUp
  <2>2. ASSUME ~Finished, ~NothingInFlight(tasks \cup ReadyTasks) PROVE LoopOrdered
    <3>1. PICK ready \in ByPriority(ReadyTasks) :
            loop' = rest \o [i \in 1 .. Len(ready) |-> Step(ready[i])]
      BY <2>2 DEF SchedulingPass
    <3> DEFINE steps == [i \in 1 .. Len(ready) |-> Step(ready[i])]
               n == Cardinality(ReadyTasks)
               m == Len(rest)
    <3>2. steps \in Seq(Callback) /\ S \subseteq Stepped(steps) /\ loop' = rest \o steps
      BY <3>1, ReadySteps, ReadyAreStepped DEF S
    <3>3. n \in Nat
      BY <1>1, TasksFinite DEF S
    <3>4. /\ ready \in [1 .. n -> S]
          /\ \A i, j \in 1 .. n : i < j => Before(ready[i], ready[j])
      BY DEF ByPriority, S
    <3> HIDE DEF n
    <3>5. Len(ready) = n
      BY <3>3, <3>4
    <3>6. steps = [i \in 1 .. n |-> Step(ready[i])]
      BY <3>5
    <3> HIDE DEF steps
    <3>7. Len(steps) = n /\ \A i \in 1 .. n : steps[i] = Step(ready[i]) /\ ready[i] \in S
      BY <3>3, <3>4, <3>6
    <3>8. /\ Len(loop') = m + n /\ m \in Nat
          /\ \A i \in 1 .. m + n : loop'[i] = IF i <= m THEN rest[i] ELSE steps[i - m]
      <4>1. /\ Len(rest \o steps) = Len(rest) + Len(steps)
            /\ \A i \in 1 .. Len(rest) + Len(steps) :
                 (rest \o steps)[i] = IF i <= Len(rest) THEN rest[i] ELSE steps[i - Len(rest)]
        BY <3>2, ConcatProperties
      <4>2. m \in Nat /\ loop' = rest \o steps /\ Len(steps) = n
        BY <3>2, <3>7
      <4>3. QED
        BY <4>1, <4>2
    <3> HIDE DEF m
    <3>9. \A i \in 1 .. Len(loop') :
            \/ i \in 1 .. m /\ loop'[i] = rest[i]
            \/ i - m \in 1 .. n /\ loop'[i] = Step(ready[i - m])
      <4>1. SUFFICES ASSUME NEW i \in 1 .. m + n, ~(i \in 1 .. m /\ loop'[i] = rest[i])
                     PROVE  i - m \in 1 .. n /\ loop'[i] = Step(ready[i - m])
        BY <3>8
      <4>2. ~(i <= m)
        BY <3>8, <4>1
      <4>3. i - m \in 1 .. n
        BY <3>3, <3>8, <4>2
      <4>4. QED
        BY <3>7, <3>8, <4>2, <4>3
    <3>10. \A t : \A i \in 1 .. Len(loop') : loop'[i] = Step(t) =>
             \/ i \in 1 .. m /\ rest[i] = Step(t)
             \/ i - m \in 1 .. n /\ ready[i - m] = t /\ t \in S
      BY <3>7, <3>9, StepsDiffer
    <3>11. \A t \in S : \A i \in 1 .. m : rest[i] # Step(t)
      BY <1>1, <1>6 DEF Stepped, m
    <3>12. \A i, j \in 1 .. n : ready[i] = ready[j] => i = j
      <4>1. \A t \in S : ~Before(t, t)
        <5>1. \A t \in S : t \in Int /\ priority[t] \in Int
          BY <1>1, <1>3, SchedulerAssumption DEF AllTasks
        <5>2. QED
          BY <5>1 DEF Before
      <4>2. \A i, j \in 1 .. n : i < j => ready[i] # ready[j]
        BY <3>4, <3>7, <4>1
      <4>3. \A i, j \in 1 .. n : i # j => i < j \/ j < i
        BY <3>3
      <4>4. QED
        BY <4>2, <4>3
    <3>13. \A i, j \in 1 .. Len(loop') : i - m = j - m => i = j
      BY <3>3, <3>8
    <3>14. /\ \A i, j \in 1 .. Len(loop') : i < j => i - m < j - m
           /\ \A i, j \in 1 .. Len(loop') : i < j /\ j \in 1 .. m => ~(i - m \in 1 .. n)
      BY <3>3, <3>8
    <3>15. \A t \in AllTasks : \A i, j \in 1 .. Len(loop') :
             loop'[i] = Step(t) /\ loop'[j] = Step(t) => i = j
      <4>1. SUFFICES ASSUME NEW t \in AllTasks, NEW i \in 1 .. Len(loop'),
                            NEW j \in 1 .. Len(loop'),
                            loop'[i] = Step(t), loop'[j] = Step(t)
                     PROVE  i = j
        OBVIOUS
      <4>2. CASE t \in S
        BY <3>10, <3>11, <3>12, <3>13, <4>1, <4>2
      <4>3. CASE t \notin S
        <5>1. i \in 1 .. m /\ rest[i] = Step(t) /\ j \in 1 .. m /\ rest[j] = Step(t)
          BY <3>10, <4>1, <4>3
        <5>2. QED
          BY <5>1 DEF Ordered, LinedUp, m
      <4>4. QED
        BY <4>2, <4>3
    <3>16. Stepped(loop') = Stepped(rest) \cup S
      <4>1. Stepped(rest) \cup Stepped(steps) \subseteq Stepped(loop')
        BY <3>2, SteppedOfBoth
      <4>2. Stepped(loop') \subseteq Stepped(rest) \cup S
        BY <3>10 DEF Stepped, m
      <4>3. QED
        BY <3>2, <4>1, <4>2
    <3>17. \A i, j \in 1 .. Len(loop') : \A k, l \in DOMAIN ws :
             i < j /\ loop'[i] = Step(ws[k]) /\ loop'[j] = Step(ws[l]) => k < l
      <4>1. \A k \in DOMAIN ws : ws[k] \in Q
        BY DEF Queued
      <4>2. \A k \in DOMAIN ws : ws[k] \notin S
        BY <1>5, <4>1
      <4> HIDE DEF ws, Q
      <4>3. \A i \in 1 .. Len(loop') : \A k \in DOMAIN ws :
              loop'[i] = Step(ws[k]) => i \in 1 .. m /\ rest[i] = Step(ws[k])
        BY <3>10, <4>2
      <4>4. \A i, j \in 1 .. m : \A k, l \in DOMAIN ws :
              i < j /\ rest[i] = Step(ws[k]) /\ rest[j] = Step(ws[l]) => k < l
        BY DEF Ordered, LinedUp, m, ws
      <4>5. QED
        BY <4>3, <4>4
    <3>18. \A t, u \in F \cup S : \A i, j \in 1 .. Len(loop') :
             i < j /\ loop'[i] = Step(t) /\ loop'[j] = Step(u) => N(t, u)
      <4>1. SUFFICES ASSUME NEW t \in F \cup S, NEW u \in F \cup S,
                            NEW i \in 1 .. Len(loop'), NEW j \in 1 .. Len(loop'),
                            i < j, loop'[i] = Step(t), loop'[j] = Step(u)
                     PROVE  N(t, u)
        OBVIOUS
      <4>2. CASE t \in S /\ u \in S
        <5>1. /\ i - m \in 1 .. n /\ ready[i - m] = t /\ j - m \in 1 .. n /\ ready[j - m] = u
              /\ i - m < j - m
          BY <3>10, <3>11, <3>14, <4>1, <4>2
        <5>2. Before(t, u)
          BY <3>4, <5>1
        <5>3. priority[t] >= priority[u] /\ pass'[t] = pass'[u]
          BY <1>1, <1>3, <4>2, <5>2 DEF Before
        <5>4. QED
          BY <5>3
      <4>3. CASE t \in S /\ u \notin S
        <5>1. i - m \in 1 .. n /\ j \in 1 .. m
          BY <3>10, <3>11, <4>1, <4>3
        <5>2. QED
          BY <3>14, <4>1, <5>1
      <4>4. CASE t \notin S /\ u \in S
        <5>1. t \in R
          BY <1>5, <4>1, <4>4
        <5> HIDE DEF N, R
        <5>2. QED
          BY <1>9, <4>4, <5>1
      <4>5. CASE t \notin S /\ u \notin S
        <5>1. i \in 1 .. m /\ rest[i] = Step(t) /\ j \in 1 .. m /\ rest[j] = Step(u)
          BY <3>10, <4>1, <4>5
        <5>2. t \in F /\ u \in F
          BY <4>1, <4>5
        <5>3. NotBehind(t, u)
          BY <4>1, <5>1, <5>2 DEF Ordered, InOrder, m
        <5>4. QED
          BY <1>5, <1>8, <5>2, <5>3
      <4>6. QED
        BY <4>2, <4>3, <4>4, <4>5
    <3>19. QED
      BY <3>15, <3>16, <3>17, <3>18
  <2>3. CASE Finished
    <3>1. S = {}
      BY <2>3 DEF Finished, ReadyTasks, S
    <3>2. loop' \in {rest, Append(rest, Main)}
      BY <2>3 DEF SchedulingPass
    <3> HIDE DEF LoopOrdered
    <3>3. QED
      BY <2>1, <3>1, <3>2
  <2>4. CASE ~Finished /\ NothingInFlight(tasks \cup ReadyTasks)
    <3>1. S = {} /\ loop' = rest
      BY <2>4 DEF SchedulingPass, NothingInFlight, S
    <3> HIDE DEF LoopOrdered
    <3>2. QED
      BY <2>1, <3>1
  <2> HIDE DEF LoopOrdered
  <2>5. QED
    BY <2>2, <2>3, <2>4
<1>11. LinedUp(status', loop', sem')
  <2>1. \A t \in Stepped(loop') : status'[t] \in {"READY", "RUNNING"}
    <3>1. \A t \in Stepped(rest) : t \in AllTasks /\ status[t] \in {"READY", "RUNNING"}
      BY DEF Ordered, LinedUp, Stepped
    <3>2. QED
      BY <1>3, <1>6, <1>10, <3>1
  <2>2. Stepped(loop') \cap Queued(sem') \subseteq sem'.granted
    BY <1>5, <1>10 DEF Ordered, LinedUp
  <2>3. QED
    BY <1>10, <2>1, <2>2 DEF Ordered, LinedUp
<1>12. /\ \A k, l \in DOMAIN ws : k < l => N(ws[k], ws[l])
       /\ \A t \in Q, u \in F \cup S : N(t, u)
  <2>1. \A k \in DOMAIN ws : ws[k] \in R
    BY <1>5 DEF Queued
  <2>2. /\ \A k, l \in DOMAIN ws : k < l => NotBehind(ws[k], ws[l])
        /\ \A t \in Q, u \in F : NotBehind(t, u)
    BY DEF Ordered, InOrder
  <2> HIDE DEF N, R, Q, F, ws
  <2>3. QED
    BY <1>5, <1>8, <1>9, <2>1, <2>2
<1>13. \A t, u : NotBehind(t, u)' <=> N(t, u)
  BY <1>2 DEF NotBehind
<1>14. \A t, u \in F \cup S : \A i, j \in 1 .. Len(loop') :
         i < j /\ loop'[i] = Step(t) /\ loop'[j] = Step(u) => N(t, u)
  BY <1>10
<1>15. InOrder(status, loop, sem)'
  <2> HIDE DEF N, F
  <2> QED BY <1>7, <1>12, <1>13, <1>14 DEF InOrder
<1>16. QED
  BY <1>4, <1>11, <1>15 DEF OrderInv

-----------------------------------------------------------------------------
LEMMA NothingOrdered ==
  ASSUME NEW st, NEW q, NEW s, Len(q) = 0, s.waiters = <<>>,
         \A u \in AllTasks : st[u] # "READY"
  PROVE  Ordered(st, q, s)
<1>1. Queued(s) = {} /\ Stepped(q) = {} /\ Fresh(st, s) = {} /\ DOMAIN s.waiters = {}
      /\ 1 .. Len(q) = {}
  BY DEF Queued, Stepped, Fresh
<1>2. LinedUp(st, q, s)
  BY <1>1 DEF LinedUp
<1>3. InOrder(st, q, s)
  BY <1>1 DEF InOrder
<1>4. QED
  BY <1>2, <1>3 DEF Ordered

LEMMA OrderInit == Init => OrderInv
<1> SUFFICES ASSUME Init PROVE OrderInv
  OBVIOUS
<1>1. /\ Len(loop) = 0 /\ sem.waiters = <<>>
      /\ \A t \in AllTasks : status[t] # "READY"
  BY DEF Init
<1>2. Ordered(status, loop, sem)
  BY <1>1, NothingOrdered
<1>3. QED
  BY <1>1, <1>2 DEF OrderInv, Ordered

\* What does not concern the order leaves it as it is.
LEMMA OrderStays ==
  ASSUME TypeOK, Ordered(status', loop', sem'),
         \A t \in AllTasks : status[t] = "READY" => pass[t] < passes,
         \A t \in AllTasks : status'[t] = "READY" => status[t] = "READY",
         pass' = pass, passes' = passes,
         \A t \in AllTasks : status[t] = "READY" => priority'[t] = priority[t],
         \A t \in Queued(sem') : t \in AllTasks /\ status[t] = "READY"
  PROVE  OrderInv'
<1> DEFINE R == {t \in AllTasks : status[t] = "READY"}
<1>1. \A t, u \in R : NotBehind(t, u) => NotBehind(t, u)'
  BY DEF NotBehind
<1>2. /\ \A k \in DOMAIN sem'.waiters : sem'.waiters[k] \in R
      /\ Queued(sem') \subseteq R /\ Fresh(status', sem') \subseteq R
  BY DEF Queued, Fresh
<1> HIDE DEF R
<1>3. InOrder(status, loop, sem)'
  BY <1>1, <1>2 DEF Ordered, InOrder
<1>4. LinedUp(status, loop, sem)'
  BY DEF Ordered
<1>5. QED
  BY <1>3, <1>4 DEF OrderInv

LEMMA OrderStep == SafetyInv /\ SafetyInv' /\ WakeInv /\ WakeInv' /\ OrderInv /\ [Next]_vars => OrderInv'
<1> SUFFICES ASSUME SafetyInv, SafetyInv', WakeInv, WakeInv', OrderInv, [Next]_vars
             PROVE  OrderInv'
  OBVIOUS
<1> TypeOK /\ TypeOK' /\ GraphIsClosed
  BY DEF SafetyInv
<1> loop \in Seq(Callback) /\ sem \in Semaphore /\ sem' \in Semaphore
  BY DEF TypeOK, Semaphore
<1>a. /\ Ordered(status, loop, sem)
      /\ \A t \in AllTasks : status[t] = "READY" => pass[t] < passes
  BY DEF OrderInv, Ordered
<1>b. /\ \A t \in Queued(sem) : t \in AllTasks /\ status[t] = "READY"
      /\ \A t \in Queued(sem') : t \in AllTasks /\ status'[t] = "READY"
  <2>1. Queued(sem) \subseteq AllTasks /\ Queued(sem') \subseteq AllTasks
    BY QueuedTyped
  <2>2. /\ \A t \in Queued(sem) : status[t] = "READY"
        /\ \A t \in Queued(sem') : status'[t] = "READY"
    BY DEF WakeInv, Awake
  <2>3. QED
    BY <2>1, <2>2
<1>1. ASSUME NEW deps \in DependencySets, NEW p \in Priorities, AddTask(deps, p)
      PROVE  OrderInv'
  <2>1. UNCHANGED <<status, pass, passes, loop, sem>>
    BY <1>1 DEF AddTask
  <2>2. /\ main \in {"idle", "returned", "raised"}
        /\ priority' = [priority EXCEPT ![registered + 1] = p]
    BY <1>1 DEF AddTask, Idle
  <2>3. \A t \in AllTasks : status[t] # "READY"
    BY <2>2 DEF SafetyInv, ActiveAreRunning, Active
  <2>4. QED
    BY <1>a, <1>b, <2>1, <2>3, OrderStays
<1>2. CASE Reset
  <2>1. /\ loop = <<>> /\ loop' = loop /\ sem' = sem
        /\ main \in {"idle", "returned", "raised"}
        /\ status' = [t \in AllTasks |-> "PENDING"]
    BY <1>2 DEF Reset, Idle
  <2>2. \A t \in AllTasks : status[t] # "READY" /\ status'[t] # "READY"
    BY <2>1 DEF SafetyInv, ActiveAreRunning, Active
  <2>3. sem.waiters = <<>>
    <3>1. Queued(sem) = {}
      BY <1>b, <2>2
    <3>2. DOMAIN sem.waiters = 1 .. Len(sem.waiters) /\ Len(sem.waiters) \in Nat
          /\ sem.waiters \in Seq(AllTasks)
      BY QueuedTyped
    <3>3. ~(1 \in DOMAIN sem.waiters)
      BY <3>1 DEF Queued
    <3>4. Len(sem.waiters) = 0
      BY <3>2, <3>3
    <3>5. QED
      BY <3>2, <3>4
  <2>4. Len(loop') = 0 /\ sem'.waiters = <<>>
    BY <2>1, <2>3
  <2>5. Ordered(status', loop', sem')
    BY <2>2, <2>4, NothingOrdered
  <2>6. Queued(sem') = {} /\ Fresh(status', sem') = {} /\ DOMAIN sem'.waiters = {}
    BY <2>2, <2>4 DEF Queued, Fresh
  <2>7. InOrder(status, loop, sem)'
    BY <2>6 DEF InOrder
  <2>8. QED
    BY <2>2, <2>5, <2>7 DEF OrderInv, Ordered
<1>3. CASE RunStarts
  <2>1. /\ main \in {"idle", "returned", "raised"} /\ SchedulingPass({}, <<>>)
        /\ UNCHANGED client
        /\ sem' = [value |-> concurrency, waiters |-> <<>>, granted |-> {}]
    BY <1>3 DEF RunStarts, Idle
  <2>2. \A t \in AllTasks : status[t] # "READY"
    BY <2>1 DEF SafetyInv, ActiveAreRunning, Active
  <2>3. Ordered(status, <<>>, sem') /\ Queued(sem') = {}
    <3>1. sem'.waiters = <<>> /\ Len(<<>>) = 0
      BY <2>1
    <3>2. QED
      BY <2>2, <3>1, NothingOrdered DEF Queued
  <2>4. QED
    BY <2>1, <2>2, <2>3, PassOrdered, Single
<1>4. CASE RunWakes
  <2> DEFINE rest == Tail(loop)
  <2>1. loop # <<>> /\ SchedulingPass(running, rest) /\ UNCHANGED client /\ sem' = sem
    BY <1>4 DEF RunWakes
  <2>2. rest \in Seq(Callback) /\ Ordered(status, rest, sem)
    BY <1>a, <2>1, Dequeued, OneCallbackLess
  <2> HIDE DEF rest
  <2>3. running \in SUBSET AllTasks /\ Ordered(status, rest, sem')
    BY <2>1, <2>2 DEF TypeOK
  <2>4. \A u \in Queued(sem') : status[u] = "READY"
    BY <1>b, <2>1
  <2>5. QED
    BY <1>a, <2>1, <2>2, <2>3, <2>4, PassOrdered
<1>5. CASE RunRaises \/ RunReturns \/ (\E t \in AllTasks : ExecutorResolves(t) \/ TaskDiscarded(t))
  <2>1. UNCHANGED <<status, pass, passes, sem, priority>>
    BY <1>5 DEF RunRaises, RunReturns, ExecutorResolves, TaskDiscarded, client
  <2>2. Ordered(status, loop', sem)
    <3>1. CASE RunRaises
      <4>1. loop' = loop
        BY <3>1 DEF RunRaises
      <4>2. QED
        BY <1>a, <4>1
    <3>2. CASE RunReturns \/ \E t \in AllTasks : TaskDiscarded(t)
      <4>1. loop # <<>> /\ loop' = Tail(loop)
        BY <3>2 DEF RunReturns, TaskDiscarded
      <4>2. QED
        BY <1>a, <4>1, OneCallbackLess
    <3>3. ASSUME NEW t \in AllTasks, ExecutorResolves(t) PROVE Ordered(status, loop', sem)
      <4>1. /\ status[t] = "RUNNING" /\ \A i \in DOMAIN loop : loop[i] # Step(t)
            /\ loop' = Append(loop, Step(t))
        BY <3>3 DEF ExecutorResolves
      <4>2. Step(t) \in Callback
        BY Single
      <4>3. loop' = loop \o <<Step(t)>>
        BY <4>1, <4>2, AppendIsConcat
      <4>4. t \notin Stepped(loop) /\ t \notin Fresh(status, sem) /\ t \notin Queued(sem)
        BY <1>b, <4>1 DEF Stepped, Fresh
      <4>5. /\ \A m, n \in DOMAIN sem.waiters :
                 m < n /\ sem.waiters[n] \in sem.granted => sem.waiters[m] \in sem.granted
            /\ \A n \in DOMAIN sem.waiters : sem.waiters[n] # t
        BY <1>a, <4>4 DEF Ordered, LinedUp, Queued
      <4>6. QED
        BY <1>a, <4>1, <4>3, <4>4, <4>5, OneStepMore
    <3>4. QED
      BY <1>5, <3>1, <3>2, <3>3
  <2>3. Ordered(status', loop', sem')
    BY <2>1, <2>2
  <2>4. QED
    BY <1>a, <1>b, <2>1, <2>3, OrderStays
<1>6. ASSUME NEW t \in AllTasks, TaskBegins(t) \/ TaskResumes(t) \/ TaskEnds(t)
      PROVE  OrderInv'
  <2>1. Ordered(status', loop', sem')
    BY <1>6, TaskOrdered
  <2>2. \A u \in AllTasks : status'[u] = "READY" => status[u] = "READY"
    BY <1>6, OneStatus
  <2>3. Moves(t)
    BY <1>6, TaskMoves
  <2>4. pass' = pass /\ passes' = passes /\ priority' = priority
    BY <2>3 DEF Moves, client
  <2>5. QED
    BY <1>a, <1>b, <2>1, <2>2, <2>4, OrderStays
<1>7. CASE UNCHANGED vars
  <2>1. UNCHANGED <<status, pass, passes, sem, priority, loop>>
    BY <1>7 DEF vars, client
  <2>2. QED
    BY <1>a, <1>b, <2>1, OrderStays
<1>8. QED
  BY <1>1, <1>2, <1>3, <1>4, <1>5, <1>6, <1>7 DEF Next, LoopStep

\* A task is never started ahead of one that became ready in an earlier pass, or in the same
\* pass with a higher priority: asyncio's loop and semaphore keep the order in which run()
\* creates the tasks (scheduler.py:187-203).
THEOREM NobodyOvertakes == Spec => NoOvertaking
<1> DEFINE Overtakes ==
             \E u, t \in AllTasks :
               /\ status[u] = "READY" /\ status'[u] # "READY"
               /\ status[t] = "READY" /\ status'[t] = "READY"
               /\ \/ pass[t] < pass[u]
                  \/ pass[t] = pass[u] /\ priority[t] > priority[u]
<1>1. SafetyInv /\ WakeInv /\ OrderInv /\ [Next]_vars => ~Overtakes
  <2> SUFFICES ASSUME SafetyInv, WakeInv, OrderInv, [Next]_vars,
                      NEW u \in AllTasks, NEW t \in AllTasks,
                      status[u] = "READY", status'[u] # "READY",
                      status[t] = "READY", status'[t] = "READY",
                      \/ pass[t] < pass[u]
                      \/ pass[t] = pass[u] /\ priority[t] > priority[u]
               PROVE  FALSE
    OBVIOUS
  <2>1. TypeOK
    BY DEF SafetyInv
  <2>2. ~NotBehind(u, t)
    <3>1. /\ pass[t] \in Nat /\ pass[u] \in Nat /\ priority[t] \in Int /\ priority[u] \in Int
      BY <2>1 DEF TypeOK
    <3>2. QED
      BY <3>1 DEF NotBehind
  <2>3. main \notin {"idle", "returned", "raised"}
    BY DEF SafetyInv, ActiveAreRunning, Active
  <2>4. \E v \in AllTasks : TaskBegins(v) \/ TaskResumes(v) \/ TaskEnds(v)
    <3>1. status' # status
      OBVIOUS
    <3>2. ~RunWakes
      <4>1. RunWakes => status'[u] = "READY"
        BY DEF RunWakes, SchedulingPass
      <4>2. QED
        BY <4>1
    <3>3. ~RunStarts /\ ~Reset
      BY <2>3 DEF RunStarts, Reset, Idle
    <3>4. QED
      BY <3>1, <3>2, <3>3 DEF Next, LoopStep, AddTask, RunRaises, RunReturns,
                              ExecutorResolves, TaskDiscarded, vars
  <2>5. PICK v \in AllTasks : TaskBegins(v) \/ TaskResumes(v) \/ TaskEnds(v)
    BY <2>4
  <2>6. v = u
    BY <2>1, <2>5, OneStatus
  <2>7. NotBehind(u, t)
    BY <2>5, <2>6, StartsInOrder
  <2>8. QED
    BY <2>2, <2>7
<1>2. SafetyInv /\ WakeInv /\ OrderInv /\ [Next]_vars =>
        [\A u \in AllTasks : status[u] = "READY" /\ status'[u] # "READY" =>
           ~ \E t \in AllTasks :
               /\ status[t] = "READY" /\ status'[t] = "READY"
               /\ \/ pass[t] < pass[u]
                  \/ pass[t] = pass[u] /\ priority[t] > priority[u]]_vars
  BY <1>1
<1>3. Init => SafetyInv /\ WakeInv /\ OrderInv
  BY SafetyInit, WakeInit, OrderInit
<1>4. SafetyInv /\ WakeInv /\ OrderInv /\ [Next]_vars => (SafetyInv /\ WakeInv /\ OrderInv)'
  BY SafetyStep, WakeStep, OrderStep
<1>5. QED
  BY <1>2, <1>3, <1>4, PTL DEF Spec, NoOvertaking
=============================================================================
