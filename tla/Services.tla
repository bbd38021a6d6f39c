------------------------------- MODULE Services -------------------------------
(***************************************************************************)
(* The services around the orchestrator, one after the other: they share   *)
(* no state in the code, so a behaviour moves one of them and leaves the   *)
(* others as they began.                                                   *)
(***************************************************************************)
EXTENDS GitRepository, Snapshots, Recovery, AgentBudget, BudgetAlerts, HybridCloud,
        ModelServers, RayClusters, AgentMail, Traces, Evolution, RegistryFile, RuleStore,
        WebClient, DemoPipeline

VARIABLE part   \* the service that moves

servicesVars == <<part, gitVars, snapshotVars, recoveryVars, agentBudgetVars,
                  budgetAlertVars, hybridVars, serverVars, rayVars, mailVars, traceVars,
                  evolutionVars, registryVars, ruleVars, webVars, demoVars>>

Parts == {"git", "snapshots", "recovery", "agent budget", "budget alerts", "hybrid cloud",
          "model servers", "nodes", "kuberay", "mail", "traces", "evolution", "registry", "rules",
          "web client", "demo"}

ServicesTypeOK ==
  /\ part \in Parts
  /\ GitTypeOK /\ SnapshotsTypeOK /\ RecoveryTypeOK /\ AgentBudgetTypeOK
  /\ BudgetAlertsTypeOK /\ HybridTypeOK /\ ServersTypeOK /\ RayTypeOK /\ MailTypeOK
  /\ TracesTypeOK /\ EvolutionTypeOK /\ RegistryFileTypeOK /\ RuleStoreTypeOK
  /\ WebTypeOK /\ DemoTypeOK

\* A service that does not move has one configuration, whichever.
Unless(p, configuration, configurations) ==
  part = p \/ configuration = CHOOSE c \in configurations : TRUE

ServicesInit ==
  /\ part \in Parts
  /\ GitInit /\ SnapshotsInit
  /\ RecoveryInit /\ Unless("recovery", fallback, Fallbacks)
  /\ AgentBudgetInit /\ Unless("agent budget", blocks, BOOLEAN)
  /\ BudgetAlertsInit
  /\ HybridInit /\ Unless("hybrid cloud", preemption, Strategies)
  /\ ServersInit
  /\ RayInit /\ Unless("kuberay", wanted, Replicas) /\ Unless("kuberay", hasClient, BOOLEAN)
  /\ MailInit
  /\ TracesInit /\ Unless("traces", wrapped, Wrappings)
  /\ EvolutionInit /\ RegistryFileInit /\ RuleStoreInit /\ WebInit
  /\ DemoInit /\ Unless("demo", demoConfig, DemoConfigs)

OnlyMoves(p) ==
  /\ part = p /\ UNCHANGED part
  /\ IF p = "git" THEN GitNext ELSE UNCHANGED gitVars
  /\ IF p = "snapshots" THEN SnapshotsNext ELSE UNCHANGED snapshotVars
  /\ IF p = "recovery" THEN RecoveryNext ELSE UNCHANGED recoveryVars
  /\ IF p = "agent budget" THEN AgentBudgetNext ELSE UNCHANGED agentBudgetVars
  /\ IF p = "budget alerts" THEN BudgetAlertsNext ELSE UNCHANGED budgetAlertVars
  /\ IF p = "hybrid cloud" THEN HybridNext ELSE UNCHANGED hybridVars
  /\ IF p = "model servers" THEN ServersNext ELSE UNCHANGED serverVars
  /\ IF p = "nodes" THEN NodesNext ELSE UNCHANGED nodeVars
  /\ IF p = "kuberay" THEN KubeNext ELSE UNCHANGED kubeVars
  /\ IF p = "mail" THEN MailNext ELSE UNCHANGED mailVars
  /\ IF p = "traces" THEN TracesNext ELSE UNCHANGED traceVars
  /\ IF p = "evolution" THEN EvolutionNext ELSE UNCHANGED evolutionVars
  /\ IF p = "registry" THEN RegistryFileNext ELSE UNCHANGED registryVars
  /\ IF p = "rules" THEN RuleStoreNext ELSE UNCHANGED ruleVars
  /\ IF p = "web client" THEN WebNext ELSE UNCHANGED webVars
  /\ IF p = "demo" THEN DemoNext ELSE UNCHANGED demoVars

ServicesNext == \E p \in Parts : OnlyMoves(p)

ServicesSpec == ServicesInit /\ [][ServicesNext]_servicesVars /\ RecoveryFairness
-----------------------------------------------------------------------------
(***************************************************************************)
(* What the services promise, the parts of each property stated where the  *)
(* component is modelled.                                                  *)
(***************************************************************************)
\* Retries and fallbacks: a result comes from a call that succeeded, calls stay within
\* their bound, a step fails only where nothing protects it, and the breaker the steps
\* share counts exactly their calls; the demo pipeline's attempts end as it is labelled,
\* pass only what is clean, and ask with a package (recovery.py:132, retry.py:77,
\* demo_pipeline.py:377).
StepsAreRecovered ==
  /\ ResultIsEarned /\ TriesAreBounded /\ FailsOnlyUnprotected /\ BreakerFollowsSteps
  /\ DemoEndsAsLabelled /\ DemoPassesClean /\ DemoAsksWithPackage

\* Budgets: limits are exceeded by no more than what was in flight, every token is on
\* record or accounted for, an exceeded threshold has been alerted about, and a task
\* waits only where a preemption stranded it; the budgets of the day and of the month
\* decide who goes to the cloud (token_budget.py:121, routes.py:578, hybrid.py:147).
SpendingIsBounded ==
  /\ [](/\ OvershootBounded /\ SpendIsSeen /\ ExceededIsAlerted
        /\ DailyOverrunBounded /\ OnlyStrandedTasksWait)
  /\ BudgetDecides

\* Remote servers: who counts as healthy was found healthy as it is registered, a sweep
\* that returns has asked everyone, a drained node stays drained, and the status of a
\* cluster is the truth once nothing is in flight, up to the races each definition names;
\* the web client holds one connection to its server as long as it wants one
\* (vllm_bridge.py:113, cluster.py:194, kuberay.py:205, ws.ts:28).
RemotesAreKnown ==
  /\ HealthyMeansChecked /\ SweepIsComplete /\ DrainedStaysDrained /\ KubeStatusIsTrue
  /\ OneConnection /\ KeepsTrying /\ StatusIsTheSockets

\* What is handed over is kept: who is told a SHA has its changes in a commit, on its own
\* branch if it was alone, and no protected path in any; a rollback brings back what its
\* snapshot saved unless a later one overtook it; mailboxes hold what was not read, spans are delivered at most
\* once and in whole traces, updates of the registry add up unless processes overlap
\* (git_executor.py:147, 262, a2a.py:90, aitop_backend.py:205, store.py:49).
RecordsAreKept ==
  /\ ProtectedStayOut /\ ToldAndKept /\ AloneOnItsBranch
  /\ RollbackBringsItsOwn /\ SavedStays
  /\ MailboxIsUnread
  /\ EachSpanOnce /\ SampledTracesAreWhole /\ SpansFollowTheCurrent
  /\ OpenSpansAreAccountedFor
  /\ UpdatesAddUp /\ UnreadableOnlyTorn

\* Evolution and notification rules: one loop at most evolves the policy and a threshold
\* only falls on evidence; stored rules change by whole calls that name them, wherever
\* the process is killed (loop.py:128, tuner.py:48, persistence.py:325).
ChangesAreJustified ==
  /\ []OneEvolutionLoop
  /\ ThresholdFollowsEvidence /\ RulesChangeAsAsked
=============================================================================
