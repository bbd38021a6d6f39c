--------------------------- MODULE Spending_proofs ---------------------------
(***************************************************************************)
(* Budgets: tokens, usage alerts and cloud workers, proved for every value *)
(* of their bounds.                                                        *)
(***************************************************************************)
EXTENDS Services, Sums

\* A step of Services is a step of the service that moves, and a stutter of every other.
LEMMA OnePartMoves ==
  ASSUME [ServicesNext]_servicesVars
  PROVE  /\ [RuleStoreNext]_ruleVars
         /\ [EvolutionNext]_evolutionVars
         /\ [WebNext]_webVars
         /\ [HybridNext]_hybridVars
         /\ [ServersNext]_serverVars
         /\ [NodesNext]_nodeVars
         /\ [KubeNext]_kubeVars
         /\ [AgentBudgetNext]_agentBudgetVars
         /\ [BudgetAlertsNext]_budgetAlertVars
         /\ [GitNext]_gitVars
         /\ [SnapshotsNext]_snapshotVars
         /\ [RecoveryNext]_recoveryVars
         /\ [MailNext]_mailVars
         /\ [TracesNext]_traceVars
         /\ [RegistryFileNext]_registryVars
         /\ [DemoNext]_demoVars
BY DEF ServicesNext, OnlyMoves, servicesVars, rayVars
-----------------------------------------------------------------------------
(***************************************************************************)
(* Token budget.                                                           *)
(***************************************************************************)
\* The agents whose tokens will come on record without another check.
Flying == {a \in Agents : agentPhase[a] = "calls"}
Largest == Max(CallTokens)

\* The days to come are empty; the calls in flight fit under the bound.
AgentBudgetInv ==
  /\ AgentBudgetTypeOK
  /\ \A d \in 1 .. Days : d > today => \A a \in Agents : used[d][a] = 0
  /\ blocks /\ TokenLimit > 0 =>
       /\ \A d \in 1 .. Days : DailyTokens(d) <= TokenLimit + Cardinality(Agents) * Largest
       /\ DailyTokens(today) + Cardinality(Flying) * Largest
            <= TokenLimit + Cardinality(Agents) * Largest
  /\ SpendIsSeen

LEMMA LargestCall == Largest \in Nat /\ \A n \in CallTokens : n \in Nat /\ n <= Largest
<1>1. CallTokens # {} /\ IsFiniteSet(CallTokens) /\ \A n \in CallTokens : n \in Nat
  BY AgentBudgetAssumption
<1>2. QED
  BY <1>1, MaxIsLargest DEF Largest

LEMMA FlyingIsSmall ==
  /\ IsFiniteSet(Flying) /\ Cardinality(Flying) \in Nat /\ Cardinality(Agents) \in Nat
  /\ Cardinality(Flying) <= Cardinality(Agents)
  /\ Cardinality(Flying) * Largest <= Cardinality(Agents) * Largest
<1>1. Flying \subseteq Agents /\ IsFiniteSet(Agents)
  BY AgentBudgetAssumption DEF Flying
<1>2. IsFiniteSet(Flying) /\ Cardinality(Flying) <= Cardinality(Agents)
  BY <1>1, FS_Subset
<1>3. Cardinality(Flying) \in Nat /\ Cardinality(Agents) \in Nat
  BY <1>1, <1>2, FS_CardinalityType
<1>4. \A m, n, c \in Nat : m <= n => m * c <= n * c
  OBVIOUS
<1>5. QED
  BY <1>2, <1>3, <1>4, LargestCall

LEMMA SoFar ==
  ASSUME AgentBudgetTypeOK
  PROVE  /\ today \in Nat /\ 1 .. today \subseteq 1 .. Days /\ today \in 1 .. today
         /\ IsFiniteSet(1 .. today)
<1>1. Days \in Nat /\ today \in 1 .. Days
  BY AgentBudgetAssumption DEF AgentBudgetTypeOK
<1>2. QED
  BY <1>1, FS_Interval

LEMMA DailyIsNat == AgentBudgetTypeOK => \A d \in 1 .. Days : DailyTokens(d) \in Nat
<1> SUFFICES ASSUME AgentBudgetTypeOK, NEW d \in 1 .. Days
             PROVE  DailyTokens(d) \in Nat
  OBVIOUS
<1>1. \A a \in Agents : used[d][a] \in Nat
  BY DEF AgentBudgetTypeOK
<1>2. QED
  BY <1>1, SumIsNat, AgentBudgetAssumption DEF DailyTokens

\* The sum over the days so far.
Recorded == SumFunctionOnSet([d \in 1 .. today |-> DailyTokens(d)], 1 .. today)

LEMMA SeenIsRecorded == SpendIsSeen <=> spent = unseen + Recorded
BY DEF SpendIsSeen, Recorded, SumFunction

LEMMA RecordedIsNat ==
  ASSUME AgentBudgetTypeOK
  PROVE  Recorded \in Nat
<1> DEFINE f == [d \in 1 .. today |-> DailyTokens(d)]
<1>1. \A d \in 1 .. today : f[d] \in Nat
  BY DailyIsNat, SoFar
<1>2. IsFiniteSet(1 .. today)
  BY SoFar
<1> HIDE DEF f
<1>3. SumFunctionOnSet(f, 1 .. today) \in Nat
  BY <1>1, <1>2, SumIsNat
<1>4. QED
  BY <1>3 DEF Recorded, f

\* What is recorded for a day changes the sum as it changes the day.
LEMMA RecordedFollows ==
  ASSUME AgentBudgetTypeOK, AgentBudgetTypeOK', today' = today,
         \A d \in 1 .. Days : d # today => DailyTokens(d)' = DailyTokens(d)
  PROVE  Recorded' = Recorded + (DailyTokens(today)' - DailyTokens(today))
<1> DEFINE f == [d \in 1 .. today |-> DailyTokens(d)]
           g == [d \in 1 .. today |-> DailyTokens(d)']
<1> (\A d \in 1 .. Days : DailyTokens(d) \in Nat)'
  BY DailyIsNat, PTL
<1>1. \A d \in 1 .. today : f[d] \in Int /\ g[d] \in Int
  BY DailyIsNat, SoFar
<1>2. \A d \in 1 .. today : d # today => f[d] = g[d]
  BY SoFar
<1>3. IsFiniteSet(1 .. today) /\ today \in 1 .. today
  BY SoFar
<1>4. f[today] = DailyTokens(today) /\ g[today] = DailyTokens(today)'
  BY <1>3
<1>5. Recorded = SumFunctionOnSet(f, 1 .. today) /\ Recorded' = SumFunctionOnSet(g, 1 .. today)
  BY DEF Recorded
<1> HIDE DEF f, g
<1>6. QED
  BY <1>1, <1>2, <1>3, <1>4, <1>5, SumChanges

LEMMA AgentBudgetInvInit == AgentBudgetInit => AgentBudgetInv
<1> SUFFICES ASSUME AgentBudgetInit PROVE AgentBudgetInv
  OBVIOUS
<1>1. AgentBudgetTypeOK
  BY AgentBudgetAssumption DEF AgentBudgetInit, AgentBudgetTypeOK
<1>2. ASSUME NEW d \in 1 .. Days
      PROVE  DailyTokens(d) = 0
  <2>1. \A a \in Agents : used[d][a] = 0
    BY DEF AgentBudgetInit
  <2>2. QED
    BY <2>1, SumOfZeros, AgentBudgetAssumption DEF DailyTokens
<1>3. Recorded = 0
  <2> DEFINE f == [d \in 1 .. today |-> DailyTokens(d)]
  <2>1. \A d \in 1 .. today : f[d] = 0
    BY <1>1, <1>2, SoFar
  <2>2. IsFiniteSet(1 .. today)
    BY <1>1, SoFar
  <2> HIDE DEF f
  <2>3. SumFunctionOnSet(f, 1 .. today) = 0
    BY <2>1, <2>2, SumOfZeros
  <2>4. QED
    BY <2>3 DEF Recorded, f
<1>4. SpendIsSeen
  BY <1>3, SeenIsRecorded DEF AgentBudgetInit
<1>5. /\ \A d \in 1 .. Days : DailyTokens(d) <= TokenLimit + Cardinality(Agents) * Largest
      /\ DailyTokens(today) + Cardinality(Flying) * Largest
            <= TokenLimit + Cardinality(Agents) * Largest
  <2>1. TokenLimit \in Nat /\ Cardinality(Agents) * Largest \in Nat
        /\ Cardinality(Flying) * Largest \in Nat
    BY FlyingIsSmall, LargestCall, AgentBudgetAssumption
  <2>2. QED
    BY <1>1, <1>2, <2>1, FlyingIsSmall DEF AgentBudgetTypeOK
<1>6. \A d \in 1 .. Days : d > today => \A a \in Agents : used[d][a] = 0
  BY DEF AgentBudgetInit
<1>7. QED
  BY <1>1, <1>4, <1>5, <1>6 DEF AgentBudgetInv

\* The ways in which a call ends and its tokens do not come on record.
UnrecordedEnd(a, n, next) ==
  OutputRejected(a, n) \/ Corrected(a, n) \/ Streamed(a, n) \/ CallWithoutUsage(a, n, next)

LEMMA AgentBudgetTypeNext ==
  ASSUME AgentBudgetTypeOK, [AgentBudgetNext]_agentBudgetVars
  PROVE  AgentBudgetTypeOK'
<1>1. \A n \in CallTokens : n \in Nat
  BY LargestCall
<1>2. ASSUME NEW a \in Agents, StartCall(a) \/ StartStream(a) \/ CallFailed(a)
      PROVE  AgentBudgetTypeOK'
  BY <1>2 DEF AgentBudgetTypeOK, StartCall, StartStream, CallFailed, AgentGoes
<1>3. ASSUME NEW a \in Agents, NEW n \in CallTokens, NEW next \in {"idle", "corrects"},
             UnrecordedEnd(a, n, next)
      PROVE  AgentBudgetTypeOK'
  <2>1. /\ \E to \in {next, "idle"} : agentPhase' = [agentPhase EXCEPT ![a] = to]
        /\ spent' = spent + n /\ unseen' = unseen + n /\ UNCHANGED <<blocks, today, used>>
    BY <1>3 DEF UnrecordedEnd, OutputRejected, CallWithoutUsage, Corrected, Streamed,
                OffTheRecord, AgentGoes
  <2>2. n \in Nat
    BY <1>1
  <2>3. QED
    BY <2>1, <2>2 DEF AgentBudgetTypeOK
<1>4. ASSUME NEW a \in Agents, NEW n \in CallTokens, NEW next \in {"idle", "corrects"},
             CallRecorded(a, n, next)
      PROVE  AgentBudgetTypeOK'
  BY <1>1, <1>4 DEF AgentBudgetTypeOK, CallRecorded, AgentGoes
<1>5. CASE Midnight
  BY <1>5, AgentBudgetAssumption DEF AgentBudgetTypeOK, Midnight
<1>6. CASE ResetDaily
  <2>1. DailyTokens(today) \in Nat
    BY DailyIsNat DEF AgentBudgetTypeOK
  <2>2. QED
    BY <1>6, <2>1 DEF AgentBudgetTypeOK, ResetDaily
<1>7. CASE UNCHANGED agentBudgetVars
  BY <1>7 DEF AgentBudgetTypeOK, agentBudgetVars
<1>8. QED
  BY <1>2, <1>3, <1>4, <1>5, <1>6, <1>7 DEF AgentBudgetNext, UnrecordedEnd

\* Calls that end with nothing on record leave room, and calls that begin found it.
LEMMA NothingRecorded ==
  ASSUME AgentBudgetInv, AgentBudgetTypeOK', UNCHANGED <<blocks, today, used>>,
         \E n \in Nat : spent' = spent + n /\ unseen' = unseen + n,
         Flying' \subseteq Flying \/ ~(blocks /\ LimitExceeded(today))
  PROVE  AgentBudgetInv'
<1>1. \A d : DailyTokens(d)' = DailyTokens(d)
  BY DEF DailyTokens
<1>2. Recorded' = Recorded
  BY <1>1 DEF Recorded
<1>3. SpendIsSeen'
  <2>1. PICK n \in Nat : spent' = spent + n /\ unseen' = unseen + n
    OBVIOUS
  <2>2. spent = unseen + Recorded /\ Recorded \in Nat /\ unseen \in Nat
    BY SeenIsRecorded, RecordedIsNat DEF AgentBudgetInv, AgentBudgetTypeOK
  <2>3. spent' = unseen' + Recorded'
    BY <1>2, <2>1, <2>2
  <2>4. QED
    BY <2>3 DEF SpendIsSeen, Recorded, SumFunction
<1>4. ASSUME blocks, TokenLimit > 0
      PROVE  DailyTokens(today) + Cardinality(Flying') * Largest
               <= TokenLimit + Cardinality(Agents) * Largest
  <2>1. /\ IsFiniteSet(Flying') /\ Cardinality(Flying') \in Nat
        /\ Cardinality(Flying') * Largest <= Cardinality(Agents) * Largest
    <3>1. (/\ IsFiniteSet(Flying) /\ Cardinality(Flying) \in Nat
           /\ Cardinality(Flying) * Largest <= Cardinality(Agents) * Largest)'
      BY FlyingIsSmall, PTL
    <3>2. QED
      BY <3>1 DEF Largest
  <2>2. /\ DailyTokens(today) \in Nat /\ TokenLimit \in Nat /\ Largest \in Nat
        /\ Cardinality(Agents) \in Nat /\ Cardinality(Flying) \in Nat
    BY DailyIsNat, LargestCall, FlyingIsSmall, AgentBudgetAssumption
       DEF AgentBudgetInv, AgentBudgetTypeOK
  <2>3. CASE Flying' \subseteq Flying
    <3>1. Cardinality(Flying') <= Cardinality(Flying)
      BY <2>3, FlyingIsSmall, FS_Subset
    <3>2. \A m, n, c \in Nat : m <= n => m * c <= n * c
      OBVIOUS
    <3>3. Cardinality(Flying') * Largest <= Cardinality(Flying) * Largest
      BY <2>1, <2>2, <3>1, <3>2
    <3>4. DailyTokens(today) + Cardinality(Flying) * Largest
            <= TokenLimit + Cardinality(Agents) * Largest
      BY <1>4 DEF AgentBudgetInv
    <3>5. \A x, y, z, w \in Int : x + y <= w /\ z <= y => x + z <= w
      OBVIOUS
    <3>6. QED
      BY <2>1, <2>2, <3>3, <3>4, <3>5
  <2>4. CASE ~(blocks /\ LimitExceeded(today))
    <3>1. DailyTokens(today) <= TokenLimit
      BY <1>4, <2>2, <2>4 DEF LimitExceeded
    <3>2. \A x, y, z, w \in Int : x <= z /\ y <= w => x + y <= z + w
      OBVIOUS
    <3>3. QED
      BY <2>1, <2>2, <3>1, <3>2
  <2>5. QED
    BY <2>3, <2>4
<1>5. QED
  BY <1>1, <1>3, <1>4 DEF AgentBudgetInv

LEMMA RecordedFits ==
  ASSUME AgentBudgetInv, AgentBudgetTypeOK',
         NEW a \in Agents, NEW n \in CallTokens, NEW next \in {"idle", "corrects"},
         CallRecorded(a, n, next)
  PROVE  AgentBudgetInv'
<1>1. /\ agentPhase[a] = "calls" /\ agentPhase' = [agentPhase EXCEPT ![a] = next]
      /\ used' = [used EXCEPT ![today][a] = @ + n] /\ spent' = spent + n
      /\ UNCHANGED <<blocks, today, unseen>>
  BY DEF CallRecorded, AgentGoes
<1>2. n \in Nat /\ n <= Largest /\ Largest \in Nat
  BY LargestCall
<1>3. today \in 1 .. Days /\ used \in [1 .. Days -> [Agents -> Nat]]
  BY DEF AgentBudgetInv, AgentBudgetTypeOK
<1>4. \A d \in 1 .. Days : d # today => used'[d] = used[d]
  BY <1>1, <1>3
<1>5. DailyTokens(today)' = DailyTokens(today) + n
  <2> DEFINE f == used[today]
             g == used'[today]
  <2>1. g = [f EXCEPT ![a] = @ + n] /\ f \in [Agents -> Nat]
    BY <1>1, <1>3
  <2>2. DailyTokens(today) = SumFunctionOnSet(f, Agents)
        /\ DailyTokens(today)' = SumFunctionOnSet(g, Agents)
    BY <1>1 DEF DailyTokens
  <2> HIDE DEF f, g
  <2>3. /\ \A b \in Agents : f[b] \in Int /\ g[b] \in Int
        /\ \A b \in Agents : b # a => f[b] = g[b]
        /\ g[a] = f[a] + n
    BY <1>2, <2>1
  <2>4. SumFunctionOnSet(g, Agents) = SumFunctionOnSet(f, Agents) + (g[a] - f[a])
    BY <2>3, SumChanges, AgentBudgetAssumption
  <2>5. SumFunctionOnSet(f, Agents) \in Int
    BY <2>3, SumIsInt, AgentBudgetAssumption
  <2>6. QED
    BY <1>2, <2>2, <2>3, <2>4, <2>5
<1>6. \A d \in 1 .. Days : d # today => DailyTokens(d)' = DailyTokens(d)
  BY <1>4 DEF DailyTokens
<1>7. /\ DailyTokens(today) \in Nat /\ TokenLimit \in Nat /\ Cardinality(Agents) \in Nat
      /\ Cardinality(Flying) \in Nat /\ Recorded \in Nat
  BY <1>3, DailyIsNat, FlyingIsSmall, RecordedIsNat, AgentBudgetAssumption DEF AgentBudgetInv
<1>8. SpendIsSeen'
  <2>1. Recorded' = Recorded + (DailyTokens(today)' - DailyTokens(today))
    BY <1>1, <1>6, RecordedFollows DEF AgentBudgetInv
  <2>2. spent = unseen + Recorded /\ unseen \in Nat
    BY SeenIsRecorded DEF AgentBudgetInv, AgentBudgetTypeOK
  <2>3. spent' = unseen' + Recorded'
    BY <1>1, <1>2, <1>5, <1>7, <2>1, <2>2
  <2>4. QED
    BY <2>3 DEF SpendIsSeen, Recorded, SumFunction
<1>9. Cardinality(Flying') = Cardinality(Flying) - 1
  <2>1. Flying' = Flying \ {a} /\ a \in Flying
    BY <1>1 DEF Flying, AgentBudgetInv, AgentBudgetTypeOK
  <2>2. QED
    BY <2>1, FlyingIsSmall, FS_RemoveElement
<1>10. ASSUME blocks, TokenLimit > 0
       PROVE  /\ DailyTokens(today)' + Cardinality(Flying') * Largest
                   <= TokenLimit + Cardinality(Agents) * Largest
              /\ DailyTokens(today)' <= TokenLimit + Cardinality(Agents) * Largest
  <2>1. DailyTokens(today) + Cardinality(Flying) * Largest
          <= TokenLimit + Cardinality(Agents) * Largest
    BY <1>10 DEF AgentBudgetInv
  <2>2. \A f, c \in Nat : (f - 1) * c + c = f * c /\ f * c \in Nat
    OBVIOUS
  <2>3. /\ Cardinality(Flying') * Largest + Largest = Cardinality(Flying) * Largest
        /\ Cardinality(Flying) * Largest \in Nat /\ Cardinality(Agents) * Largest \in Nat
    BY <1>2, <1>7, <1>9, <2>2
  <2>4. Cardinality(Flying') * Largest \in Nat
    <3>1. Cardinality(Flying') \in Nat
      <4>1. (Cardinality(Flying) \in Nat)'
        BY FlyingIsSmall, PTL
      <4>2. QED
        BY <4>1
    <3>2. QED
      BY <1>2, <2>2, <3>1
  <2>5. \A x, y, z, w \in Nat : x + (y + Largest) <= w => x + n + y <= w /\ x + n <= w
    BY <1>2
  <2>6. QED
    BY <1>2, <1>5, <1>7, <2>1, <2>3, <2>4, <2>5
<1>11. \A d \in 1 .. Days : d > today => \A b \in Agents : used'[d][b] = 0
  BY <1>3, <1>4 DEF AgentBudgetInv
<1>12. QED
  BY <1>1, <1>6, <1>8, <1>10, <1>11 DEF AgentBudgetInv

LEMMA MidnightFits ==
  ASSUME AgentBudgetInv, AgentBudgetTypeOK', Midnight
  PROVE  AgentBudgetInv'
<1>1. /\ today' = today + 1 /\ today' \in 1 .. Days
      /\ UNCHANGED <<blocks, agentPhase, used, spent, unseen>>
  BY AgentBudgetAssumption DEF Midnight, AgentBudgetInv, AgentBudgetTypeOK
<1>2. \A d : DailyTokens(d)' = DailyTokens(d)
  BY <1>1 DEF DailyTokens
<1>3. DailyTokens(today') = 0
  <2>1. \A a \in Agents : used[today'][a] = 0
    BY <1>1 DEF AgentBudgetInv, AgentBudgetTypeOK
  <2>2. QED
    BY <2>1, SumOfZeros, AgentBudgetAssumption DEF DailyTokens
<1>4. Recorded' = Recorded
  <2> DEFINE f == [d \in 1 .. today |-> DailyTokens(d)]
             g == [d \in 1 .. today + 1 |-> DailyTokens(d)]
  <2>1. today \in Nat /\ 1 .. today + 1 \subseteq 1 .. Days /\ IsFiniteSet(1 .. today)
        /\ IsFiniteSet(1 .. today + 1) /\ today + 1 \in 1 .. today + 1
        /\ (1 .. today + 1) \ {today + 1} = 1 .. today
    <3>1. today \in Nat /\ today + 1 \in Int /\ today + 1 <= Days /\ Days \in Nat
      BY <1>1, AgentBudgetAssumption DEF AgentBudgetInv, AgentBudgetTypeOK
    <3>2. QED
      BY <3>1, FS_Interval
  <2>2. /\ \A d \in 1 .. today + 1 : g[d] \in Int
        /\ \A d \in 1 .. today : f[d] \in Int /\ f[d] = g[d]
        /\ g[today + 1] = 0
    BY <1>1, <1>3, <2>1, DailyIsNat DEF AgentBudgetInv
  <2>3. Recorded = SumFunctionOnSet(f, 1 .. today)
        /\ Recorded' = SumFunctionOnSet(g, 1 .. today + 1)
    BY <1>1, <1>2 DEF Recorded
  <2> HIDE DEF f, g
  <2>4. SumFunctionOnSet(g, 1 .. today + 1)
          = g[today + 1] + SumFunctionOnSet(g, 1 .. today)
    BY <2>1, <2>2, SumTakesOut
  <2>5. SumFunctionOnSet(f, 1 .. today) = SumFunctionOnSet(g, 1 .. today)
    BY <2>1, <2>2, SumDependsOn
  <2>6. SumFunctionOnSet(f, 1 .. today) \in Int
    BY <2>1, <2>2, SumIsInt
  <2>7. QED
    BY <2>2, <2>3, <2>4, <2>5, <2>6
<1>5. SpendIsSeen'
  <2>1. spent' = unseen' + Recorded'
    BY <1>1, <1>4, SeenIsRecorded DEF AgentBudgetInv
  <2>2. QED
    BY <2>1 DEF SpendIsSeen, Recorded, SumFunction
<1>6. ASSUME blocks, TokenLimit > 0
      PROVE  DailyTokens(today') + Cardinality(Flying) * Largest
               <= TokenLimit + Cardinality(Agents) * Largest
  <2>1. Cardinality(Flying) * Largest \in Nat /\ Cardinality(Agents) * Largest \in Nat
        /\ TokenLimit \in Nat
    BY FlyingIsSmall, LargestCall, AgentBudgetAssumption
  <2>2. QED
    BY <1>3, <2>1, FlyingIsSmall
<1>7. Flying' = Flying
  BY <1>1 DEF Flying
<1>8. \A d \in 1 .. Days : d > today' => \A a \in Agents : used'[d][a] = 0
  BY <1>1 DEF AgentBudgetInv, AgentBudgetTypeOK
<1>9. DailyTokens(today)' = DailyTokens(today')
  BY <1>1 DEF DailyTokens
<1>10. QED
  BY <1>1, <1>2, <1>5, <1>6, <1>7, <1>8, <1>9 DEF AgentBudgetInv

LEMMA ResetFits ==
  ASSUME AgentBudgetInv, AgentBudgetTypeOK', ResetDaily
  PROVE  AgentBudgetInv'
<1>1. /\ unseen' = unseen + DailyTokens(today)
      /\ used' = [used EXCEPT ![today] = [a \in Agents |-> 0]]
      /\ UNCHANGED <<blocks, today, agentPhase, spent>>
  BY DEF ResetDaily
<1>2. today \in 1 .. Days /\ used \in [1 .. Days -> [Agents -> Nat]]
  BY DEF AgentBudgetInv, AgentBudgetTypeOK
<1>3. DailyTokens(today)' = 0
  <2>1. \A a \in Agents : used'[today][a] = 0
    BY <1>1, <1>2
  <2>2. SumFunctionOnSet(used'[today], Agents) = 0
    BY <2>1, SumOfZeros, AgentBudgetAssumption
  <2>3. QED
    BY <1>1, <2>2 DEF DailyTokens
<1>4. \A d \in 1 .. Days : d # today => used'[d] = used[d]
  BY <1>1, <1>2
<1>5. \A d \in 1 .. Days : d # today => DailyTokens(d)' = DailyTokens(d)
  BY <1>4 DEF DailyTokens
<1>6. DailyTokens(today) \in Nat /\ Recorded \in Nat /\ unseen \in Nat
  BY <1>2, DailyIsNat, RecordedIsNat DEF AgentBudgetInv, AgentBudgetTypeOK
<1>7. SpendIsSeen'
  <2>1. Recorded' = Recorded + (DailyTokens(today)' - DailyTokens(today))
    BY <1>1, <1>5, RecordedFollows DEF AgentBudgetInv
  <2>2. spent = unseen + Recorded
    BY SeenIsRecorded DEF AgentBudgetInv
  <2>3. spent' = unseen' + Recorded'
    BY <1>1, <1>3, <1>6, <2>1, <2>2
  <2>4. QED
    BY <2>3 DEF SpendIsSeen, Recorded, SumFunction
<1>8. ASSUME blocks, TokenLimit > 0
      PROVE  /\ DailyTokens(today)' + Cardinality(Flying) * Largest
                  <= TokenLimit + Cardinality(Agents) * Largest
             /\ DailyTokens(today)' <= TokenLimit + Cardinality(Agents) * Largest
  <2>1. Cardinality(Flying) * Largest \in Nat /\ Cardinality(Agents) * Largest \in Nat
        /\ TokenLimit \in Nat
    BY FlyingIsSmall, LargestCall, AgentBudgetAssumption
  <2>2. QED
    BY <1>3, <2>1, FlyingIsSmall
<1>9. Flying' = Flying
  BY <1>1 DEF Flying
<1>10. \A d \in 1 .. Days : d > today => \A a \in Agents : used'[d][a] = 0
  BY <1>2, <1>4 DEF AgentBudgetInv
<1>11. QED
  BY <1>1, <1>5, <1>7, <1>8, <1>9, <1>10 DEF AgentBudgetInv

LEMMA AgentBudgetInvNext ==
  ASSUME AgentBudgetInv, [AgentBudgetNext]_agentBudgetVars
  PROVE  AgentBudgetInv'
<1>1. AgentBudgetTypeOK'
  BY AgentBudgetTypeNext DEF AgentBudgetInv
<1>2. ASSUME NEW a \in Agents, StartCall(a)
      PROVE  AgentBudgetInv'
  BY <1>1, <1>2, NothingRecorded DEF StartCall, AgentBudgetInv, AgentBudgetTypeOK
<1>3. ASSUME NEW a \in Agents, CallFailed(a) \/ StartStream(a)
      PROVE  AgentBudgetInv'
  <2>1. Flying' \subseteq Flying
    BY <1>3 DEF CallFailed, StartStream, AgentGoes, Flying, AgentBudgetInv, AgentBudgetTypeOK
  <2>2. UNCHANGED <<blocks, today, used>> /\ spent' = spent + 0 /\ unseen' = unseen + 0
    BY <1>3 DEF CallFailed, StartStream, AgentBudgetInv, AgentBudgetTypeOK
  <2>3. QED
    BY <1>1, <2>1, <2>2, NothingRecorded
<1>4. ASSUME NEW a \in Agents, NEW n \in CallTokens, NEW next \in {"idle", "corrects"},
             UnrecordedEnd(a, n, next)
      PROVE  AgentBudgetInv'
  <2>1. Flying' \subseteq Flying
    BY <1>4 DEF UnrecordedEnd, OutputRejected, CallWithoutUsage, Corrected, Streamed, AgentGoes,
                Flying, AgentBudgetInv, AgentBudgetTypeOK
  <2>2. UNCHANGED <<blocks, today, used>> /\ spent' = spent + n /\ unseen' = unseen + n
    BY <1>4 DEF UnrecordedEnd, OutputRejected, CallWithoutUsage, Corrected, Streamed, OffTheRecord
  <2>3. n \in Nat
    BY LargestCall
  <2>4. QED
    BY <1>1, <2>1, <2>2, <2>3, NothingRecorded
<1>5. CASE UNCHANGED agentBudgetVars
  <2>1. Flying' \subseteq Flying
    BY <1>5 DEF agentBudgetVars, Flying
  <2>2. UNCHANGED <<blocks, today, used>> /\ spent' = spent + 0 /\ unseen' = unseen + 0
    BY <1>5 DEF agentBudgetVars, AgentBudgetInv, AgentBudgetTypeOK
  <2>3. QED
    BY <1>1, <2>1, <2>2, NothingRecorded
<1>6. QED
  BY <1>1, <1>2, <1>3, <1>4, <1>5, RecordedFits, MidnightFits, ResetFits
     DEF AgentBudgetNext, UnrecordedEnd

LEMMA TokensAreBounded == ServicesSpec => [](OvershootBounded /\ SpendIsSeen)
<1>1. ServicesInit => AgentBudgetInv
  BY AgentBudgetInvInit DEF ServicesInit
<1>2. AgentBudgetInv /\ [ServicesNext]_servicesVars => AgentBudgetInv'
  BY OnePartMoves, AgentBudgetInvNext
<1>3. AgentBudgetInv => OvershootBounded /\ SpendIsSeen
  BY DEF AgentBudgetInv, OvershootBounded, Largest
<1>4. QED
  BY <1>1, <1>2, <1>3, PTL DEF ServicesSpec

-----------------------------------------------------------------------------
(***************************************************************************)
(* Usage alerts.                                                           *)
(***************************************************************************)
\* A row keeps its id, scope and period; what is marked as notified has its alert, and no
\* alert is filed under a period to come.
AlertsInv ==
  /\ BudgetAlertsTypeOK
  /\ \A t \in thresholds : t.id < newId
  /\ \A t, u \in thresholds : t.id = u.id => t = u
  /\ \A n \in notified : n[1] < newId
  /\ \A t \in thresholds, k \in 0 .. LastDay :
       <<t.id, t.period, k>> \in notified =>
         \E a \in alerts : /\ a.scope = t.scope /\ a.period = t.period /\ a.key = k
                           /\ a.about = k \/ a.about + 1 = k
  /\ \A a \in alerts : a.key <= Key(a.period, clock)
  /\ ExceededIsAlerted

\* Periods follow the days, one at a time.
LEMMA KeysFollow ==
  ASSUME NEW p \in Periods, NEW d \in Nat, NEW e \in Nat
  PROVE  /\ Key(p, d) \in 0 .. d
         /\ d <= e => Key(p, d) <= Key(p, e)
         /\ e = d + 1 => Key(p, e) \in {Key(p, d), Key(p, d) + 1}
<1>1. CASE p = "daily"
  BY <1>1 DEF Key
<1>2. CASE p # "daily"
  BY <1>2 DEF Key, Month
<1>3. QED
  BY <1>1, <1>2

LEMMA AlertsInvInit == BudgetAlertsInit => AlertsInv
<1> SUFFICES ASSUME BudgetAlertsInit PROVE AlertsInv
  OBVIOUS
<1>1. BudgetAlertsTypeOK
  BY BudgetAlertsAssumption DEF BudgetAlertsInit, BudgetAlertsTypeOK
<1>2. QED
  BY <1>1 DEF BudgetAlertsInit, AlertsInv, ExceededIsAlerted

\* What record_usage() finds exceeded at the instant seen, and files at the instant keyed.
LEMMA UsageAlerts ==
  ASSUME AlertsInv, NEW s \in Sources, NEW at \in 1 .. LastDay,
         NEW seen \in 1 .. LastDay, NEW keyed \in 1 .. LastDay,
         RecordUsage(s, at, seen, keyed)
  PROVE  AlertsInv'
<1> DEFINE after == [costs EXCEPT ![at][s] = @ + 1]
           exceeded == Exceeded(after, seen)
           mark(t) == <<t.id, t.period, Key(t.period, keyed)>>
           new == {t \in exceeded : mark(t) \notin notified}
           alert(t) == [scope |-> t.scope, period |-> t.period,
                        about |-> Key(t.period, seen), key |-> Key(t.period, keyed)]
<1>1. /\ clock <= seen /\ seen <= keyed /\ keyed <= clock + 1
      /\ costs' = after /\ clock' = keyed
      /\ notified' = notified \cup {mark(t) : t \in new}
      /\ alerts' = alerts \cup {alert(t) : t \in new}
      /\ checked' = {[scope |-> t.scope, period |-> t.period,
                      about |-> Key(t.period, seen)] : t \in exceeded}
      /\ UNCHANGED <<thresholds, newId>>
  BY DEF RecordUsage
<1>2. exceeded \subseteq thresholds /\ new \subseteq exceeded
  BY DEF Exceeded
<1>3. costs' \in [1 .. LastDay -> [Sources -> Nat]]
  BY <1>1 DEF AlertsInv, BudgetAlertsTypeOK
<1> HIDE DEF after, exceeded, new
<1>4. clock \in Nat /\ seen \in Nat /\ keyed \in Nat /\ LastDay \in Nat /\ clock \in 1 .. LastDay
  BY BudgetAlertsAssumption DEF AlertsInv, BudgetAlertsTypeOK
<1>5. ASSUME NEW t \in thresholds
      PROVE  /\ t.id \in 1 .. LastId /\ t.scope \in Scopes /\ t.period \in Periods
             /\ Key(t.period, seen) \in 0 .. LastDay /\ Key(t.period, keyed) \in 0 .. LastDay
             /\ Key(t.period, clock) <= Key(t.period, seen)
             /\ Key(t.period, seen) <= Key(t.period, keyed)
             /\ Key(t.period, keyed) \in {Key(t.period, seen), Key(t.period, seen) + 1}
  <2>1. t.id \in 1 .. LastId /\ t.scope \in Scopes /\ t.period \in Periods
    BY DEF AlertsInv, BudgetAlertsTypeOK
  <2>2. keyed = seen \/ keyed = seen + 1
    BY <1>1, <1>4
  <2>3. /\ Key(t.period, seen) \in 0 .. seen /\ Key(t.period, keyed) \in 0 .. keyed
        /\ Key(t.period, clock) <= Key(t.period, seen)
        /\ Key(t.period, seen) <= Key(t.period, keyed)
    BY <1>1, <1>4, <2>1, KeysFollow
  <2>4. Key(t.period, keyed) \in {Key(t.period, seen), Key(t.period, seen) + 1}
    BY <1>4, <2>1, <2>2, KeysFollow
  <2>5. QED
    BY <1>4, <2>1, <2>3, <2>4
<1>6. BudgetAlertsTypeOK'
  <2>1. \A t \in new : mark(t) \in (1 .. LastId) \X Periods \X (0 .. LastDay)
    BY <1>2, <1>5
  <2>2. \A t \in new : alert(t) \in [scope : Scopes, period : Periods, about : 0 .. LastDay,
                                     key : 0 .. LastDay]
    BY <1>2, <1>5
  <2>3. checked' \subseteq [scope : Scopes, period : Periods, about : 0 .. LastDay]
    BY <1>1, <1>2, <1>5
  <2>4. QED
    BY <1>1, <1>3, <2>1, <2>2, <2>3 DEF AlertsInv, BudgetAlertsTypeOK
<1>7. \A n \in notified' : n[1] < newId'
  BY <1>1, <1>2 DEF AlertsInv
<1>8. ASSUME NEW t \in thresholds, NEW k \in 0 .. LastDay, <<t.id, t.period, k>> \in notified'
      PROVE  \E a \in alerts' : /\ a.scope = t.scope /\ a.period = t.period /\ a.key = k
                                /\ a.about = k \/ a.about + 1 = k
  <2>1. CASE <<t.id, t.period, k>> \in notified
    BY <1>1, <2>1 DEF AlertsInv
  <2>2. CASE <<t.id, t.period, k>> \notin notified
    <3>1. PICK u \in new : <<t.id, t.period, k>> = mark(u)
      BY <1>1, <1>8, <2>2
    <3>2. u = t /\ k = Key(t.period, keyed)
      BY <1>2, <3>1 DEF AlertsInv
    <3>3. alert(t) \in alerts'
      BY <1>1, <3>1, <3>2
    <3>4. alert(t).about = k \/ alert(t).about + 1 = k
      BY <1>5, <3>2
    <3>5. QED
      BY <3>2, <3>3, <3>4
  <2>3. QED
    BY <2>1, <2>2
<1>9. ASSUME NEW a \in alerts'
      PROVE  a.key <= Key(a.period, keyed)
  <2>1. CASE a \in alerts
    <3>1. a.period \in Periods /\ a.key \in Nat /\ a.key <= Key(a.period, clock)
      BY <2>1 DEF AlertsInv, BudgetAlertsTypeOK
    <3>2. clock <= keyed
      BY <1>1, <1>4
    <3>3. Key(a.period, clock) <= Key(a.period, keyed) /\ Key(a.period, keyed) \in Int
          /\ Key(a.period, clock) \in Int
      BY <1>4, <3>1, <3>2, KeysFollow
    <3>4. QED
      BY <3>1, <3>3
  <2>2. CASE a \notin alerts
    <3>1. PICK t \in new : a = alert(t)
      BY <1>1, <2>2
    <3>2. QED
      BY <1>2, <1>5, <3>1
  <2>3. QED
    BY <2>1, <2>2
<1>10. ASSUME NEW c \in checked'
       PROVE  \E a \in alerts' :
                /\ a.scope = c.scope /\ a.period = c.period
                /\ (a.about = c.about \/ (a.about + 1 = c.about /\ a.key = c.about))
  <2>1. PICK t \in exceeded : c = [scope |-> t.scope, period |-> t.period,
                                   about |-> Key(t.period, seen)]
    BY <1>1
  <2>2. CASE t \in new
    <3>1. alert(t) \in alerts'
      BY <1>1, <2>2
    <3>2. QED
      BY <2>1, <3>1
  <2>3. CASE t \notin new
    <3>1. mark(t) \in notified
      BY <2>1, <2>3 DEF new
    <3>2. t \in thresholds /\ Key(t.period, keyed) \in 0 .. LastDay
      BY <1>2, <1>5
    <3>3. PICK a \in alerts :
            /\ a.scope = t.scope /\ a.period = t.period /\ a.key = Key(t.period, keyed)
            /\ a.about = Key(t.period, keyed) \/ a.about + 1 = Key(t.period, keyed)
      BY <3>1, <3>2 DEF AlertsInv
    <3>4. a.key <= Key(t.period, clock)
      BY <3>3 DEF AlertsInv
    <3>5. Key(t.period, clock) \in Int
      BY <1>4, <1>5, <3>2, KeysFollow
    <3>6. Key(t.period, keyed) = Key(t.period, seen)
      BY <1>5, <3>2, <3>3, <3>4, <3>5
    <3>7. a \in alerts'
      BY <1>1
    <3>8. QED
      BY <2>1, <3>3, <3>6, <3>7
  <2>4. QED
    BY <2>2, <2>3
<1>11. QED
  BY <1>1, <1>6, <1>7, <1>8, <1>9, <1>10 DEF AlertsInv, ExceededIsAlerted

LEMMA UpsertKeepsAlerts ==
  ASSUME AlertsInv, NEW scope \in Scopes, NEW period \in Periods, NEW limit \in LimitValues,
         UpsertBudget(scope, period, limit)
  PROVE  AlertsInv'
<1> DEFINE old == {t \in thresholds : t.scope = scope /\ t.period = period}
           id == IF old = {} THEN newId ELSE (CHOOSE t \in old : TRUE).id
           row == [id |-> id, scope |-> scope, period |-> period, limit |-> limit]
<1>1. /\ id <= LastId /\ thresholds' = (thresholds \ old) \cup {row}
      /\ newId' = IF old = {} THEN newId + 1 ELSE newId
      /\ checked' = {} /\ UNCHANGED <<clock, costs, notified, alerts>>
  BY DEF UpsertBudget
<1>2. /\ newId \in 1 .. LastId + 1 /\ LastId \in Nat
      /\ \A t \in thresholds : /\ t.id \in 1 .. LastId /\ t.scope \in Scopes
                               /\ t.period \in Periods /\ t.limit \in LimitValues
  BY BudgetAlertsAssumption DEF AlertsInv, BudgetAlertsTypeOK
<1>3. \/ old = {} /\ id = newId /\ newId' = newId + 1
      \/ newId' = newId /\ \E t \in old : t.id = id
  BY <1>1
<1>4. old \subseteq thresholds /\ \A t \in old : t.scope = scope /\ t.period = period
  OBVIOUS
<1> HIDE DEF old, id
<1>5. id \in 1 .. LastId /\ id < newId' /\ newId <= newId' /\ newId' \in 1 .. LastId + 1
  BY <1>1, <1>2, <1>3, <1>4 DEF AlertsInv
<1>6. \A t \in thresholds' : t \in thresholds \ old \/ t = row
  BY <1>1
<1>7. BudgetAlertsTypeOK'
  <2>1. row \in [id : 1 .. LastId, scope : Scopes, period : Periods, limit : LimitValues]
    BY <1>5
  <2>2. thresholds' \subseteq [id : 1 .. LastId, scope : Scopes, period : Periods,
                               limit : LimitValues]
    BY <1>1, <2>1 DEF AlertsInv, BudgetAlertsTypeOK
  <2>3. QED
    BY <1>1, <1>5, <2>2 DEF AlertsInv, BudgetAlertsTypeOK
<1>8. \A t \in thresholds \ old : t.id # id
  BY <1>2, <1>3, <1>4 DEF AlertsInv
<1>9. \A t, u \in thresholds' : t.id = u.id => t = u
  BY <1>6, <1>8 DEF AlertsInv
<1>10. (\A t \in thresholds' : t.id < newId') /\ \A n \in notified' : n[1] < newId'
  <2>1. ASSUME NEW t \in thresholds' PROVE t.id < newId'
    BY <1>2, <1>5, <1>6 DEF AlertsInv
  <2>2. ASSUME NEW n \in notified' PROVE n[1] < newId'
    <3>1. n \in notified /\ n[1] < newId /\ n[1] \in Nat
      BY <1>1 DEF AlertsInv, BudgetAlertsTypeOK
    <3>2. QED
      BY <1>2, <1>5, <3>1
  <2>3. QED
    BY <2>1, <2>2
<1>11. ASSUME NEW t \in thresholds', NEW k \in 0 .. LastDay, <<t.id, t.period, k>> \in notified
       PROVE  \E a \in alerts : /\ a.scope = t.scope /\ a.period = t.period /\ a.key = k
                                /\ a.about = k \/ a.about + 1 = k
  <2>1. CASE t \in thresholds
    BY <1>11, <2>1 DEF AlertsInv
  <2>2. CASE t = row
    <3>1. <<id, period, k>> \in notified
      BY <1>11, <2>2
    <3>2. id < newId
      BY <3>1 DEF AlertsInv
    <3>3. PICK u \in thresholds : u.id = id /\ u.scope = scope /\ u.period = period
      BY <1>2, <1>3, <1>4, <3>2
    <3>4. QED
      BY <2>2, <3>1, <3>3 DEF AlertsInv
  <2>3. QED
    BY <1>6, <2>1, <2>2
<1>12. QED
  BY <1>1, <1>7, <1>9, <1>10, <1>11 DEF AlertsInv, ExceededIsAlerted

LEMMA AlertsInvNext ==
  ASSUME AlertsInv, [BudgetAlertsNext]_budgetAlertVars
  PROVE  AlertsInv'
<1>1. ASSUME NEW t \in thresholds, DeleteBudget(t)
      PROVE  AlertsInv'
  <2>1. thresholds' \subseteq thresholds /\ checked' = {}
        /\ UNCHANGED <<clock, costs, newId, notified, alerts>>
    BY <1>1 DEF DeleteBudget
  <2>2. QED
    BY <2>1 DEF AlertsInv, BudgetAlertsTypeOK, ExceededIsAlerted
<1>2. CASE PurgeUsage
  <2>1. checked' = {} /\ UNCHANGED <<clock, thresholds, newId, notified, alerts>>
    BY <1>2 DEF PurgeUsage
  <2>2. costs' \in [1 .. LastDay -> [Sources -> Nat]]
    BY <1>2 DEF PurgeUsage, AlertsInv, BudgetAlertsTypeOK
  <2>3. QED
    BY <2>1, <2>2 DEF AlertsInv, BudgetAlertsTypeOK, ExceededIsAlerted
<1>3. CASE DayPasses
  <2>1. /\ clock' = clock + 1 /\ clock' \in 1 .. LastDay /\ clock \in Nat /\ clock' \in Nat
        /\ checked' = {} /\ UNCHANGED <<costs, thresholds, newId, notified, alerts>>
    BY <1>3, BudgetAlertsAssumption DEF DayPasses, AlertsInv, BudgetAlertsTypeOK
  <2>2. ASSUME NEW a \in alerts PROVE a.key <= Key(a.period, clock')
    <3>1. a.period \in Periods /\ a.key \in Nat /\ a.key <= Key(a.period, clock)
      BY DEF AlertsInv, BudgetAlertsTypeOK
    <3>2. Key(a.period, clock) <= Key(a.period, clock') /\ Key(a.period, clock') \in Int
          /\ Key(a.period, clock) \in Int
      BY <2>1, <3>1, KeysFollow
    <3>3. QED
      BY <3>1, <3>2
  <2>3. QED
    BY <2>1, <2>2 DEF AlertsInv, BudgetAlertsTypeOK, ExceededIsAlerted
<1>4. CASE RestartAlerts
  BY <1>4 DEF RestartAlerts, AlertsInv, BudgetAlertsTypeOK, ExceededIsAlerted
<1>5. CASE UNCHANGED budgetAlertVars
  BY <1>5 DEF budgetAlertVars, AlertsInv, BudgetAlertsTypeOK, ExceededIsAlerted
<1>6. QED
  BY <1>1, <1>2, <1>3, <1>4, <1>5, UsageAlerts, UpsertKeepsAlerts DEF BudgetAlertsNext

LEMMA ExceededAreAlerted == ServicesSpec => []ExceededIsAlerted
<1>1. ServicesInit => AlertsInv
  BY AlertsInvInit DEF ServicesInit
<1>2. AlertsInv /\ [ServicesNext]_servicesVars => AlertsInv'
  BY OnePartMoves, AlertsInvNext
<1>3. AlertsInv => ExceededIsAlerted
  BY DEF AlertsInv
<1>4. QED
  BY <1>1, <1>2, <1>3, PTL DEF ServicesSpec

-----------------------------------------------------------------------------
(***************************************************************************)
(* Hybrid cloud.                                                           *)
(***************************************************************************)
Charged(tasks) == TaskCost * Cardinality(tasks)

\* What was spent today and what is yet to be charged fit under the bound together.
SpendInv ==
  /\ lastReset <= date
  /\ trueMonth <= spentMonth
  /\ date = lastReset => spentToday <= trueToday
  /\ date = lastReset /\ ~wiped => spentToday >= trueToday
  /\ ~unasked /\ CloudRunning # {} => DailyBudget > 0
  /\ ~wiped /\ ~unasked /\ (trueToday > 0 \/ CloudRunning # {}) =>
       trueToday + Charged(CloudRunning) < DailyBudget + Charged(CloudTasks)

HybridInv == HybridTypeOK /\ SpendInv /\ OnlyStrandedTasksWait

LEMMA Prices ==
  /\ DailyBudget \in Nat /\ MonthlyBudget \in Nat /\ TaskCost \in Nat
  /\ IsFiniteSet(CloudTasks)
BY HybridAssumption

LEMMA ChargedGrows ==
  ASSUME NEW S \in SUBSET CloudTasks, NEW T \in SUBSET S
  PROVE  Charged(T) \in Nat /\ Charged(S) \in Nat /\ Charged(T) <= Charged(S)
<1>1. IsFiniteSet(S) /\ IsFiniteSet(T)
  BY Prices, FS_Subset
<1>2. Cardinality(T) \in Nat /\ Cardinality(S) \in Nat /\ Cardinality(T) <= Cardinality(S)
  BY <1>1, FS_Subset, FS_CardinalityType
<1>3. \A m, n, c \in Nat : m <= n => c * m <= c * n /\ c * m \in Nat /\ c * n \in Nat
  OBVIOUS
<1>4. QED
  BY <1>2, <1>3, Prices DEF Charged

LEMMA ChargedOnce ==
  ASSUME NEW S \in SUBSET CloudTasks, NEW t \in S
  PROVE  Charged(S) = Charged(S \ {t}) + TaskCost
<1>1. IsFiniteSet(S)
  BY Prices, FS_Subset
<1>2. Cardinality(S \ {t}) = Cardinality(S) - 1 /\ Cardinality(S) \in Nat
  BY <1>1, FS_RemoveElement, FS_CardinalityType
<1>3. \A n, c \in Nat : c * n = c * (n - 1) + c
  OBVIOUS
<1>4. QED
  BY <1>2, <1>3, Prices DEF Charged

LEMMA BestIsOne ==
  ASSUME NEW among \in SUBSET Workers, among # {}
  PROVE  Best(among) \in among
<1>1. IsFiniteSet(among) /\ \A w \in among : Preferred[w] \in Int
  BY HybridAssumption, FS_Subset
<1>2. \E w \in among : \A v \in among : Preferred[w] <= Preferred[v]
  BY <1>1, LeastExists
<1>3. QED
  BY <1>2 DEF Best

\* No more runs in the cloud, and nothing is spent.
LEMMA NothingSpent ==
  ASSUME HybridInv, UNCHANGED money \/ DateReset,
         unasked' \/ (~unasked /\ CloudRunning' \subseteq CloudRunning)
  PROVE  SpendInv'
<1>1. /\ UNCHANGED <<date, trueToday, spentMonth, trueMonth>>
      /\ lastReset' <= date
      /\ date = lastReset' => spentToday' <= trueToday
      /\ ~wiped' => ~wiped
      /\ date = lastReset' /\ ~wiped' => spentToday' >= trueToday
  <2>1. CASE UNCHANGED money
    BY <2>1 DEF money, HybridInv, HybridTypeOK, SpendInv
  <2>2. CASE DateReset
    <3>1. date \in Int /\ trueToday \in Nat /\ spentToday \in Nat
      BY <2>2, HybridAssumption DEF HybridInv, HybridTypeOK
    <3>2. UNCHANGED <<date, trueToday, spentMonth, trueMonth>> /\ lastReset' = date
          /\ spentToday' = IF date # lastReset THEN 0 ELSE spentToday
      BY <2>2 DEF DateReset, SpentNow
    <3>3. ~wiped' => ~wiped /\ (date = lastReset \/ ~(trueToday > 0))
      BY <2>2, Zenon DEF DateReset
    <3>4. /\ date = lastReset /\ ~wiped => spentToday >= trueToday
          /\ date = lastReset => spentToday <= trueToday
      BY DEF HybridInv, SpendInv
    <3>5. ~wiped' => spentToday' >= trueToday
      <4>1. CASE date = lastReset
        BY <3>2, <3>3, <3>4, <4>1
      <4>2. CASE date # lastReset
        BY <3>1, <3>2, <3>3, <4>2
      <4>3. QED
        BY <4>1, <4>2
    <3>6. spentToday' <= trueToday
      BY <3>1, <3>2, <3>4
    <3>7. QED
      BY <3>1, <3>2, <3>3, <3>5, <3>6
  <2>3. QED
    BY <2>1, <2>2
<1>2. CloudRunning' \subseteq CloudTasks /\ CloudRunning \subseteq CloudTasks
  BY DEF CloudRunning
<1>3. /\ Charged(CloudRunning') \in Nat /\ Charged(CloudRunning) \in Nat
      /\ ~unasked' => Charged(CloudRunning') <= Charged(CloudRunning)
      /\ Charged(CloudTasks) \in Nat
  BY <1>2, ChargedGrows
<1>4. trueToday \in Nat
  BY DEF HybridInv, HybridTypeOK
<1>5. ASSUME ~wiped', ~unasked', trueToday > 0 \/ CloudRunning' # {}
      PROVE  trueToday + Charged(CloudRunning') < DailyBudget + Charged(CloudTasks)
  <2>1. trueToday + Charged(CloudRunning) < DailyBudget + Charged(CloudTasks)
    BY <1>1, <1>5 DEF HybridInv, SpendInv
  <2>2. Charged(CloudRunning') <= Charged(CloudRunning)
    BY <1>3, <1>5
  <2>3. QED
    BY <1>3, <1>4, <2>1, <2>2, Prices
<1>6. (Charged(CloudRunning))' = Charged(CloudRunning')
  BY DEF Charged
<1>7. QED
  BY <1>1, <1>5, <1>6 DEF HybridInv, SpendInv, Charged

\* What schedule_task() does.
Placed(t, w) ==
  /\ w \in Workers /\ resources[w] = "available"
  /\ Place(t, w)
  /\ UNCHANGED money \/ DateReset
  /\ w \notin LocalWorkers => DateReset /\ WithinBudget

LEMMA SchedulePlaces ==
  ASSUME NEW t \in CloudTasks, ScheduleTask(t)
  PROVE  /\ activeTasks[t] = "none" /\ UNCHANGED <<preemption, resources, unasked>>
         /\ \/ \E w \in Workers : Placed(t, w)
            \/ UNCHANGED <<activeTasks, stranded>> /\ DateReset
<1> DEFINE all == Available(Workers)
           local == Available(LocalWorkers)
           best == Best(all)
<1>1. /\ activeTasks[t] = "none" /\ all # {} /\ UNCHANGED <<preemption, resources, unasked>>
      /\ IF best \in LocalWorkers THEN Place(t, best) /\ UNCHANGED money
         ELSE /\ DateReset
              /\ IF WithinBudget THEN Place(t, best)
                 ELSE IF local # {} THEN Place(t, Best(local))
                 ELSE UNCHANGED <<activeTasks, stranded>>
  BY DEF ScheduleTask
<1>2. LocalWorkers \subseteq Workers
  BY HybridAssumption
<1>3. /\ all \subseteq Workers /\ local \subseteq LocalWorkers
      /\ \A w \in all \cup local : resources[w] = "available"
  BY <1>2 DEF Available
<1>4. best \in all /\ (local # {} => Best(local) \in local)
  <2> HIDE DEF all, local
  <2> QED BY <1>1, <1>2, <1>3, BestIsOne
<1> HIDE DEF all, local, best
<1>5. CASE best \in LocalWorkers
  BY <1>1, <1>3, <1>4, <1>5 DEF Placed
<1>6. CASE best \notin LocalWorkers /\ WithinBudget
  BY <1>1, <1>3, <1>4, <1>6 DEF Placed
<1>7. CASE best \notin LocalWorkers /\ ~WithinBudget /\ local # {}
  <2>1. Best(local) \in LocalWorkers /\ Best(local) \in Workers
        /\ resources[Best(local)] = "available"
    BY <1>2, <1>3, <1>4, <1>7
  <2>2. Placed(t, Best(local))
    BY <1>1, <1>7, <2>1 DEF Placed
  <2>3. QED
    BY <1>1, <2>1, <2>2
<1>8. CASE best \notin LocalWorkers /\ ~WithinBudget /\ local = {}
  BY <1>1, <1>8
<1>9. QED
  BY <1>5, <1>6, <1>7, <1>8

\* What handle_preemption() makes of a task: it leaves all where they are, or takes one
\* away, to a worker that is available if anywhere.
LEMMA PreemptMoves ==
  ASSUME NEW w \in Workers, Preempt(w)
  PROVE  LET waiting == stranded \cup Victims(w) IN
         \/ stranded' = waiting /\ UNCHANGED <<activeTasks, unasked>>
         \/ \E t \in CloudTasks, rid \in Workers \cup {"none"} :
              /\ rid # "none" => rid # w /\ resources[rid] = "available"
              /\ Moves(t, rid, waiting)
<1> DEFINE waiting == stranded \cup Victims(w)
           rid == Best(Refuges(w))
<1>1. ASSUME Refuges(w) # {}
      PROVE  rid \in Workers /\ rid # w /\ resources[rid] = "available"
  <2>1. /\ Refuges(w) \subseteq Workers /\ w \notin Refuges(w)
        /\ \A v \in Refuges(w) : resources[v] = "available"
    BY HybridAssumption DEF Refuges, Available
  <2>2. QED
    BY <1>1, <2>1, BestIsOne
<1>2. \/ stranded' = waiting /\ UNCHANGED <<activeTasks, unasked>>
      \/ \E t \in CloudTasks :
           IF preemption = "REQUEUE" THEN Moves(t, "none", waiting)
           ELSE Refuges(w) # {} /\ Moves(t, rid, waiting)
  BY Zenon DEF Preempt
<1> HIDE DEF waiting, rid
<1>3. CASE \E t \in CloudTasks :
             IF preemption = "REQUEUE" THEN Moves(t, "none", waiting)
             ELSE Refuges(w) # {} /\ Moves(t, rid, waiting)
  <2>1. PICK t \in CloudTasks :
          IF preemption = "REQUEUE" THEN Moves(t, "none", waiting)
          ELSE Refuges(w) # {} /\ Moves(t, rid, waiting)
    BY <1>3
  <2>2. CASE preemption = "REQUEUE"
    BY <2>1, <2>2, Zenon DEF waiting
  <2>3. CASE preemption # "REQUEUE"
    BY <1>1, <2>1, <2>3, Zenon DEF waiting
  <2>4. QED
    BY <2>2, <2>3
<1>4. QED
  BY <1>2, <1>3, Zenon DEF waiting

\* The tasks a preemption leaves in the cloud were there, unless it has sent one unasked.
LEMMA MovesInTheCloud ==
  ASSUME HybridTypeOK, NEW t \in CloudTasks, NEW rid \in Workers \cup {"none"}, NEW waiting,
         Moves(t, rid, waiting)
  PROVE  unasked' \/ (~unasked /\ CloudRunning' \subseteq CloudRunning)
<1>1. activeTasks' = [activeTasks EXCEPT ![t] = rid]
  BY DEF Moves
<1>2. ~unasked' => /\ ~unasked
                   /\ rid \in LocalWorkers \cup {"none"}
                        \/ activeTasks[t] \notin LocalWorkers \cup {"none"}
  BY Zenon DEF Moves
<1>3. activeTasks \in [CloudTasks -> Workers \cup {"none"}]
  BY DEF HybridTypeOK
<1>4. ASSUME NEW u \in CloudTasks, ~unasked', activeTasks'[u] \notin LocalWorkers \cup {"none"}
      PROVE  activeTasks[u] \notin LocalWorkers \cup {"none"}
  BY <1>1, <1>2, <1>3, <1>4
<1>5. QED
  BY <1>2, <1>4 DEF CloudRunning

LEMMA HybridTypeNext ==
  ASSUME HybridTypeOK, [HybridNext]_hybridVars
  PROVE  HybridTypeOK'
<1>1. ASSUME UNCHANGED money \/ DateReset
      PROVE  /\ date' \in 1 .. MaxDate /\ lastReset' \in 1 .. MaxDate
             /\ {spentToday', spentMonth', trueToday', trueMonth'} \subseteq Nat /\ wiped' \in BOOLEAN
  <2>1. CASE UNCHANGED money
    BY <2>1 DEF money, HybridTypeOK
  <2>2. CASE DateReset
    <3>1. wiped' \in BOOLEAN
      BY <2>2, Zenon DEF DateReset, HybridTypeOK
    <3>2. QED
      BY <2>2, <3>1 DEF DateReset, SpentNow, HybridTypeOK
  <2>3. QED
    BY <1>1, <2>1, <2>2
<1>2. ASSUME NEW t \in CloudTasks, ScheduleTask(t)
      PROVE  HybridTypeOK'
  <2>1. CASE \E w \in Workers : Placed(t, w)
    <3>1. PICK w \in Workers : Placed(t, w)
      BY <2>1
    <3>2. activeTasks' = [activeTasks EXCEPT ![t] = w] /\ stranded' = stranded \ {t}
      BY <3>1 DEF Placed, Place
    <3>3. UNCHANGED money \/ DateReset
      BY <3>1 DEF Placed
    <3>4. QED
      BY <1>1, <1>2, <3>2, <3>3, SchedulePlaces DEF HybridTypeOK
  <2>2. CASE UNCHANGED <<activeTasks, stranded>> /\ DateReset
    BY <1>1, <1>2, <2>2, SchedulePlaces DEF HybridTypeOK
  <2>3. QED
    BY <1>2, <2>1, <2>2, SchedulePlaces
<1>3. ASSUME NEW t \in CloudTasks, FinishTask(t)
      PROVE  HybridTypeOK'
  <2>1. /\ activeTasks' = [activeTasks EXCEPT ![t] = "none"] /\ stranded' = stranded \ {t}
        /\ UNCHANGED <<preemption, resources, unasked>>
    BY <1>3 DEF FinishTask
  <2>2. CASE activeTasks[t] \in LocalWorkers
    BY <1>1, <1>3, <2>1, <2>2 DEF FinishTask, HybridTypeOK
  <2>3. CASE activeTasks[t] \notin LocalWorkers
    <3>1. /\ spentToday' = spentToday + TaskCost /\ spentMonth' = spentMonth + TaskCost
          /\ trueToday' = trueToday + TaskCost /\ trueMonth' = trueMonth + TaskCost
          /\ UNCHANGED <<date, lastReset, wiped>>
      BY <1>3, <2>3 DEF FinishTask
    <3>2. QED
      BY <2>1, <3>1, Prices DEF HybridTypeOK
  <2>4. QED
    BY <2>2, <2>3
<1>4. CASE NextDate
  <2>1. /\ date < MaxDate /\ date' = date + 1 /\ trueToday' = 0 /\ wiped' = FALSE
        /\ trueMonth' \in {trueMonth, 0}
        /\ UNCHANGED <<preemption, resources, activeTasks, lastReset, spentToday, spentMonth,
                       stranded, unasked>>
    BY <1>4 DEF NextDate
  <2>2. MaxDate \in Nat
    BY HybridAssumption
  <2>3. date' \in 1 .. MaxDate
    BY <2>1, <2>2 DEF HybridTypeOK
  <2>4. {spentToday', spentMonth', trueToday', trueMonth'} \subseteq Nat
    BY <2>1 DEF HybridTypeOK
  <2>5. wiped' \in BOOLEAN
    BY <2>1
  <2>6. QED
    BY <2>1, <2>3, <2>4, <2>5 DEF HybridTypeOK
<1>5. CASE LookAtSpend
  BY <1>1, <1>5 DEF LookAtSpend, HybridTypeOK
<1>6. ASSUME NEW w \in Workers, Preempt(w)
      PROVE  HybridTypeOK'
  <2>1. /\ resources' = [resources EXCEPT ![w] = IF @ = "absent" THEN @ ELSE "preempted"]
        /\ UNCHANGED <<preemption, money>>
    BY <1>6 DEF Preempt
  <2>2. resources' \in [Workers -> {"absent"} \cup ResourceStates]
    BY <2>1 DEF HybridTypeOK, ResourceStates
  <2>3. stranded \cup Victims(w) \subseteq CloudTasks
    BY DEF Victims, HybridTypeOK
  <2>4. CASE stranded' = stranded \cup Victims(w) /\ UNCHANGED <<activeTasks, unasked>>
    BY <1>1, <2>1, <2>2, <2>3, <2>4 DEF HybridTypeOK
  <2>5. CASE \E t \in CloudTasks, rid \in Workers \cup {"none"} :
               Moves(t, rid, stranded \cup Victims(w))
    <3>1. PICK t \in CloudTasks, rid \in Workers \cup {"none"} :
            Moves(t, rid, stranded \cup Victims(w))
      BY <2>5
    <3>2. unasked' \in BOOLEAN
      BY <3>1, Zenon DEF Moves
    <3>3. /\ activeTasks' = [activeTasks EXCEPT ![t] = rid]
          /\ stranded' = (stranded \cup Victims(w)) \ {t}
      BY <3>1 DEF Moves
    <3>4. QED
      BY <1>1, <2>1, <2>2, <2>3, <3>2, <3>3 DEF HybridTypeOK
  <2>6. QED
    BY <1>6, <2>4, <2>5, PreemptMoves, Zenon
<1>7. ASSUME NEW w \in Workers, RecoverWorker(w) \/ UnregisterWorker(w) \/ RegisterWorker(w)
      PROVE  HybridTypeOK'
  <2>1. UNCHANGED <<preemption, activeTasks, money, unasked>>
    BY <1>7 DEF RecoverWorker, UnregisterWorker, RegisterWorker
  <2>2. resources' \in [Workers -> {"absent"} \cup ResourceStates]
    BY <1>7 DEF RecoverWorker, UnregisterWorker, RegisterWorker, HybridTypeOK, ResourceStates
  <2>3. stranded' \subseteq CloudTasks
    BY <1>7 DEF RecoverWorker, UnregisterWorker, RegisterWorker, Victims, HybridTypeOK
  <2>4. QED
    BY <1>1, <2>1, <2>2, <2>3 DEF HybridTypeOK
<1>8. CASE UNCHANGED hybridVars
  BY <1>8 DEF hybridVars, HybridTypeOK
<1>9. QED
  BY <1>2, <1>3, <1>4, <1>5, <1>6, <1>7, <1>8 DEF HybridNext

\* A task is placed in the cloud only within the day's budget.
LEMMA PlacedWithinBudget ==
  ASSUME HybridInv, NEW t \in CloudTasks, activeTasks[t] = "none",
         NEW w \in Workers \ LocalWorkers, Placed(t, w)
  PROVE  SpendInv'
<1>1. DateReset /\ SpentNow < DailyBudget /\ spentMonth < MonthlyBudget
  BY DEF Placed, WithinBudget
<1>2. /\ UNCHANGED <<date, trueToday, spentMonth, trueMonth>> /\ lastReset' = date
      /\ spentToday' = SpentNow
  BY <1>1 DEF DateReset
<1>3. ~wiped' => ~wiped /\ (date = lastReset \/ ~(trueToday > 0))
  BY <1>1, Zenon DEF DateReset
<1>4. /\ date \in Int /\ trueToday \in Nat /\ spentToday \in Nat /\ DailyBudget \in Nat
  BY HybridAssumption DEF HybridInv, HybridTypeOK
<1>5. ASSUME ~wiped'
      PROVE  trueToday <= SpentNow
  <2>1. CASE date = lastReset
    BY <1>3, <1>5, <2>1 DEF SpentNow, HybridInv, SpendInv
  <2>2. CASE date # lastReset
    BY <1>3, <1>4, <1>5, <2>2 DEF SpentNow
  <2>3. QED
    BY <2>1, <2>2
<1>6. SpentNow \in Nat
  BY <1>4 DEF SpentNow
<1>7. CloudRunning' \subseteq CloudTasks
  BY DEF CloudRunning
<1>8. /\ Charged(CloudRunning') \in Nat /\ Charged(CloudTasks) \in Nat
      /\ Charged(CloudRunning') <= Charged(CloudTasks)
  BY <1>7, ChargedGrows
<1>9. ~wiped' => trueToday + Charged(CloudRunning') < DailyBudget + Charged(CloudTasks)
  BY <1>1, <1>4, <1>5, <1>6, <1>8
<1>10. (Charged(CloudRunning))' = Charged(CloudRunning')
  BY DEF Charged
<1>11. /\ DailyBudget > 0 /\ lastReset' <= date' /\ (~wiped' => spentToday' >= trueToday')
       /\ spentToday' <= trueToday' /\ trueMonth' <= spentMonth'
  <2>1. SpentNow <= trueToday
    BY <1>4 DEF SpentNow, HybridInv, SpendInv
  <2>2. QED
    BY <1>1, <1>2, <1>4, <1>5, <1>6, <2>1 DEF HybridInv, SpendInv
<1>12. QED
  BY <1>1, <1>2, <1>9, <1>10, <1>11 DEF SpendInv, Charged

\* A cloud task that is done is charged what it was counted for.
LEMMA FinishedIsCharged ==
  ASSUME HybridInv, NEW t \in CloudTasks, FinishTask(t), activeTasks[t] \notin LocalWorkers
  PROVE  SpendInv'
<1>1. /\ activeTasks[t] # "none"
      /\ activeTasks' = [activeTasks EXCEPT ![t] = "none"]
      /\ spentToday' = spentToday + TaskCost /\ spentMonth' = spentMonth + TaskCost
      /\ trueToday' = trueToday + TaskCost /\ trueMonth' = trueMonth + TaskCost
      /\ UNCHANGED <<date, lastReset, wiped, unasked>>
  BY DEF FinishTask
<1>2. CloudRunning' = CloudRunning \ {t} /\ t \in CloudRunning
  BY <1>1 DEF CloudRunning, HybridInv, HybridTypeOK
<1>3. CloudRunning \subseteq CloudTasks
  BY DEF CloudRunning
<1>4. Charged(CloudRunning) = Charged(CloudRunning') + TaskCost
  BY <1>2, <1>3, ChargedOnce
<1>5. /\ Charged(CloudRunning') \in Nat /\ Charged(CloudTasks) \in Nat
  BY <1>2, <1>3, ChargedGrows
<1>6. /\ spentToday \in Nat /\ trueToday \in Nat /\ spentMonth \in Nat /\ trueMonth \in Nat
      /\ TaskCost \in Nat /\ DailyBudget \in Nat
  BY Prices DEF HybridInv, HybridTypeOK
<1>7. ~wiped /\ ~unasked => trueToday + Charged(CloudRunning) < DailyBudget + Charged(CloudTasks)
  BY <1>2 DEF HybridInv, SpendInv
<1>8. ~wiped /\ ~unasked => trueToday' + Charged(CloudRunning') < DailyBudget + Charged(CloudTasks)
  BY <1>1, <1>4, <1>5, <1>6, <1>7
<1>9. (Charged(CloudRunning))' = Charged(CloudRunning')
  BY DEF Charged
<1>10. /\ lastReset' <= date' /\ (~unasked => DailyBudget > 0) /\ trueMonth' <= spentMonth'
       /\ date' = lastReset' /\ ~wiped' => spentToday' >= trueToday'
       /\ date' = lastReset' => spentToday' <= trueToday'
  BY <1>1, <1>2, <1>6 DEF HybridInv, SpendInv
<1>11. QED
  BY <1>1, <1>8, <1>9, <1>10 DEF SpendInv, Charged

\* The budgets decide whether the task goes to the worker that suits it best.
Decided(t) ==
  ScheduleTask(t) /\ Best(Available(Workers)) \notin LocalWorkers =>
    IF activeTasks'[t] = Best(Available(Workers))
    THEN trueMonth < MonthlyBudget /\ (trueToday < DailyBudget \/ wiped')
    ELSE \/ trueMonth >= MonthlyBudget \/ trueToday >= DailyBudget
         \/ spentMonth > trueMonth

LEMMA DecidedByBudget ==
  ASSUME HybridInv, NEW t \in CloudTasks
  PROVE  Decided(t)
<1> DEFINE best == Best(Available(Workers))
           local == Available(LocalWorkers)
<1> SUFFICES ASSUME ScheduleTask(t), best \notin LocalWorkers
             PROVE  IF activeTasks'[t] = best
                    THEN trueMonth < MonthlyBudget /\ (trueToday < DailyBudget \/ wiped')
                    ELSE \/ trueMonth >= MonthlyBudget \/ trueToday >= DailyBudget
                         \/ spentMonth > trueMonth
  BY DEF Decided
<1>1. /\ activeTasks[t] = "none" /\ DateReset /\ Available(Workers) # {}
      /\ IF WithinBudget THEN Place(t, best)
         ELSE IF local # {} THEN Place(t, Best(local))
         ELSE UNCHANGED <<activeTasks, stranded>>
  BY DEF ScheduleTask
<1>2. best \in Workers /\ "none" \notin Workers /\ (local # {} => Best(local) \in LocalWorkers)
  <2>1. Available(Workers) \subseteq Workers /\ local \subseteq LocalWorkers
        /\ LocalWorkers \subseteq Workers /\ "none" \notin Workers
    BY HybridAssumption DEF Available
  <2>2. QED
    BY <1>1, <2>1, BestIsOne
<1>3. /\ date \in Int /\ {trueToday, spentToday, spentMonth, trueMonth} \subseteq Nat
      /\ DailyBudget \in Nat /\ MonthlyBudget \in Nat
      /\ activeTasks \in [CloudTasks -> Workers \cup {"none"}]
  BY HybridAssumption DEF HybridInv, HybridTypeOK
<1>4. SpentNow \in Nat /\ SpentNow <= trueToday /\ trueMonth <= spentMonth
  BY <1>3 DEF SpentNow, HybridInv, SpendInv
<1>5. ~wiped' => trueToday <= SpentNow
  <2>1. ~wiped' => ~wiped /\ (date = lastReset \/ ~(trueToday > 0))
    BY <1>1, Zenon DEF DateReset
  <2>2. CASE date = lastReset
    BY <2>1, <2>2 DEF SpentNow, HybridInv, SpendInv
  <2>3. CASE date # lastReset
    BY <1>3, <2>1, <2>3 DEF SpentNow
  <2>4. QED
    BY <2>2, <2>3
<1> HIDE DEF best, local
<1>6. CASE WithinBudget
  <2>1. activeTasks'[t] = best
    BY <1>1, <1>3, <1>6 DEF Place
  <2>2. SpentNow < DailyBudget /\ spentMonth < MonthlyBudget
    BY <1>6 DEF WithinBudget
  <2>3. trueMonth < MonthlyBudget /\ (trueToday < DailyBudget \/ wiped')
    BY <1>3, <1>4, <1>5, <2>2
  <2>4. QED
    BY <2>1, <2>3
<1>7. CASE ~WithinBudget
  <2>1. activeTasks'[t] # best
    <3>1. CASE local # {}
      BY <1>1, <1>2, <1>3, <1>7, <3>1 DEF Place
    <3>2. CASE local = {}
      BY <1>1, <1>2, <1>7, <3>2
    <3>3. QED
      BY <3>1, <3>2
  <2>2. SpentNow >= DailyBudget \/ spentMonth >= MonthlyBudget
    BY <1>3, <1>4, <1>7 DEF WithinBudget
  <2>3. trueMonth >= MonthlyBudget \/ trueToday >= DailyBudget \/ spentMonth > trueMonth
    BY <1>3, <1>4, <2>2
  <2>4. QED
    BY <2>1, <2>3
<1>8. QED
  BY <1>6, <1>7

LEMMA SpendInvNext ==
  ASSUME HybridInv, [HybridNext]_hybridVars
  PROVE  SpendInv'
<1>1. ASSUME CloudRunning' \subseteq CloudRunning, UNCHANGED unasked,
             UNCHANGED money \/ DateReset
      PROVE  SpendInv'
  <2>1. unasked' \/ (~unasked /\ CloudRunning' \subseteq CloudRunning)
    BY <1>1, Zenon
  <2>2. QED
    BY <1>1, <2>1, NothingSpent
<1>2. ASSUME NEW t \in CloudTasks, ScheduleTask(t)
      PROVE  SpendInv'
  <2>1. activeTasks[t] = "none" /\ UNCHANGED unasked
    BY <1>2, SchedulePlaces
  <2>2. ASSUME NEW w \in Workers, Placed(t, w)
        PROVE  SpendInv'
    <3>1. CASE w \in LocalWorkers
      <4>1. activeTasks' = [activeTasks EXCEPT ![t] = w]
        BY <2>2 DEF Placed, Place
      <4>2. CloudRunning' \subseteq CloudRunning
        BY <3>1, <4>1 DEF CloudRunning, HybridInv, HybridTypeOK
      <4>3. QED
        BY <1>1, <2>1, <2>2, <4>2 DEF Placed
    <3>2. CASE w \notin LocalWorkers
      BY <2>1, <2>2, <3>2, PlacedWithinBudget
    <3>3. QED
      BY <3>1, <3>2
  <2>3. CASE UNCHANGED <<activeTasks, stranded>> /\ DateReset
    <3>1. CloudRunning' \subseteq CloudRunning
      BY <2>3 DEF CloudRunning
    <3>2. QED
      BY <1>1, <2>1, <2>3, <3>1
  <2>4. QED
    BY <1>2, <2>2, <2>3, SchedulePlaces
<1>3. ASSUME NEW t \in CloudTasks, FinishTask(t)
      PROVE  SpendInv'
  <2>1. activeTasks' = [activeTasks EXCEPT ![t] = "none"] /\ UNCHANGED unasked
    BY <1>3 DEF FinishTask
  <2>2. CloudRunning' \subseteq CloudRunning
    BY <2>1 DEF CloudRunning, HybridInv, HybridTypeOK
  <2>3. CASE activeTasks[t] \in LocalWorkers
    BY <1>1, <1>3, <2>1, <2>2, <2>3 DEF FinishTask
  <2>4. CASE activeTasks[t] \notin LocalWorkers
    BY <1>3, <2>2, <2>4, FinishedIsCharged
  <2>5. QED
    BY <2>3, <2>4
<1>4. CASE NextDate
  <2>1. /\ date' = date + 1 /\ trueToday' = 0 /\ wiped' = FALSE
        /\ trueMonth' \in {trueMonth, 0}
        /\ UNCHANGED <<activeTasks, lastReset, spentToday, spentMonth, unasked>>
    BY <1>4 DEF NextDate
  <2>2. CloudRunning' = CloudRunning /\ CloudRunning \subseteq CloudTasks
    BY <2>1 DEF CloudRunning
  <2>3. /\ Charged(CloudRunning) \in Nat /\ Charged(CloudTasks) \in Nat
        /\ Charged(CloudRunning) <= Charged(CloudTasks)
    BY <2>2, ChargedGrows
  <2>4. date \in Int /\ lastReset \in Int /\ lastReset <= date
    BY HybridAssumption DEF HybridInv, HybridTypeOK, SpendInv
  <2>5. ~unasked /\ CloudRunning # {} => 0 + Charged(CloudRunning) < DailyBudget + Charged(CloudTasks)
    BY <2>3, Prices DEF HybridInv, SpendInv
  <2>6. lastReset' <= date' /\ date' # lastReset' /\ trueMonth' <= spentMonth'
    BY <2>1, <2>4 DEF HybridInv, HybridTypeOK, SpendInv
  <2>7. (Charged(CloudRunning))' = Charged(CloudRunning)
    BY <2>2 DEF Charged
  <2>8. QED
    BY <2>1, <2>2, <2>5, <2>6, <2>7 DEF HybridInv, SpendInv, Charged
<1>5. CASE LookAtSpend
  BY <1>1, <1>5 DEF LookAtSpend, CloudRunning
<1>6. ASSUME NEW w \in Workers, Preempt(w)
      PROVE  SpendInv'
  <2>1. UNCHANGED money
    BY <1>6 DEF Preempt
  <2>2. CASE UNCHANGED <<activeTasks, unasked>>
    BY <1>1, <2>1, <2>2 DEF CloudRunning
  <2>3. CASE \E t \in CloudTasks, rid \in Workers \cup {"none"} :
               Moves(t, rid, stranded \cup Victims(w))
    <3>1. unasked' \/ (~unasked /\ CloudRunning' \subseteq CloudRunning)
      BY <2>3, MovesInTheCloud DEF HybridInv
    <3>2. QED
      BY <2>1, <3>1, NothingSpent
  <2>4. QED
    BY <1>6, <2>2, <2>3, PreemptMoves, Zenon
<1>7. ASSUME NEW w \in Workers, RecoverWorker(w) \/ UnregisterWorker(w) \/ RegisterWorker(w)
      PROVE  SpendInv'
  <2>1. UNCHANGED <<activeTasks, money, unasked>>
    BY <1>7 DEF RecoverWorker, UnregisterWorker, RegisterWorker
  <2>2. QED
    BY <1>1, <2>1 DEF CloudRunning
<1>8. CASE UNCHANGED hybridVars
  <2>1. UNCHANGED <<activeTasks, money, unasked>>
    BY <1>8 DEF hybridVars, money
  <2>2. QED
    BY <1>1, <2>1 DEF CloudRunning
<1>9. QED
  BY <1>2, <1>3, <1>4, <1>5, <1>6, <1>7, <1>8 DEF HybridNext

LEMMA StrandedNext ==
  ASSUME HybridInv, [HybridNext]_hybridVars
  PROVE  OnlyStrandedTasksWait'
<1>0. "none" \notin Workers /\ activeTasks \in [CloudTasks -> Workers \cup {"none"}]
      /\ resources \in [Workers -> {"absent"} \cup ResourceStates]
  BY HybridAssumption DEF HybridInv, HybridTypeOK
<1>1. ASSUME NEW t \in CloudTasks, ScheduleTask(t)
      PROVE  OnlyStrandedTasksWait'
  <2>1. UNCHANGED resources
    BY <1>1, SchedulePlaces
  <2>2. ASSUME NEW w \in Workers, Placed(t, w)
        PROVE  OnlyStrandedTasksWait'
    BY <1>0, <2>1, <2>2 DEF Placed, Place, HybridInv, OnlyStrandedTasksWait
  <2>3. CASE UNCHANGED <<activeTasks, stranded>>
    BY <2>1, <2>3 DEF HybridInv, OnlyStrandedTasksWait
  <2>4. QED
    BY <1>1, <2>2, <2>3, SchedulePlaces
<1>2. ASSUME NEW t \in CloudTasks, FinishTask(t)
      PROVE  OnlyStrandedTasksWait'
  BY <1>0, <1>2 DEF FinishTask, HybridInv, OnlyStrandedTasksWait
<1>3. ASSUME NEW w \in Workers, Preempt(w)
      PROVE  OnlyStrandedTasksWait'
  <2> DEFINE waiting == stranded \cup Victims(w)
  <2>1. resources' = [resources EXCEPT ![w] = IF @ = "absent" THEN @ ELSE "preempted"]
    BY <1>3 DEF Preempt
  \* Who stays where he was waits as the property says, on the worker or not.
  <2>2. ASSUME NEW u \in CloudTasks, activeTasks[u] # "none"
        PROVE  resources'[activeTasks[u]] = "available" <=> u \notin waiting
    <3>1. resources[activeTasks[u]] = "available" <=> u \notin stranded
      BY <2>2 DEF HybridInv, OnlyStrandedTasksWait
    <3>2. activeTasks[u] \in Workers
      BY <1>0, <2>2
    <3>3. CASE activeTasks[u] = w
      <4>1. u \in waiting
        BY <3>3 DEF Victims
      <4>2. resources'[w] # "available"
        BY <1>0, <2>1
      <4>3. QED
        BY <3>3, <4>1, <4>2
    <3>4. CASE activeTasks[u] # w
      <4>1. u \in waiting <=> u \in stranded
        BY <3>4 DEF Victims
      <4>2. resources'[activeTasks[u]] = resources[activeTasks[u]]
        BY <1>0, <2>1, <3>2, <3>4
      <4>3. QED
        BY <3>1, <4>1, <4>2
    <3>5. QED
      BY <3>3, <3>4
  <2>3. CASE stranded' = waiting /\ UNCHANGED <<activeTasks, unasked>>
    <3> HIDE DEF waiting
    <3>1. QED
      BY <2>2, <2>3 DEF OnlyStrandedTasksWait
  <2>4. ASSUME NEW t \in CloudTasks, NEW rid \in Workers \cup {"none"},
               rid # "none" => rid # w /\ resources[rid] = "available",
               Moves(t, rid, waiting)
        PROVE  OnlyStrandedTasksWait'
    <3>1. activeTasks' = [activeTasks EXCEPT ![t] = rid] /\ stranded' = waiting \ {t}
      BY <2>4 DEF Moves
    <3> HIDE DEF waiting
    <3> SUFFICES ASSUME NEW u \in CloudTasks, activeTasks'[u] # "none"
                 PROVE  resources'[activeTasks'[u]] = "available" <=> u \notin stranded'
      BY DEF OnlyStrandedTasksWait
    <3>2. CASE u = t
      <4>1. activeTasks'[u] = rid /\ rid # "none" /\ rid \in Workers
        BY <1>0, <3>1, <3>2
      <4>2. resources'[rid] = "available"
        BY <1>0, <2>1, <2>4, <4>1
      <4>3. QED
        BY <3>1, <3>2, <4>1, <4>2
    <3>3. CASE u # t
      <4>1. activeTasks'[u] = activeTasks[u] /\ (u \in stranded' <=> u \in waiting)
        BY <1>0, <3>1, <3>3
      <4>2. QED
        BY <2>2, <4>1
    <3>4. QED
      BY <3>2, <3>3
  <2>5. QED
    BY <1>3, <2>3, <2>4, PreemptMoves
<1>4. ASSUME NEW w \in Workers, RecoverWorker(w)
      PROVE  OnlyStrandedTasksWait'
  BY <1>0, <1>4 DEF RecoverWorker, HybridInv, OnlyStrandedTasksWait
<1>5. ASSUME NEW w \in Workers, UnregisterWorker(w)
      PROVE  OnlyStrandedTasksWait'
  BY <1>0, <1>5 DEF UnregisterWorker, Victims, HybridInv, OnlyStrandedTasksWait
<1>6. ASSUME NEW w \in Workers, RegisterWorker(w)
      PROVE  OnlyStrandedTasksWait'
  BY <1>0, <1>6 DEF RegisterWorker, HybridInv, OnlyStrandedTasksWait
<1>7. CASE NextDate \/ LookAtSpend \/ UNCHANGED hybridVars
  <2>1. UNCHANGED <<activeTasks, resources, stranded>>
    BY <1>7 DEF NextDate, LookAtSpend, hybridVars
  <2>2. QED
    BY <2>1 DEF HybridInv, OnlyStrandedTasksWait
<1>8. QED
  BY <1>1, <1>2, <1>3, <1>4, <1>5, <1>6, <1>7 DEF HybridNext

LEMMA HybridInvInit == HybridInit => HybridInv
<1> SUFFICES ASSUME HybridInit PROVE HybridInv
  OBVIOUS
<1>1. HybridTypeOK
  <2>1. 1 \in 1 .. MaxDate
    BY HybridAssumption
  <2>2. resources \in [Workers -> {"absent"} \cup ResourceStates]
        /\ activeTasks \in [CloudTasks -> Workers \cup {"none"}]
    BY DEF HybridInit, ResourceStates
  <2>3. {spentToday, spentMonth, trueToday, trueMonth} \subseteq Nat
    BY DEF HybridInit
  <2>4. wiped \in BOOLEAN /\ unasked \in BOOLEAN
    BY DEF HybridInit
  <2>5. QED
    BY <2>1, <2>2, <2>3, <2>4 DEF HybridInit, HybridTypeOK
<1>2. CloudRunning = {}
  BY DEF HybridInit, CloudRunning
<1>3. QED
  BY <1>1, <1>2 DEF HybridInit, HybridInv, SpendInv, OnlyStrandedTasksWait

LEMMA HybridInvNext ==
  ASSUME HybridInv, [HybridNext]_hybridVars
  PROVE  HybridInv'
BY HybridTypeNext, SpendInvNext, StrandedNext DEF HybridInv

LEMMA SpendIsBounded == HybridInv => DailyOverrunBounded /\ OnlyStrandedTasksWait
<1> SUFFICES ASSUME HybridInv PROVE DailyOverrunBounded /\ OnlyStrandedTasksWait
  OBVIOUS
<1>1. Charged(CloudRunning) \in Nat /\ Charged(CloudTasks) \in Nat
  BY ChargedGrows DEF CloudRunning
<1>2. trueToday \in Nat /\ DailyBudget \in Nat
  BY Prices DEF HybridInv, HybridTypeOK
<1>3. ~wiped /\ ~unasked /\ trueToday > 0 => trueToday < DailyBudget + Charged(CloudTasks)
  BY <1>1, <1>2 DEF HybridInv, SpendInv
<1>4. date = lastReset /\ ~wiped => spentToday = trueToday
  <2>1. spentToday \in Nat
    BY DEF HybridInv, HybridTypeOK
  <2>2. date = lastReset /\ ~wiped => spentToday >= trueToday /\ spentToday <= trueToday
    BY DEF HybridInv, SpendInv
  <2>3. QED
    BY <1>2, <2>1, <2>2
<1>5. QED
  BY <1>3, <1>4 DEF HybridInv, DailyOverrunBounded, Charged

LEMMA CloudIsBounded ==
  ServicesSpec => [](DailyOverrunBounded /\ OnlyStrandedTasksWait) /\ BudgetDecides
<1>1. ServicesInit => HybridInv
  BY HybridInvInit DEF ServicesInit
<1>2. HybridInv /\ [ServicesNext]_servicesVars => HybridInv'
  BY OnePartMoves, HybridInvNext
<1>3. HybridInv /\ [ServicesNext]_servicesVars => [\A t \in CloudTasks : Decided(t)]_hybridVars
  BY DecidedByBudget
<1>4. BudgetDecides <=> [][\A t \in CloudTasks : Decided(t)]_hybridVars
  BY PTL DEF BudgetDecides, Decided
<1>5. QED
  BY <1>1, <1>2, <1>3, <1>4, SpendIsBounded, PTL DEF ServicesSpec

\* Limits are exceeded by no more than what was in flight, every token is on record or
\* accounted for, an exceeded threshold has been alerted about, a task waits only where a
\* preemption stranded it, and the budgets decide who goes to the cloud
\* (token_budget.py:121, routes.py:578, hybrid.py:147).
THEOREM SpendingStaysBounded == ServicesSpec => SpendingIsBounded
BY TokensAreBounded, ExceededAreAlerted, CloudIsBounded, PTL DEF SpendingIsBounded
=============================================================================
