--------------------------- MODULE MCOrchestrator ---------------------------
(* Instances of Orchestrator for TLC.                                      *)
EXTENDS Orchestrator

\* DEFAULT_TASK_CHAINS, cut at two roles, and a role without a chain.
MCRoutes == {<<"backend", "tester">>, <<"reviewer">>}

MCChangeSets == {{}, {"plain"}, {"config"}, {"plain", "schema"}, {"risky"},
                 {"protected"}, {"sensitive"}}

Clean == [build |-> TRUE, lint |-> TRUE, unit |-> TRUE, security |-> "clean",
          coverage |-> "enough", sop |-> "met"]

\* The clean report, and those with one or two defects.
MCReports ==
  {Clean,
   [Clean EXCEPT !.build = FALSE],
   [Clean EXCEPT !.lint = FALSE, !.sop = "unchecked"],
   [Clean EXCEPT !.unit = FALSE],
   [Clean EXCEPT !.security = "medium"],
   [Clean EXCEPT !.security = "high", !.lint = FALSE],
   [Clean EXCEPT !.coverage = "slightly_below"],
   [Clean EXCEPT !.coverage = "below"],
   [Clean EXCEPT !.sop = "missed"]}

Answer(s, f, sum) == [score |-> s, flags |-> f, summary |-> sum]
MCReviews == {Answer(0, FALSE, FALSE), Answer(80, FALSE, FALSE),
              Answer(80, TRUE, FALSE), Answer(80, FALSE, TRUE)}

Voted(d, s, k) == [failed |-> FALSE, decision |-> d, score |-> s, keywords |-> k]
Failed == [failed |-> TRUE, decision |-> "L2_HUMAN", score |-> 0, keywords |-> FALSE]

Pass == Voted("AUTO_PASS", 95, FALSE)
LowPass == Voted("AUTO_PASS", 60, FALSE)
Redo == Voted("L1_REWORK", 95, TRUE)
Halt == Voted("L3_HALT", 60, FALSE)

\* Two models that agree, differ in the score, in the decision, in both, or fail.  Of a
\* tie the majority takes the first.
MCBallots ==
  {<<Pass, Pass>>, <<Pass, LowPass>>, <<Pass, Redo>>, <<Redo, Pass>>, <<Halt, Pass>>,
   <<Redo, Halt>>, <<Pass, Failed>>, <<Failed, Halt>>, <<Failed, Failed>>}
=============================================================================
