----------------------------- MODULE MCServices -----------------------------
(* Instances of Services for TLC.                                          *)
EXTENDS Services

\* Two pipelines share a path and a third works on the first one's branch.
MCTaskBranch == [p1 |-> "b1", p2 |-> "b2", p3 |-> "b1"]
MCChangedFiles == [p1 |-> {"x", "y"}, p2 |-> {"y"}, p3 |-> {"z"}]

\* The fallbacks that end differently.
MCFallbacks ==
  {[mode |-> m, target |-> t, continues |-> c] :
     m \in {"CACHED", "ALTERNATIVE_MODEL"}, t \in BOOLEAN, c \in BOOLEAN}
  \cup {[mode |-> m, target |-> TRUE, continues |-> c] :
     m \in {"NONE", "ALTERNATIVE_AGENT", "DEGRADED"}, c \in BOOLEAN}

\* A plain backend, one that samples, and one with a composite around it, an invalid URL,
\* or both: what is not sampled meets neither.
MCWrappings ==
  {w \in [samples : BOOLEAN, composite : BOOLEAN, broken : BOOLEAN] :
     w.samples => ~w.broken /\ ~w.composite}

Clean == [build |-> TRUE, lint |-> TRUE, unit |-> TRUE, security |-> "clean",
          coverage |-> "enough", sop |-> "met"]
MCDemoReports == {Clean, [Clean EXCEPT !.build = FALSE], [Clean EXCEPT !.lint = FALSE]}

\* Two models that agree, disagree in the decision or the score, or fail.
Voted(d, s) == [failed |-> FALSE, decision |-> d, score |-> s, keywords |-> FALSE]
Failed == [failed |-> TRUE, decision |-> "L2_HUMAN", score |-> 0, keywords |-> FALSE]
MCDemoBallots ==
  {<<Voted("AUTO_PASS", 95), v>> :
     v \in {Voted("AUTO_PASS", 90), Voted("AUTO_PASS", 60), Voted("L3_HALT", 60), Failed}}
  \cup {<<Failed, Failed>>}

\* An event of a role and of no project.
MCScopesOf == [e |-> {"role"}]

MCPreferred == [c |-> 1, l |-> 2, d |-> 3]
=============================================================================
