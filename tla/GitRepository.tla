---------------------------- MODULE GitRepository ----------------------------
(***************************************************************************)
(* GitExecutor.auto_commit (src/runtime/git_executor.py): the pipelines of *)
(* one process commit in one working tree.  Each git command is awaited,   *)
(* so a step is one command.  The branch that is checked out and the index *)
(* belong to the repository, not to the pipeline.                          *)
(***************************************************************************)
EXTENDS Naturals, Sequences, FiniteSets, SequencesExt

CONSTANTS
  Pipelines,       \* the calls of auto_commit
  Paths,
  ProtectedPaths,
  TaskBranch,      \* the branch of each pipeline: agent/{role}/{task_id}
  ChangedFiles     \* what each pipeline's handoff says was changed

MainBranch == "main"
Branches == {MainBranch} \cup {TaskBranch[p] : p \in Pipelines}

ASSUME GitAssumption ==
  /\ ProtectedPaths \subseteq Paths
  /\ ChangedFiles \in [Pipelines -> SUBSET Paths]
  /\ DOMAIN TaskBranch = Pipelines
  /\ \A p \in Pipelines : TaskBranch[p] # MainBranch

VARIABLES
  gitPhase,    \* the command each pipeline awaits
  toStage,     \* the files it has still to add or remove
  checkedOut,  \* HEAD
  index,       \* what is staged: which pipeline staged which path
  tip,         \* the last commit of each branch: a position in commits; 0 is the root
  commits,     \* the commits in the order they were made
  returned,    \* what rev-parse told each pipeline
  together,    \* history: the pipelines that overlapped another one
  leftBehind   \* history: what pipelines had staged when they failed

gitVars == <<gitPhase, toStage, checkedOut, index, tip, commits, returned, together,
             leftBehind>>

Quiescent == {"idle", "refused", "nothing", "raised", "done"}
Staged == Pipelines \X Paths

GitTypeOK ==
  /\ gitPhase \in [Pipelines -> Quiescent \cup {"branches", "switches", "stages",
                                                "reads", "pushes"}]
  /\ toStage \in [Pipelines -> SUBSET Paths]
  /\ checkedOut \in DOMAIN tip
  /\ index \subseteq Staged
  /\ MainBranch \in DOMAIN tip /\ DOMAIN tip \subseteq Branches
  /\ \A b \in DOMAIN tip : tip[b] \in 0 .. Len(commits)
  /\ commits \in Seq([by : Pipelines, branch : Branches, files : SUBSET Staged,
                      tree : SUBSET Paths])
  /\ returned \in [Pipelines -> 0 .. Len(commits)]
  /\ together \subseteq Pipelines /\ leftBehind \subseteq Staged

GitInit ==
  /\ gitPhase = [p \in Pipelines |-> "idle"]
  /\ toStage = ChangedFiles
  /\ checkedOut = MainBranch
  /\ index = {}
  /\ tip = [b \in {MainBranch} |-> 0]
  /\ commits = <<>>
  /\ returned = [p \in Pipelines |-> 0]
  /\ together = {} /\ leftBehind = {}

\* The changes a branch holds, its ancestors' included.
Tree(b) == IF tip[b] = 0 THEN {} ELSE commits[tip[b]].tree
Others(p) == {q \in Pipelines \ {p} : gitPhase[q] \notin Quiescent}
GitGoes(p, to) == gitPhase' = [gitPhase EXCEPT ![p] = to]

\* validate_protected_paths(), then whether there is anything to commit.
StartCommit(p) ==
  /\ gitPhase[p] = "idle"
  /\ GitGoes(p, CASE ChangedFiles[p] \cap ProtectedPaths # {} -> "refused"
                  [] ChangedFiles[p] = {} -> "nothing"
                  [] OTHER -> "branches")
  /\ together' = IF Others(p) = {} \/ ChangedFiles[p] \cap ProtectedPaths # {}
                 THEN together ELSE together \cup {p} \cup Others(p)
  /\ UNCHANGED <<toStage, checkedOut, index, tip, commits, returned, leftBehind>>

\* checkout -b starts the branch at whatever is checked out, and takes the index along.
CheckoutNew(p) ==
  /\ gitPhase[p] = "branches" /\ TaskBranch[p] \notin DOMAIN tip
  /\ tip' = [b \in DOMAIN tip \cup {TaskBranch[p]} |->
               IF b = TaskBranch[p] THEN tip[checkedOut] ELSE tip[b]]
  /\ checkedOut' = TaskBranch[p]
  /\ GitGoes(p, "stages")
  /\ UNCHANGED <<toStage, index, commits, returned, together, leftBehind>>

CheckoutExisting(p) ==
  /\ gitPhase[p] = "switches" /\ TaskBranch[p] \in DOMAIN tip
  /\ checkedOut' = TaskBranch[p]
  /\ GitGoes(p, "stages")
  /\ UNCHANGED <<toStage, index, tip, commits, returned, together, leftBehind>>

\* add or rm: a path whose change is committed already leaves the index as it is.
Stage(p, f) ==
  /\ gitPhase[p] = "stages" /\ f \in toStage[p]
  /\ toStage' = [toStage EXCEPT ![p] = @ \ {f}]
  /\ index' = IF f \in Tree(checkedOut) THEN index ELSE index \cup {<<p, f>>}
  /\ UNCHANGED <<gitPhase, checkedOut, tip, commits, returned, together, leftBehind>>

\* commit takes the whole index, whoever staged it, to the branch that is checked out.
Commit(p) ==
  /\ gitPhase[p] = "stages" /\ toStage[p] = {} /\ index # {}
  /\ commits' = Append(commits,
       [by |-> p, branch |-> checkedOut, files |-> index,
        tree |-> Tree(checkedOut) \cup {s[2] : s \in index}])
  /\ tip' = [tip EXCEPT ![checkedOut] = Len(commits) + 1]
  /\ index' = {}
  /\ GitGoes(p, "reads")
  /\ UNCHANGED <<toStage, checkedOut, returned, together, leftBehind>>

\* rev-parse HEAD, of the branch that is checked out by now.
ReadHead(p) ==
  /\ gitPhase[p] = "reads"
  /\ returned' = [returned EXCEPT ![p] = tip[checkedOut]]
  /\ GitGoes(p, "pushes")
  /\ UNCHANGED <<toStage, checkedOut, index, tip, commits, together, leftBehind>>

\* A push that fails is logged; the pipeline has its SHA either way.
Push(p) ==
  /\ gitPhase[p] = "pushes" /\ GitGoes(p, "done")
  /\ UNCHANGED <<toStage, checkedOut, index, tip, commits, returned, together, leftBehind>>

\* Any command may fail: the index is locked, the branch exists, a staged change is in
\* the way of a checkout, there is nothing to commit.  Nothing is undone.
GitFails(p) ==
  /\ gitPhase[p] \in {"branches", "switches", "stages", "reads"}
  /\ GitGoes(p, IF gitPhase[p] = "branches" THEN "switches" ELSE "raised")
  /\ leftBehind' = IF gitPhase[p] = "branches" THEN leftBehind
                   ELSE leftBehind \cup {s \in index : s[1] = p}
  /\ UNCHANGED <<toStage, checkedOut, index, tip, commits, returned, together>>

GitNext ==
  \E p \in Pipelines :
    \/ StartCommit(p) \/ CheckoutNew(p) \/ CheckoutExisting(p)
    \/ \E f \in Paths : Stage(p, f)
    \/ Commit(p) \/ ReadHead(p) \/ Push(p) \/ GitFails(p)

GitSpec == GitInit /\ [][GitNext]_gitVars
-----------------------------------------------------------------------------
\* Nobody's protected path is staged or committed, whoever commits the index
\* (git_executor.py:125).
ProtectedStayOut ==
  \A s \in index \cup UNION {c.files : c \in Range(commits)} : s[2] \notin ProtectedPaths

\* Who is told a SHA has its changes in some commit, even if another pipeline's commit
\* took them (git_executor.py:147).
ToldAndKept ==
  \A p \in Pipelines :
    gitPhase[p] \in {"pushes", "done"} =>
      ChangedFiles[p] \subseteq UNION {c.tree : c \in Range(commits)}

\* A pipeline that met no other is told of its own commit, on its own branch, with its
\* changes; of others' files there is only what a failed pipeline had left staged.
AloneOnItsBranch ==
  \A p \in Pipelines \ together :
    gitPhase[p] \in {"pushes", "done"} =>
      LET c == commits[returned[p]]
      IN  /\ returned[p] # 0
          /\ c.by = p /\ c.branch = TaskBranch[p]
          /\ ChangedFiles[p] \subseteq c.tree
          /\ \A s \in c.files : s[1] = p \/ s \in leftBehind
=============================================================================
