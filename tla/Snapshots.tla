------------------------------ MODULE Snapshots ------------------------------
(***************************************************************************)
(* The snapshots of GitExecutor (src/runtime/git_executor.py): the working *)
(* tree is stashed before an agent works and brought back afterwards.  A   *)
(* content of the working tree is the number of the edit that made it.     *)
(***************************************************************************)
EXTENDS Naturals, Sequences, SequencesExt

CONSTANTS
  MaxSnapshots,   \* maxlen of the deque _snapshots
  MaxEdits,       \* bound on the edits
  MaxSaves        \* bound on the calls of save_snapshot()

ASSUME SnapshotsAssumption ==
  MaxSnapshots \in Nat \ {0} /\ MaxEdits \in Nat /\ MaxSaves \in Nat

VARIABLES
  work,       \* the content of the working tree; 0 is clean
  stash,      \* the stash, newest first
  snapshots,  \* _snapshots: whether there is a stash_ref, and what was there to save
  edits,      \* the edits so far
  saves,      \* the calls of save_snapshot() so far
  restored    \* history: what the last rollback was to bring back, and what it did

snapshotVars == <<work, stash, snapshots, edits, saves, restored>>

NoRollback ==
  [ref |-> FALSE, overtaken |-> FALSE, failed |-> FALSE, wanted |-> 0, before |-> 0, got |-> 0]

Rollbacks ==
  [ref : BOOLEAN, overtaken : BOOLEAN, failed : BOOLEAN, wanted : 0 .. MaxEdits,
   before : 0 .. MaxEdits, got : 0 .. MaxEdits]

SnapshotsTypeOK ==
  /\ work \in 0 .. MaxEdits /\ edits \in 0 .. MaxEdits /\ saves \in 0 .. MaxSaves
  /\ stash \in Seq(1 .. MaxEdits)
  /\ snapshots \in Seq([ref : BOOLEAN, content : 0 .. MaxEdits])
  /\ Len(snapshots) <= MaxSnapshots
  /\ restored \in Rollbacks

SnapshotsInit ==
  /\ work = 0 /\ stash = <<>> /\ snapshots = <<>>
  /\ edits = 0 /\ saves = 0 /\ restored = NoRollback

AgentEdits ==
  /\ edits < MaxEdits
  /\ edits' = edits + 1 /\ work' = edits + 1
  /\ restored' = NoRollback
  /\ UNCHANGED <<stash, snapshots, saves>>

\* Mutant of Remember: a list where the deque is.
Remember_all(snap) == snapshots' = Append(snapshots, snap)

\* The deque drops its oldest when it is full; the stash keeps everything.
Remember(snap) ==
  snapshots' = IF Len(snapshots) < MaxSnapshots THEN Append(snapshots, snap)
               ELSE Append(Tail(snapshots), snap)

\* stash push takes the changes out of the working tree, and the reference that is
\* noted is stash@{0}.  Without changes nothing is pushed and none is found by --grep.
SaveSnapshot ==
  /\ saves < MaxSaves /\ saves' = saves + 1
  /\ stash' = IF work = 0 THEN stash ELSE <<work>> \o stash
  /\ Remember([ref |-> work # 0, content |-> work])
  /\ work' = 0
  /\ restored' = NoRollback
  /\ UNCHANGED edits

\* Something was saved after the snapshot: stash@{0} is no longer its own.
Overtaken(i) == \E j \in DOMAIN snapshots : j > i /\ snapshots[j].ref

RollsBack(i, failed) ==
  /\ restored' = [ref |-> snapshots[i].ref, overtaken |-> Overtaken(i), failed |-> failed,
                  wanted |-> snapshots[i].content, before |-> work, got |-> work']
  /\ UNCHANGED <<stash, snapshots, edits, saves>>

\* An empty snapshot is returned without touching the working tree; otherwise it is
\* emptied, and what stash@{0} names now is applied.
Rollback(i) ==
  /\ work' = IF snapshots[i].ref THEN Head(stash) ELSE work
  /\ RollsBack(i, FALSE)

\* stash apply fails, and its error is raised: the working tree is empty by then, unless
\* checkout or clean failed before it, which is passed over, or it holds what a conflict
\* let in.
RollbackFails(i) ==
  /\ snapshots[i].ref
  /\ work' \in {0, work, Head(stash)}
  /\ RollsBack(i, TRUE)

ClearSnapshots ==
  /\ snapshots # <<>> /\ snapshots' = <<>>
  /\ restored' = NoRollback
  /\ UNCHANGED <<work, stash, edits, saves>>

SnapshotsNext ==
  \/ AgentEdits \/ SaveSnapshot \/ ClearSnapshots
  \/ \E i \in DOMAIN snapshots : Rollback(i) \/ RollbackFails(i)

SnapshotsSpec == SnapshotsInit /\ [][SnapshotsNext]_snapshotVars
-----------------------------------------------------------------------------
\* A rollback brings back what its snapshot saved (git_executor.py:3, 238).  The code
\* departs from this in one case, which is named here: after a later snapshot has saved
\* something, stash@{0} is that one's, and its content comes instead, never an earlier
\* one.  An empty snapshot leaves the edits made after it in place
\* (git_executor.py:262), and a rollback that fails brings nothing of an earlier one.
RollbackBringsItsOwn ==
  \/ ~restored.ref /\ restored.got = restored.before
  \/ restored.ref /\ restored.failed /\ restored.got \in {0, restored.before, Head(stash)}
  \/ restored.ref /\ ~restored.failed /\ ~restored.overtaken
       /\ restored.got = restored.wanted
  \/ restored.ref /\ ~restored.failed /\ restored.overtaken
       /\ restored.got = Head(stash) /\ restored.got >= restored.wanted

\* What was saved is never lost: the stash holds it whatever the list forgets.
SavedStays ==
  \A i \in DOMAIN snapshots : snapshots[i].ref => snapshots[i].content \in Range(stash)
=============================================================================
