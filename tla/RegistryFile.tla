---------------------------- MODULE RegistryFile ----------------------------
(***************************************************************************)
(* RegistryStore (src/registry/store.py): the JSON file of one project.    *)
(* An update loads the file, changes its copy and writes the whole back;   *)
(* write_text() empties the file before it fills it.  Processes that share *)
(* the directory are not kept apart: nothing locks.                        *)
(***************************************************************************)
EXTENDS Naturals, FiniteSets

CONSTANTS
  Processes,
  MaxUpdates   \* bound on the updates and saves begun

ASSUME RegistryFileAssumption == MaxUpdates \in Nat /\ "none" \notin Processes

VARIABLES
  registryFile, \* whether it is there and whole, and its metrics and work queue
  writer,       \* what each process is at, and its copy
  updates,      \* the updates and saves begun
  added,        \* history: what update_metrics() calls that returned have added
  lastQueue,    \* history: whose work queue was written last
  overlapped,   \* history: two processes have overlapped since the file was new
  torn          \* history: a process has died while it wrote

registryVars == <<registryFile, writer, updates, added, lastQueue, overlapped, torn>>

Registry == [metrics : 0 .. MaxUpdates, queue : Processes \cup {"none"}]
NewRegistry == [metrics |-> 0, queue |-> "none"]
Updates == {"metrics", "queue", "save"}
Saving == [phase |-> "loaded", op |-> "save", copy |-> NewRegistry]
Idle == [Saving EXCEPT !.phase = "idle"]

RegistryFileTypeOK ==
  /\ registryFile \in [state : {"absent", "partial", "whole"}, content : Registry]
  /\ writer \in [Processes -> [phase : {"idle", "loaded", "writes", "unlinked"},
                               op : Updates, copy : Registry]]
  /\ updates \in 0 .. MaxUpdates /\ added \in 0 .. MaxUpdates
  /\ lastQueue \in Processes \cup {"none"}
  /\ overlapped \in BOOLEAN /\ torn \in BOOLEAN

RegistryFileInit ==
  /\ registryFile = [state |-> "absent", content |-> NewRegistry]
  /\ writer = [p \in Processes |-> Idle]
  /\ updates = 0 /\ added = 0 /\ lastQueue = "none"
  /\ overlapped = FALSE /\ torn = FALSE

Busy(p) == {q \in Processes \ {p} : writer[q].phase # "idle"}
WriterGoes(p, to) == writer' = [writer EXCEPT ![p].phase = to]

\* load() and the change of the copy; a file that is absent or no JSON raises.
LoadAndChange(p, op) ==
  LET copy == registryFile.content IN
  /\ writer[p].phase = "idle" /\ op \in {"metrics", "queue"}
  /\ updates < MaxUpdates /\ updates' = updates + 1
  /\ registryFile.state = "whole"
  /\ writer' = [writer EXCEPT ![p] =
       [phase |-> "loaded", op |-> op,
        copy |-> IF op = "metrics" THEN [copy EXCEPT !.metrics = @ + 1]
                 ELSE [copy EXCEPT !.queue = p]]]
  /\ overlapped' = (overlapped \/ Busy(p) # {})
  /\ UNCHANGED <<registryFile, added, lastQueue, torn>>

\* save() of a new registry.
SaveNew(p) ==
  /\ writer[p].phase = "idle"
  /\ updates < MaxUpdates /\ updates' = updates + 1
  /\ writer' = [writer EXCEPT ![p] = Saving]
  /\ overlapped' = (overlapped \/ Busy(p) # {})
  /\ UNCHANGED <<registryFile, added, lastQueue, torn>>

OpenToWrite(p) ==
  /\ writer[p].phase = "loaded" /\ WriterGoes(p, "writes")
  /\ registryFile' = [registryFile EXCEPT !.state = "partial"]
  /\ UNCHANGED <<updates, added, lastQueue, overlapped, torn>>

\* The copy is written, perhaps to a file that was unlinked since.  If another process
\* has written since the file was emptied, and more, the end of its text remains.
Write(p) ==
  /\ writer[p].phase \in {"writes", "unlinked"} /\ WriterGoes(p, "idle")
  /\ IF writer[p].phase = "unlinked" THEN UNCHANGED registryFile
     ELSE \E state \in {"whole"} \cup (IF registryFile.state = "whole" THEN {"partial"} ELSE {}) :
            registryFile' = [state |-> state, content |-> writer[p].copy]
  /\ added' = CASE writer[p].op = "metrics" -> added + 1
                [] writer[p].op = "save" -> 0
                [] OTHER -> added
  /\ lastQueue' = CASE writer[p].op = "queue" -> p
                    [] writer[p].op = "save" -> "none"
                    [] OTHER -> lastQueue
  /\ overlapped' = (overlapped /\ ~(writer[p] = [Saving EXCEPT !.phase = "writes"]
                                    /\ Busy(p) = {} /\ registryFile'.state = "whole"))
  /\ torn' = (torn /\ writer[p].phase = "unlinked")
  /\ UNCHANGED updates

DeleteRegistry(p) ==
  /\ writer[p].phase = "idle" /\ registryFile.state # "absent"
  /\ registryFile' = [registryFile EXCEPT !.state = "absent"]
  /\ overlapped' = (overlapped \/ Busy(p) # {})
  /\ writer' = [q \in Processes |-> IF writer[q].phase = "writes"
                                     THEN [writer[q] EXCEPT !.phase = "unlinked"]
                                     ELSE writer[q]]
  /\ torn' = FALSE
  /\ UNCHANGED <<updates, added, lastQueue>>

\* The process dies; what it had loaded is gone, what it had emptied stays so.
Dies(p) ==
  /\ writer[p].phase # "idle"
  /\ writer' = [writer EXCEPT ![p] = Idle]
  /\ torn' = (torn \/ (writer[p].phase = "writes" /\ registryFile.state = "partial"))
  /\ UNCHANGED <<registryFile, updates, added, lastQueue, overlapped>>

RegistryFileNext ==
  \E p \in Processes :
    \/ \E op \in Updates : LoadAndChange(p, op)
    \/ SaveNew(p) \/ OpenToWrite(p) \/ Write(p) \/ DeleteRegistry(p) \/ Dies(p)

RegistryFileSpec == RegistryFileInit /\ [][RegistryFileNext]_registryVars
-----------------------------------------------------------------------------
\* As long as the processes take turns, the metrics are what the updates added up to and
\* the work queue is the last one written, whoever died between them (store.py:99).
UpdatesAddUp ==
  registryFile.state = "whole" /\ ~overlapped =>
    registryFile.content = [metrics |-> added, queue |-> lastQueue]

\* The file is unreadable only while somebody writes it, after a death in the middle of
\* that, or after two processes have written at once (store.py:49).
UnreadableOnlyTorn ==
  registryFile.state = "partial" /\ ~overlapped =>
    torn \/ \E p \in Processes : writer[p].phase = "writes"
=============================================================================
