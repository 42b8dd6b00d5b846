------------------------------- MODULE TeArchive -------------------------------
(***************************************************************************)
(* te_run.py, one issue over its attempts: archive_previous_attempt moves  *)
(* the local traces of the last attempt (its clone, refs/te-runner/<N>, a  *)
(* local branch of an older runner) into archive/<N>/<k>, then work_item   *)
(* clones, lets the agent work, pins the head and may push it.  One runner *)
(* at a time; it may be killed between any two steps, also inside the      *)
(* removal of the clone.                                                   *)
(***************************************************************************)
EXTENDS Naturals, Sequences, FiniteSets

CONSTANTS MaxAttempts,  \* bound on the attempts begun
          Legacy        \* whether the traces may begin with an older runner's branch

ASSUME TeArchiveAssumption == MaxAttempts \in Nat \ {0} /\ Legacy \subseteq BOOLEAN

AttemptNos == 1..MaxAttempts
Kinds == {"commits", "edits", "untracked"}

VARIABLES
  made,     \* attempts begun
  did,      \* [Attempts -> SUBSET Kinds], history: the work each left in its clone
  clone,    \* the clone: whose, with what work, and whether it is all there
  liveRef,  \* the attempt whose head refs/te-runner/<N> names (0: no ref)
  branch,   \* a local branch fix/<N>-te-runner: the attempt whose head it names
  tmpDir,   \* archive/<N>/.tmp-<k>-<pid>
  archived, \* archive/<N>/<k>, in the order of k
  saved,    \* refs/te-runner-archive/<N>/<k>: the attempts whose head they name
  forkNumbers,     \* attempt numbers with a branch on the runner fork
  runner,   \* the run: its next step, k, the head and the number it read
  pinned,   \* history: attempts whose head was pinned
  torn      \* history: a kill fell inside the removal of a clone

archiveVars == <<made, did, clone, liveRef, branch, tmpDir, archived, saved, forkNumbers, runner,
                 pinned, torn>>

-----------------------------------------------------------------------------
NoClone == [of |-> 0, work |-> {}, is |-> "absent"]
NoTmp   == [k |-> 0, of |-> 0, work |-> {}, is |-> "absent"]
Resting == [at |-> "idle", k |-> 0, head |-> 0, number |-> 0]

ArchiveSteps == {"idle", "tmp", "patches", "traces", "save", "dropref", "dropbranch", "remove",
                 "removing", "rename", "number", "clone", "cloning", "provision", "agent", "pin", "push"}

ArchiveTypeOK ==
  /\ made \in 0..MaxAttempts
  /\ did \in [AttemptNos -> SUBSET Kinds]
  /\ clone \in [of: 0..MaxAttempts, work: SUBSET Kinds, is: {"absent", "whole", "partial"}]
  /\ liveRef \in 0..MaxAttempts /\ branch \in 0..MaxAttempts
  /\ tmpDir \in [k: Nat, of: 0..MaxAttempts, work: SUBSET Kinds, is: {"absent", "begun", "traced"}]
  /\ \A k \in DOMAIN archived : archived[k] \in [of: 0..MaxAttempts, work: SUBSET Kinds]
  /\ DOMAIN archived = 1..Cardinality(DOMAIN archived)
  /\ saved \in [DOMAIN saved -> AttemptNos]
  /\ forkNumbers \subseteq Nat
  /\ runner \in [at: ArchiveSteps, k: Nat, head: 0..MaxAttempts, number: Nat]
  /\ pinned \subseteq AttemptNos
  /\ torn \in BOOLEAN

\* An older runner's attempt left its branch, with or without the ref.
ArchiveInit ==
  /\ \E legacy \in Legacy, withRef \in BOOLEAN :
       /\ made = IF legacy THEN 1 ELSE 0
       /\ branch = made
       /\ liveRef = IF withRef THEN made ELSE 0
       /\ pinned = {a \in AttemptNos : a = made}
  /\ did = [a \in AttemptNos |-> {}]
  /\ clone = NoClone /\ tmpDir = NoTmp
  /\ archived = <<>> /\ saved = <<>> /\ forkNumbers = {}
  /\ runner = Resting
  /\ torn = FALSE

Steps(from, to) == runner.at = from /\ runner' = [runner EXCEPT !.at = to]

ArchivedCount == Cardinality(DOMAIN archived)

-----------------------------------------------------------------------------
(***************************************************************************)
(* archive_previous_attempt                                                *)
(***************************************************************************)

\* No live trace: _finish_stale renames what a killed run had archived.
FinishStale ==
  /\ runner.at = "idle" /\ made < MaxAttempts
  /\ clone.is = "absent" /\ liveRef = 0 /\ branch = 0
  /\ archived' = IF tmpDir.is # "absent" /\ tmpDir.k = ArchivedCount + 1
                 THEN Append(archived, [of |-> tmpDir.of, work |-> tmpDir.work]) ELSE archived
  /\ tmpDir' = NoTmp
  /\ runner' = [Resting EXCEPT !.at = "number"]
  /\ UNCHANGED <<made, did, clone, liveRef, branch, saved, forkNumbers, pinned, torn>>

\* Live traces: "so any .tmp-* is incomplete: redo it from them".
StartArchive ==
  /\ runner.at = "idle" /\ made < MaxAttempts
  /\ clone.is # "absent" \/ liveRef # 0 \/ branch # 0
  /\ runner' = [at |-> "tmp", k |-> ArchivedCount + 1, head |-> liveRef, number |-> 0]
  /\ UNCHANGED <<made, did, clone, liveRef, branch, tmpDir, archived, saved, forkNumbers, pinned, torn>>

MakeTmp ==
  /\ Steps("tmp", "patches")
  /\ tmpDir' = [k |-> runner.k, of |-> 0, work |-> {}, is |-> "begun"]
  /\ UNCHANGED <<made, did, clone, liveRef, branch, archived, saved, forkNumbers, pinned, torn>>

\* _archive_clone: commits and edits as patches, untracked files by name only.  Git in a
\* clone that is not all there fails, or shows what is left of it.
SavePatches ==
  /\ Steps("patches", "traces")
  /\ clone.work # {} => clone.work \cap {"commits", "edits"} # {}
  /\ \E left \in SUBSET clone.work :
       /\ clone.is = "whole" => left = clone.work
       /\ tmpDir' = [tmpDir EXCEPT !.of = clone.of, !.work = left \ {"untracked"}]
  /\ UNCHANGED <<made, did, clone, liveRef, branch, archived, saved, forkNumbers, pinned, torn>>

\* Blocked: git failed, or there is work and no patch of it.
PatchesRefused ==
  /\ runner.at = "patches"
  /\ clone.is = "partial" \/ clone.work = {"untracked"}
  /\ runner' = Resting
  /\ UNCHANGED <<made, did, clone, liveRef, branch, tmpDir, archived, saved, forkNumbers, pinned, torn>>

WriteTraces ==
  /\ Steps("traces", "save")
  /\ tmpDir' = [tmpDir EXCEPT !.is = "traced"]
  /\ UNCHANGED <<made, did, clone, liveRef, branch, archived, saved, forkNumbers, pinned, torn>>

\* A mutant: the pinned ref alone.
SaveRefHeadOnly ==
  /\ Steps("save", "dropref")
  /\ saved' = IF runner.head = 0 THEN saved
              ELSE [k \in DOMAIN saved \cup {runner.k} |-> IF k = runner.k THEN runner.head ELSE saved[k]]
  /\ UNCHANGED <<made, did, clone, liveRef, branch, tmpDir, archived, forkNumbers, pinned, torn>>

\* head or the first branch; neither: the ref stays as an earlier run left it.
SaveRef ==
  /\ Steps("save", "dropref")
  /\ LET pin == IF runner.head # 0 THEN runner.head ELSE branch
     IN  saved' = IF pin = 0 THEN saved
                  ELSE [k \in DOMAIN saved \cup {runner.k} |-> IF k = runner.k THEN pin ELSE saved[k]]
  /\ UNCHANGED <<made, did, clone, liveRef, branch, tmpDir, archived, forkNumbers, pinned, torn>>

DropRef ==
  /\ Steps("dropref", "dropbranch")
  /\ liveRef' = 0
  /\ UNCHANGED <<made, did, clone, branch, tmpDir, archived, saved, forkNumbers, pinned, torn>>

DropBranch ==
  /\ Steps("dropbranch", "remove")
  /\ branch' = 0
  /\ UNCHANGED <<made, did, clone, liveRef, tmpDir, archived, saved, forkNumbers, pinned, torn>>

RemoveClone ==
  /\ clone.is # "absent"
  /\ Steps("remove", "removing")
  /\ clone' = [clone EXCEPT !.is = "partial"]
  /\ UNCHANGED <<made, did, liveRef, branch, tmpDir, archived, saved, forkNumbers, pinned, torn>>

CloneRemoved ==
  /\ \/ runner.at = "removing"
     \/ runner.at = "remove" /\ clone.is = "absent"
  /\ runner' = [runner EXCEPT !.at = "rename"]
  /\ clone' = NoClone
  /\ UNCHANGED <<made, did, liveRef, branch, tmpDir, archived, saved, forkNumbers, pinned, torn>>

Rename ==
  /\ Steps("rename", "number")
  /\ archived' = Append(archived, [of |-> tmpDir.of, work |-> tmpDir.work])
  /\ tmpDir' = NoTmp
  /\ UNCHANGED <<made, did, clone, liveRef, branch, saved, forkNumbers, pinned, torn>>

\* The next number whose branch is not on the fork.
PickNumber ==
  /\ runner.at = "number"
  /\ LET n == CHOOSE m \in (ArchivedCount + 1)..(ArchivedCount + 1 + Cardinality(forkNumbers)) :
                m \notin forkNumbers /\ \A i \in (ArchivedCount + 1)..(m - 1) : i \in forkNumbers
     IN  runner' = [Resting EXCEPT !.at = "clone", !.number = n]
  /\ UNCHANGED <<made, did, clone, liveRef, branch, tmpDir, archived, saved, forkNumbers, pinned, torn>>

-----------------------------------------------------------------------------
(***************************************************************************)
(* work_item                                                               *)
(***************************************************************************)
Clone ==
  /\ Steps("clone", "cloning")
  /\ made' = made + 1
  /\ clone' = [of |-> made + 1, work |-> {}, is |-> "partial"]
  /\ UNCHANGED <<did, liveRef, branch, tmpDir, archived, saved, forkNumbers, pinned, torn>>

Cloned ==
  /\ Steps("cloning", "provision")
  /\ clone' = [clone EXCEPT !.is = "whole"]
  /\ UNCHANGED <<made, did, liveRef, branch, tmpDir, archived, saved, forkNumbers, pinned, torn>>

Provision ==
  /\ Steps("provision", "agent")
  /\ UNCHANGED <<made, did, clone, liveRef, branch, tmpDir, archived, saved, forkNumbers, pinned, torn>>

\* No agent work exists yet: the clone is removed.
ProvisionFails ==
  /\ runner.at = "provision"
  /\ clone' = NoClone
  /\ runner' = Resting
  /\ UNCHANGED <<made, did, liveRef, branch, tmpDir, archived, saved, forkNumbers, pinned, torn>>

AgentWorks(kind) ==
  /\ runner.at = "agent" /\ kind \notin clone.work
  /\ clone' = [clone EXCEPT !.work = @ \cup {kind}]
  /\ did' = [did EXCEPT ![clone.of] = @ \cup {kind}]
  /\ UNCHANGED <<made, liveRef, branch, tmpDir, archived, saved, forkNumbers, runner, pinned, torn>>

\* The agent answers or its wall time is up: the head is pinned, work or not.
PinHead ==
  /\ Steps("agent", "push")
  /\ liveRef' = clone.of
  /\ pinned' = pinned \cup {clone.of}
  /\ UNCHANGED <<made, did, clone, branch, tmpDir, archived, saved, forkNumbers, torn>>

\* Only a green head is pushed.
PushHead(green) ==
  /\ runner.at = "push"
  /\ forkNumbers' = IF green THEN forkNumbers \cup {runner.number} ELSE forkNumbers
  /\ runner' = Resting
  /\ UNCHANGED <<made, did, clone, liveRef, branch, tmpDir, archived, saved, pinned, torn>>

KillRunner ==
  /\ runner.at # "idle"
  /\ runner' = Resting
  /\ torn' = (torn \/ runner.at = "removing")
  /\ UNCHANGED <<made, did, clone, liveRef, branch, tmpDir, archived, saved, forkNumbers, pinned>>

-----------------------------------------------------------------------------
ArchiveNext ==
  \/ FinishStale \/ StartArchive \/ MakeTmp \/ SavePatches \/ PatchesRefused \/ WriteTraces
  \/ SaveRef \/ DropRef \/ DropBranch \/ RemoveClone \/ CloneRemoved \/ Rename \/ PickNumber
  \/ Clone \/ Cloned \/ Provision \/ ProvisionFails \/ PinHead \/ KillRunner
  \/ \E kind \in Kinds : AgentWorks(kind)
  \/ \E green \in BOOLEAN : PushHead(green)

ArchiveSpec == ArchiveInit /\ [][ArchiveNext]_archiveVars

-----------------------------------------------------------------------------
(***************************************************************************)
(* What must hold.                                                         *)
(***************************************************************************)
InPatches(a, kind) ==
  \/ tmpDir.of = a /\ kind \in tmpDir.work
  \/ \E k \in DOMAIN archived : archived[k].of = a /\ kind \in archived[k].work

InClone(a, kind) == clone.of = a /\ clone.is = "whole" /\ kind \in clone.work

\* "A half-written archive never advances the attempt number": wherever the runs are killed
\* (but inside the removal of a clone), an attempt's head stays named by a ref and its
\* commits and edits stay in its clone or in patches.
AttemptsKept ==
  /\ \A a \in pinned : liveRef = a \/ branch = a \/ \E k \in DOMAIN saved : saved[k] = a
  /\ ~torn => \A a \in AttemptNos : \A kind \in did[a] \ {"untracked"} : InPatches(a, kind) \/ InClone(a, kind)

\* _archive_clone, "the clone's committed and uncommitted work as patches": what an attempt
\* left in its clone is in the clone or in patches, new files too.
WorkKept ==
  \A a \in AttemptNos : \A kind \in did[a] : InPatches(a, kind) \/ InClone(a, kind)
=============================================================================
