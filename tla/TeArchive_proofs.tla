--------------------------- MODULE TeArchive_proofs ---------------------------
(***************************************************************************)
(* Proofs about TeArchive, for any number of attempts: what a killed run   *)
(* leaves behind, the next one finishes or does again, and nothing that an *)
(* attempt committed, edited or pinned is lost.                            *)
(***************************************************************************)
EXTENDS TeArchive, SequenceTheorems, FiniteSetTheorems, WellFoundedInduction, TLAPS

-----------------------------------------------------------------------------
(***************************************************************************)
(* Types: what the other parts need of them.                               *)
(***************************************************************************)
Clones == [of: 0..MaxAttempts, work: SUBSET Kinds, is: {"absent", "whole", "partial"}]
TmpDirs == [k: Nat, of: 0..MaxAttempts, work: SUBSET Kinds, is: {"absent", "begun", "traced"}]
ArchiveDirs == [of: 0..MaxAttempts, work: SUBSET Kinds]

ArchivingSteps == {"tmp", "patches", "traces", "save", "dropref", "dropbranch", "remove", "removing", "rename"}
WorkingSteps == {"number", "clone", "cloning", "provision", "agent", "push"}

RunnerTypes ==
  /\ runner = [at |-> runner.at, k |-> runner.k, head |-> runner.head, number |-> runner.number]
  /\ runner.at \in {"idle"} \cup ArchivingSteps \cup WorkingSteps
  /\ runner.k \in Nat /\ runner.head \in 0..MaxAttempts

FileTypes ==
  /\ made \in 0..MaxAttempts
  /\ did \in [AttemptNos -> SUBSET Kinds]
  /\ clone \in Clones
  /\ liveRef \in 0..MaxAttempts /\ branch \in 0..MaxAttempts
  /\ tmpDir \in TmpDirs
  /\ archived \in Seq(ArchiveDirs)
  /\ saved \in [DOMAIN saved -> AttemptNos]

\* A run that is to begin an attempt may.
RoomLeft == runner.at \in ArchivingSteps \cup {"number", "clone"} => made < MaxAttempts

Types == RunnerTypes /\ FileTypes /\ RoomLeft

LEMMA CountIsLength ==
  ASSUME archived \in Seq(ArchiveDirs)
  PROVE  ArchivedCount = Len(archived) /\ Len(archived) \in Nat /\ DOMAIN archived = 1..Len(archived)
<1>1. DOMAIN archived = 1..Len(archived) /\ Len(archived) \in Nat
  BY LenProperties
<1>2. Cardinality(1..Len(archived)) = Len(archived)
  BY <1>1, FS_Interval
<1> QED
  BY <1>1, <1>2 DEF ArchivedCount

LEMMA TypesInit == ArchiveInit => Types
<1> SUFFICES ASSUME ArchiveInit PROVE Types
  OBVIOUS
<1> USE TeArchiveAssumption DEF ArchiveInit
<1>1. made \in 0..MaxAttempts /\ branch = made /\ liveRef \in {0, made}
  OBVIOUS
<1>2. FileTypes
  BY <1>1 DEF FileTypes, NoClone, NoTmp, Clones, TmpDirs, AttemptNos
<1>3. RunnerTypes /\ RoomLeft
  BY DEF RunnerTypes, RoomLeft, Resting, ArchivingSteps
<1> QED
  BY <1>2, <1>3 DEF Types

\* A step of the runner moves nothing else of it.
LEMMA StepFacts ==
  ASSUME RunnerTypes, NEW from, NEW to \in ArchivingSteps \cup WorkingSteps, Steps(from, to)
  PROVE  /\ runner.at = from /\ runner'.at = to
         /\ runner'.k = runner.k /\ runner'.head = runner.head
         /\ RunnerTypes'
  BY DEF RunnerTypes, Steps

LEMMA AppendedDir ==
  ASSUME archived \in Seq(ArchiveDirs), tmpDir \in TmpDirs,
         archived' = Append(archived, [of |-> tmpDir.of, work |-> tmpDir.work])
  PROVE  /\ archived' \in Seq(ArchiveDirs) /\ Len(archived') = Len(archived) + 1
         /\ \A i \in 1..Len(archived) : archived'[i] = archived[i]
         /\ archived'[Len(archived) + 1].of = tmpDir.of
         /\ archived'[Len(archived) + 1].work = tmpDir.work
<1> DEFINE d == [of |-> tmpDir.of, work |-> tmpDir.work]
<1>1. d \in ArchiveDirs /\ d.of = tmpDir.of /\ d.work = tmpDir.work
  BY DEF ArchiveDirs, TmpDirs
<1> HIDE DEF d
<1>2. archived' = Append(archived, d)
  BY DEF d
<1> QED
  BY <1>1, <1>2, AppendProperties

LEMMA TypesStep == Types /\ [ArchiveNext]_archiveVars => Types'
<1> SUFFICES ASSUME Types, [ArchiveNext]_archiveVars PROVE Types'
  OBVIOUS
<1> USE TeArchiveAssumption
<1>types. RunnerTypes /\ FileTypes /\ RoomLeft
  BY DEF Types
<1>rest. Resting.at = "idle" /\ Resting.k = 0 /\ Resting.head = 0 /\ (runner' = Resting => RunnerTypes')
  BY DEF Resting, RunnerTypes
<1>1. CASE FinishStale
  <2>1. RunnerTypes' /\ runner'.at = "number" /\ made < MaxAttempts
    BY <1>1 DEF FinishStale, RunnerTypes, Resting, WorkingSteps
  <2>2. archived' \in Seq(ArchiveDirs)
    BY <1>1, <1>types, AppendedDir DEF FinishStale, FileTypes
  <2>3. FileTypes'
    BY <1>1, <1>types, <2>2 DEF FinishStale, FileTypes, NoTmp, TmpDirs
  <2> QED
    BY <1>1, <2>1, <2>3 DEF Types, RoomLeft, FinishStale
<1>2. CASE StartArchive
  <2>1. ArchivedCount + 1 \in Nat
    BY <1>types, CountIsLength DEF FileTypes
  <2>2. RunnerTypes' /\ made < MaxAttempts
    BY <1>2, <1>types, <2>1 DEF StartArchive, RunnerTypes, FileTypes, ArchivingSteps
  <2> QED
    BY <1>2, <1>types, <2>2 DEF Types, RoomLeft, FileTypes, StartArchive
<1>3. CASE MakeTmp
  <2>1. RunnerTypes' /\ runner.at = "tmp"
    BY <1>3, <1>types, StepFacts DEF MakeTmp, ArchivingSteps
  <2>2. FileTypes'
    BY <1>3, <1>types DEF MakeTmp, FileTypes, TmpDirs, RunnerTypes
  <2> QED
    BY <1>3, <1>types, <2>1, <2>2 DEF Types, RoomLeft, MakeTmp, ArchivingSteps
<1>4. CASE SavePatches
  <2>1. RunnerTypes' /\ runner.at = "patches"
    BY <1>4, <1>types, StepFacts DEF SavePatches, ArchivingSteps
  <2>2. PICK left \in SUBSET clone.work : tmpDir' = [tmpDir EXCEPT !.of = clone.of, !.work = left \ {"untracked"}]
    BY <1>4 DEF SavePatches
  <2>3. clone.of \in 0..MaxAttempts /\ clone.work \subseteq Kinds
    BY <1>types DEF FileTypes, Clones
  <2>4. tmpDir' \in TmpDirs
    BY <1>types, <2>2, <2>3 DEF FileTypes, TmpDirs
  <2> QED
    BY <1>4, <1>types, <2>1, <2>4 DEF Types, RoomLeft, FileTypes, SavePatches, ArchivingSteps
<1>5. CASE WriteTraces
  <2>1. RunnerTypes' /\ runner.at = "traces"
    BY <1>5, <1>types, StepFacts DEF WriteTraces, ArchivingSteps
  <2> QED
    BY <1>5, <1>types, <2>1 DEF Types, RoomLeft, FileTypes, TmpDirs, WriteTraces, ArchivingSteps
<1>6. CASE SaveRef
  <2>1. RunnerTypes' /\ runner.at = "save"
    BY <1>6, <1>types, StepFacts DEF SaveRef, ArchivingSteps
  <2> DEFINE pin == IF runner.head # 0 THEN runner.head ELSE branch
  <2>2. pin \in 0..MaxAttempts
    BY <1>types DEF RunnerTypes, FileTypes
  <2>3. saved' = IF pin = 0 THEN saved
                 ELSE [k \in DOMAIN saved \cup {runner.k} |-> IF k = runner.k THEN pin ELSE saved[k]]
    BY <1>6 DEF SaveRef
  <2> HIDE DEF pin
  <2>4. saved' \in [DOMAIN saved' -> AttemptNos]
    BY <1>types, <2>2, <2>3 DEF FileTypes, AttemptNos
  <2> QED
    BY <1>6, <1>types, <2>1, <2>4 DEF Types, RoomLeft, FileTypes, SaveRef, ArchivingSteps
<1>7. CASE DropRef \/ DropBranch
  <2>1. RunnerTypes' /\ runner.at \in ArchivingSteps
    BY <1>7, <1>types, StepFacts DEF DropRef, DropBranch, ArchivingSteps
  <2> QED
    BY <1>7, <1>types, <2>1 DEF Types, RoomLeft, FileTypes, DropRef, DropBranch
<1>8. CASE RemoveClone
  <2>1. RunnerTypes' /\ runner.at = "remove"
    BY <1>8, <1>types, StepFacts DEF RemoveClone, ArchivingSteps
  <2> QED
    BY <1>8, <1>types, <2>1 DEF Types, RoomLeft, FileTypes, Clones, RemoveClone, ArchivingSteps
<1>9. CASE CloneRemoved
  <2>1. RunnerTypes' /\ runner.at \in ArchivingSteps
    BY <1>9, <1>types DEF CloneRemoved, RunnerTypes, ArchivingSteps
  <2> QED
    BY <1>9, <1>types, <2>1 DEF Types, RoomLeft, FileTypes, Clones, NoClone, CloneRemoved
<1>10. CASE Rename
  <2>1. RunnerTypes' /\ runner.at = "rename"
    BY <1>10, <1>types, StepFacts DEF Rename, WorkingSteps
  <2>2. archived' \in Seq(ArchiveDirs)
    BY <1>10, <1>types, AppendedDir DEF Rename, FileTypes
  <2> QED
    BY <1>10, <1>types, <2>1, <2>2 DEF Types, RoomLeft, FileTypes, NoTmp, TmpDirs, Rename, ArchivingSteps
<1>11. CASE PickNumber
  <2>1. RunnerTypes' /\ runner.at = "number" /\ runner'.at = "clone"
    <3>1. PICK n : runner' = [Resting EXCEPT !.at = "clone", !.number = n]
      BY <1>11 DEF PickNumber
    <3>2. runner' = [at |-> "clone", k |-> 0, head |-> 0, number |-> n]
      BY <3>1 DEF Resting
    <3>3. RunnerTypes' /\ runner'.at = "clone"
      BY <3>2 DEF RunnerTypes, WorkingSteps
    <3> QED
      BY <1>11, <3>3 DEF PickNumber
  <2> QED
    BY <1>11, <1>types, <2>1 DEF Types, RoomLeft, FileTypes, PickNumber
<1>12. CASE Clone
  <2>1. RunnerTypes' /\ runner.at = "clone" /\ runner'.at = "cloning"
    BY <1>12, <1>types, StepFacts DEF Clone, WorkingSteps
  <2>2. made < MaxAttempts /\ made \in 0..MaxAttempts
    BY <1>types, <2>1 DEF RoomLeft, FileTypes
  <2> QED
    BY <1>12, <1>types, <2>1, <2>2 DEF Types, RoomLeft, FileTypes, Clones, Clone, ArchivingSteps
<1>13. CASE Cloned \/ Provision
  <2>1. RunnerTypes' /\ runner'.at \in {"provision", "agent"}
    BY <1>13, <1>types, StepFacts DEF Cloned, Provision, WorkingSteps
  <2> QED
    BY <1>13, <1>types, <2>1 DEF Types, RoomLeft, FileTypes, Clones, Cloned, Provision, ArchivingSteps
<1>14. ASSUME NEW kind \in Kinds, AgentWorks(kind) PROVE Types'
  <2>1. RunnerTypes' /\ runner' = runner
    BY <1>14, <1>types DEF AgentWorks, RunnerTypes
  <2>2. clone' \in Clones
    BY <1>14, <1>types DEF AgentWorks, FileTypes, Clones
  <2>3. did' \in [AttemptNos -> SUBSET Kinds]
    BY <1>14, <1>types DEF AgentWorks, FileTypes
  <2>4. UNCHANGED <<made, liveRef, branch, tmpDir, archived, saved>>
    BY <1>14 DEF AgentWorks
  <2>5. FileTypes'
    BY <1>types, <2>2, <2>3, <2>4 DEF FileTypes
  <2> QED
    BY <1>types, <2>1, <2>4, <2>5 DEF Types, RoomLeft
<1>15. CASE PinHead
  <2>1. RunnerTypes' /\ runner'.at = "push"
    BY <1>15, <1>types, StepFacts DEF PinHead, WorkingSteps
  <2> QED
    BY <1>15, <1>types, <2>1 DEF Types, RoomLeft, FileTypes, Clones, PinHead, ArchivingSteps
<1>16. CASE PatchesRefused \/ KillRunner \/ \E green \in BOOLEAN : PushHead(green)
  <2>1. runner' = Resting /\ UNCHANGED <<made, did, clone, liveRef, branch, tmpDir, archived, saved>>
    BY <1>16 DEF PatchesRefused, KillRunner, PushHead
  <2> QED
    BY <1>types, <1>rest, <2>1 DEF Types, RoomLeft, FileTypes, ArchivingSteps
<1>17. CASE ProvisionFails
  <2>1. runner' = Resting /\ clone' = NoClone /\ UNCHANGED <<made, did, liveRef, branch, tmpDir, archived, saved>>
    BY <1>17 DEF ProvisionFails
  <2> QED
    BY <1>types, <1>rest, <2>1 DEF Types, RoomLeft, FileTypes, ArchivingSteps, Clones, NoClone
<1>18. CASE UNCHANGED archiveVars
  BY <1>18, <1>types DEF archiveVars, Types, RunnerTypes, RoomLeft, FileTypes
<1> QED
  BY <1>1, <1>2, <1>3, <1>4, <1>5, <1>6, <1>7, <1>8, <1>9, <1>10, <1>11, <1>12, <1>13, <1>14, <1>15, <1>16, <1>17, <1>18
  DEF ArchiveNext

-----------------------------------------------------------------------------
(***************************************************************************)
(* Where the runner is tells what is there.                                *)
(***************************************************************************)
NextK == Len(archived) + 1

\* The archive under way is the next one, and lies in the temporary directory.
TmpIsNext ==
  /\ tmpDir.is # "absent" => tmpDir.k = NextK
  /\ runner.at \in ArchivingSteps => runner.k = NextK
  /\ runner.at \in ArchivingSteps \ {"tmp"} => tmpDir.is # "absent"
  /\ runner.at \in WorkingSteps => tmpDir.is = "absent"

\* The head that was read is the head that is there, until the refs are dropped.
RefsByStep ==
  /\ runner.at \in {"tmp", "patches", "traces", "save", "dropref"} => liveRef = runner.head
  /\ runner.at \in {"dropbranch", "remove", "removing", "rename"} \cup (WorkingSteps \ {"push"}) => liveRef = 0
  /\ runner.at \in {"remove", "removing", "rename"} \cup WorkingSteps => branch = 0

\* No clone is overwritten, and none with work in it is removed before its patches are.
CloneByStep ==
  /\ runner.at \in {"rename", "number", "clone"} => clone.is = "absent"
  /\ runner.at = "removing" => clone.is = "partial"
  /\ runner.at \in {"cloning", "provision"} => clone.work = {} /\ clone.of \in AttemptNos
  /\ runner.at \in {"provision", "agent"} => clone.is = "whole" /\ clone.of \in AttemptNos
  /\ runner.at \in {"traces", "save", "dropref", "dropbranch", "remove"} /\ clone.is = "whole" =>
       tmpDir.of = clone.of /\ tmpDir.work = clone.work \ {"untracked"}

Control == TmpIsNext /\ RefsByStep /\ CloneByStep

LEMMA ControlInit == ArchiveInit => Control
  BY DEF ArchiveInit, Control, TmpIsNext, RefsByStep, CloneByStep, NoTmp, Resting, ArchivingSteps, WorkingSteps

LEMMA ControlStep == Types /\ Control /\ [ArchiveNext]_archiveVars => Control'
<1> SUFFICES ASSUME Types, Control, [ArchiveNext]_archiveVars PROVE Control'
  OBVIOUS
<1>types. RunnerTypes /\ FileTypes /\ RoomLeft
  BY DEF Types
<1>now. TmpIsNext /\ RefsByStep /\ CloneByStep
  BY DEF Control
<1>count. /\ ArchivedCount = Len(archived) /\ Len(archived) \in Nat
          /\ tmpDir \in TmpDirs /\ clone \in Clones
  BY <1>types, CountIsLength DEF FileTypes
<1>rest. Resting.at = "idle" /\ NoTmp.is = "absent" /\ NoClone.is = "absent"
  BY DEF Resting, NoTmp, NoClone
<1> USE DEF ArchivingSteps, WorkingSteps
<1>idle. ASSUME runner' = Resting, tmpDir' = tmpDir, archived' = archived PROVE Control'
  BY <1>idle, <1>now, <1>rest DEF Control, TmpIsNext, RefsByStep, CloneByStep, NextK
<1>1. CASE FinishStale
  <2>1. /\ runner'.at = "number" /\ clone' = clone /\ clone.is = "absent"
        /\ liveRef' = 0 /\ branch' = 0 /\ tmpDir'.is = "absent"
    BY <1>1, <1>rest DEF FinishStale, Resting
  <2> QED
    BY <2>1 DEF Control, TmpIsNext, RefsByStep, CloneByStep
<1>2. CASE StartArchive
  <2>1. /\ runner'.at = "tmp" /\ runner'.k = ArchivedCount + 1 /\ runner'.head = liveRef
        /\ UNCHANGED <<clone, liveRef, branch, tmpDir, archived>>
    BY <1>2 DEF StartArchive
  <2> QED
    BY <1>now, <1>count, <2>1 DEF Control, TmpIsNext, RefsByStep, CloneByStep, NextK
<1>3. CASE MakeTmp
  <2>1. runner.at = "tmp" /\ runner'.at = "patches" /\ runner'.k = runner.k /\ runner'.head = runner.head
    BY <1>3, <1>types, StepFacts DEF MakeTmp
  <2>2. tmpDir'.is = "begun" /\ tmpDir'.k = runner.k /\ UNCHANGED <<clone, liveRef, branch, archived>>
    BY <1>3 DEF MakeTmp
  <2> QED
    BY <1>now, <2>1, <2>2 DEF Control, TmpIsNext, RefsByStep, CloneByStep, NextK
<1>4. CASE SavePatches
  <2>1. runner.at = "patches" /\ runner'.at = "traces" /\ runner'.k = runner.k /\ runner'.head = runner.head
    BY <1>4, <1>types, StepFacts DEF SavePatches
  <2>2. PICK left \in SUBSET clone.work :
          /\ clone.is = "whole" => left = clone.work
          /\ tmpDir' = [tmpDir EXCEPT !.of = clone.of, !.work = left \ {"untracked"}]
    BY <1>4 DEF SavePatches
  <2>3. /\ tmpDir'.is = tmpDir.is /\ tmpDir'.k = tmpDir.k /\ tmpDir'.of = clone.of
        /\ tmpDir'.work = left \ {"untracked"}
    BY <1>count, <2>2 DEF TmpDirs
  <2>4. UNCHANGED <<clone, liveRef, branch, archived>>
    BY <1>4 DEF SavePatches
  <2> QED
    BY <1>now, <2>1, <2>2, <2>3, <2>4 DEF Control, TmpIsNext, RefsByStep, CloneByStep, NextK
<1>5. CASE WriteTraces
  <2>1. runner.at = "traces" /\ runner'.at = "save" /\ runner'.k = runner.k /\ runner'.head = runner.head
    BY <1>5, <1>types, StepFacts DEF WriteTraces
  <2>2. /\ tmpDir'.is = "traced" /\ tmpDir'.k = tmpDir.k /\ tmpDir'.of = tmpDir.of /\ tmpDir'.work = tmpDir.work
        /\ UNCHANGED <<clone, liveRef, branch, archived>>
    BY <1>5, <1>count DEF WriteTraces, TmpDirs
  <2> QED
    BY <1>now, <2>1, <2>2 DEF Control, TmpIsNext, RefsByStep, CloneByStep, NextK
<1>6. CASE SaveRef
  <2>1. runner.at = "save" /\ runner'.at = "dropref" /\ runner'.k = runner.k /\ runner'.head = runner.head
    BY <1>6, <1>types, StepFacts DEF SaveRef
  <2>2. UNCHANGED <<clone, liveRef, branch, tmpDir, archived>>
    BY <1>6 DEF SaveRef
  <2> QED
    BY <1>now, <2>1, <2>2 DEF Control, TmpIsNext, RefsByStep, CloneByStep, NextK
<1>7. CASE DropRef
  <2>1. runner.at = "dropref" /\ runner'.at = "dropbranch" /\ runner'.k = runner.k
    BY <1>7, <1>types, StepFacts DEF DropRef
  <2>2. liveRef' = 0 /\ UNCHANGED <<clone, branch, tmpDir, archived>>
    BY <1>7 DEF DropRef
  <2> QED
    BY <1>now, <2>1, <2>2 DEF Control, TmpIsNext, RefsByStep, CloneByStep, NextK
<1>8. CASE DropBranch
  <2>1. runner.at = "dropbranch" /\ runner'.at = "remove" /\ runner'.k = runner.k
    BY <1>8, <1>types, StepFacts DEF DropBranch
  <2>2. branch' = 0 /\ UNCHANGED <<clone, liveRef, tmpDir, archived>>
    BY <1>8 DEF DropBranch
  <2> QED
    BY <1>now, <2>1, <2>2 DEF Control, TmpIsNext, RefsByStep, CloneByStep, NextK
<1>9. CASE RemoveClone
  <2>1. runner.at = "remove" /\ runner'.at = "removing" /\ runner'.k = runner.k
    BY <1>9, <1>types, StepFacts DEF RemoveClone
  <2>2. clone'.is = "partial" /\ UNCHANGED <<liveRef, branch, tmpDir, archived>>
    BY <1>9, <1>count DEF RemoveClone, Clones
  <2> QED
    BY <1>now, <2>1, <2>2 DEF Control, TmpIsNext, RefsByStep, CloneByStep, NextK
<1>10. CASE CloneRemoved
  <2>1. runner.at \in {"remove", "removing"} /\ runner'.at = "rename" /\ runner'.k = runner.k
    BY <1>10, <1>types DEF CloneRemoved, RunnerTypes
  <2>2. clone'.is = "absent" /\ UNCHANGED <<liveRef, branch, tmpDir, archived>>
    BY <1>10, <1>rest DEF CloneRemoved
  <2> QED
    BY <1>now, <2>1, <2>2 DEF Control, TmpIsNext, RefsByStep, CloneByStep, NextK
<1>11. CASE Rename
  <2>1. runner.at = "rename" /\ runner'.at = "number"
    BY <1>11, <1>types, StepFacts DEF Rename
  <2>2. tmpDir'.is = "absent" /\ UNCHANGED <<clone, liveRef, branch>>
    BY <1>11, <1>rest DEF Rename
  <2> QED
    BY <1>now, <2>1, <2>2 DEF Control, TmpIsNext, RefsByStep, CloneByStep
<1>12. CASE PickNumber
  <2>1. runner.at = "number" /\ runner'.at = "clone" /\ UNCHANGED <<clone, liveRef, branch, tmpDir, archived>>
    BY <1>12 DEF PickNumber, Resting
  <2> QED
    BY <1>now, <2>1 DEF Control, TmpIsNext, RefsByStep, CloneByStep
<1>13. CASE Clone
  <2>1. runner.at = "clone" /\ runner'.at = "cloning"
    BY <1>13, <1>types, StepFacts DEF Clone
  <2>2. /\ clone'.of = made + 1 /\ clone'.work = {}
        /\ UNCHANGED <<liveRef, branch, tmpDir, archived>>
    BY <1>13 DEF Clone
  <2>3. made + 1 \in AttemptNos
    BY <1>types, <2>1, TeArchiveAssumption DEF RoomLeft, FileTypes, AttemptNos
  <2> QED
    BY <1>now, <2>1, <2>2, <2>3 DEF Control, TmpIsNext, RefsByStep, CloneByStep
<1>14. CASE Cloned
  <2>1. runner.at = "cloning" /\ runner'.at = "provision"
    BY <1>14, <1>types, StepFacts DEF Cloned
  <2>2. /\ clone'.of = clone.of /\ clone'.work = clone.work /\ clone'.is = "whole"
        /\ UNCHANGED <<liveRef, branch, tmpDir, archived>>
    BY <1>14, <1>count DEF Cloned, Clones
  <2> QED
    BY <1>now, <2>1, <2>2 DEF Control, TmpIsNext, RefsByStep, CloneByStep
<1>15. CASE Provision
  <2>1. runner.at = "provision" /\ runner'.at = "agent" /\ UNCHANGED <<clone, liveRef, branch, tmpDir, archived>>
    BY <1>15, <1>types, StepFacts DEF Provision
  <2> QED
    BY <1>now, <2>1 DEF Control, TmpIsNext, RefsByStep, CloneByStep
<1>16. ASSUME NEW kind \in Kinds, AgentWorks(kind) PROVE Control'
  <2>1. runner.at = "agent" /\ runner' = runner /\ UNCHANGED <<liveRef, branch, tmpDir, archived>>
    BY <1>16 DEF AgentWorks
  <2>2. clone'.of = clone.of /\ clone'.is = clone.is
    BY <1>16, <1>count DEF AgentWorks, Clones
  <2> QED
    BY <1>now, <2>1, <2>2 DEF Control, TmpIsNext, RefsByStep, CloneByStep
<1>17. CASE PinHead
  <2>1. runner.at = "agent" /\ runner'.at = "push" /\ UNCHANGED <<clone, branch, tmpDir, archived>>
    BY <1>17, <1>types, StepFacts DEF PinHead
  <2> QED
    BY <1>now, <2>1 DEF Control, TmpIsNext, RefsByStep, CloneByStep
<1>18. CASE PatchesRefused \/ KillRunner \/ ProvisionFails \/ \E green \in BOOLEAN : PushHead(green)
  BY <1>18, <1>idle DEF PatchesRefused, KillRunner, PushHead, ProvisionFails
<1>19. CASE UNCHANGED archiveVars
  BY <1>19, <1>now DEF archiveVars, Control, TmpIsNext, RefsByStep, CloneByStep, NextK
<1> QED
  BY <1>1, <1>2, <1>3, <1>4, <1>5, <1>6, <1>7, <1>8, <1>9, <1>10, <1>11, <1>12, <1>13, <1>14, <1>15, <1>16, <1>17, <1>18, <1>19
  DEF ArchiveNext

-----------------------------------------------------------------------------
(***************************************************************************)
(* A pinned head stays named by a ref.                                     *)
(***************************************************************************)
Named(a) == liveRef = a \/ branch = a \/ \E k \in DOMAIN saved : saved[k] = a

\* What the archive under way saved is what the refs name, until they are dropped.
SavedIsPinned ==
  /\ branch # 0 => liveRef \in {0, branch}
  /\ DOMAIN saved \subseteq 1..NextK
  /\ NextK \in DOMAIN saved =>
       tmpDir.is # "absent" /\ liveRef \in {0, saved[NextK]} /\ branch \in {0, saved[NextK]}
  /\ runner.at = "dropref" /\ liveRef # 0 => NextK \in DOMAIN saved /\ saved[NextK] = liveRef
  /\ runner.at \in {"dropref", "dropbranch"} /\ branch # 0 => NextK \in DOMAIN saved /\ saved[NextK] = branch

PinsKept == pinned \subseteq AttemptNos /\ \A a \in pinned : Named(a)

LEMMA PinsInit == ArchiveInit => SavedIsPinned /\ PinsKept
<1> SUFFICES ASSUME ArchiveInit PROVE SavedIsPinned /\ PinsKept
  OBVIOUS
<1>1. /\ branch = made /\ liveRef \in {0, branch} /\ pinned = {a \in AttemptNos : a = branch}
      /\ saved = <<>> /\ runner.at = "idle"
  BY DEF ArchiveInit, Resting
<1> QED
  BY <1>1 DEF SavedIsPinned, PinsKept, Named

LEMMA PinsStep ==
  Types /\ Control /\ SavedIsPinned /\ PinsKept /\ [ArchiveNext]_archiveVars => SavedIsPinned' /\ PinsKept'
<1> SUFFICES ASSUME Types, Control, SavedIsPinned, PinsKept, [ArchiveNext]_archiveVars
             PROVE  SavedIsPinned' /\ PinsKept'
  OBVIOUS
<1>types. RunnerTypes /\ FileTypes
  BY DEF Types
<1>now. TmpIsNext /\ RefsByStep /\ CloneByStep
  BY DEF Control
<1>count. ArchivedCount = Len(archived) /\ Len(archived) \in Nat /\ NextK = ArchivedCount + 1 /\ tmpDir \in TmpDirs
  BY <1>types, CountIsLength DEF FileTypes, NextK
<1>rest. Resting.at = "idle" /\ NoTmp.is = "absent"
  BY DEF Resting, NoTmp
<1> USE DEF ArchivingSteps, WorkingSteps
\* The refs and what is saved stay, and the step is not the one after saving.
<1>same. ASSUME UNCHANGED <<liveRef, branch, saved, archived, pinned>>, tmpDir.is # "absent" => tmpDir'.is # "absent",
                runner'.at \in {"dropref", "dropbranch"} => runner' = runner
         PROVE  SavedIsPinned' /\ PinsKept'
  BY <1>same DEF SavedIsPinned, PinsKept, Named, NextK
<1>1. CASE FinishStale
  <2>1. /\ UNCHANGED <<liveRef, branch, saved, pinned>> /\ runner'.at = "number"
        /\ IF tmpDir.is # "absent" /\ tmpDir.k = ArchivedCount + 1
           THEN archived' = Append(archived, [of |-> tmpDir.of, work |-> tmpDir.work])
           ELSE archived' = archived
    BY <1>1 DEF FinishStale, Resting
  <2>2. CASE tmpDir.is # "absent"
    <3>1. archived' = Append(archived, [of |-> tmpDir.of, work |-> tmpDir.work])
      BY <1>now, <1>count, <2>1, <2>2 DEF TmpIsNext
    <3>2. NextK' = NextK + 1
      BY <1>types, <1>count, <3>1, AppendedDir DEF NextK, FileTypes
    <3>3. NextK' \notin DOMAIN saved /\ DOMAIN saved \subseteq 1..NextK'
      BY <1>count, <3>2 DEF SavedIsPinned
    <3> QED
      BY <2>1, <3>3 DEF SavedIsPinned, PinsKept, Named
  <2>3. CASE tmpDir.is = "absent"
    BY <2>1, <2>3 DEF SavedIsPinned, PinsKept, Named, NextK
  <2> QED
    BY <2>2, <2>3
<1>2. CASE StartArchive \/ PickNumber
  <2>1. runner'.at \in {"tmp", "clone"} /\ UNCHANGED <<liveRef, branch, saved, archived, pinned, tmpDir>>
    <3>1. CASE StartArchive
      BY <3>1 DEF StartArchive
    <3>2. CASE PickNumber
      <4>1. PICK n : runner' = [Resting EXCEPT !.at = "clone", !.number = n]
        BY <3>2 DEF PickNumber
      <4>2. runner'.at = "clone"
        BY <4>1 DEF Resting
      <4> QED
        BY <3>2, <4>2 DEF PickNumber
    <3> QED
      BY <1>2, <3>1, <3>2
  <2> QED
    BY <1>same, <2>1
<1>3. CASE MakeTmp
  <2>1. runner'.at = "patches" /\ tmpDir'.is = "begun" /\ UNCHANGED <<liveRef, branch, saved, archived, pinned>>
    BY <1>3, <1>types, StepFacts DEF MakeTmp
  <2> QED
    BY <1>same, <2>1
<1>4. CASE SavePatches \/ WriteTraces
  <2>1. runner'.at \in {"traces", "save"} /\ UNCHANGED <<liveRef, branch, saved, archived, pinned>>
    BY <1>4, <1>types, StepFacts DEF SavePatches, WriteTraces
  <2>2. tmpDir.is # "absent" => tmpDir'.is # "absent"
    BY <1>4, <1>count DEF SavePatches, WriteTraces, TmpDirs
  <2> QED
    BY <1>same, <2>1, <2>2
<1>5. CASE SaveRef
  <2> DEFINE pin == IF runner.head # 0 THEN runner.head ELSE branch
  <2>1. /\ runner.at = "save" /\ runner'.at = "dropref" /\ UNCHANGED <<liveRef, branch, tmpDir, archived, pinned>>
        /\ saved' = IF pin = 0 THEN saved
                    ELSE [k \in DOMAIN saved \cup {runner.k} |-> IF k = runner.k THEN pin ELSE saved[k]]
    BY <1>5, <1>types, StepFacts DEF SaveRef
  <2>2. runner.head = liveRef /\ runner.k = NextK /\ tmpDir.is # "absent" /\ NextK' = NextK
    BY <1>now, <2>1 DEF TmpIsNext, RefsByStep, NextK
  <2>3. pin = IF liveRef # 0 THEN liveRef ELSE branch
    BY <2>2
  <2> HIDE DEF pin
  <2>4. CASE pin = 0
    BY <2>1, <2>2, <2>3, <2>4 DEF SavedIsPinned, PinsKept, Named
  <2>5. CASE pin # 0
    <3>1. /\ DOMAIN saved' = DOMAIN saved \cup {NextK} /\ saved'[NextK] = pin
          /\ \A k \in DOMAIN saved \ {NextK} : saved'[k] = saved[k]
      BY <2>1, <2>2, <2>5
    <3>2. NextK \in DOMAIN saved => saved[NextK] = pin
      BY <2>3, <2>5 DEF SavedIsPinned
    <3>3. NextK \in 1..NextK
      BY <1>count
    <3>4. SavedIsPinned'
      BY <2>1, <2>2, <2>3, <2>5, <3>1, <3>3 DEF SavedIsPinned
    <3>5. \A k \in DOMAIN saved : k \in DOMAIN saved' /\ saved'[k] = saved[k]
      BY <3>1, <3>2
    <3>6. PinsKept'
      BY <2>1, <3>5 DEF PinsKept, Named
    <3> QED
      BY <3>4, <3>6
  <2> QED
    BY <2>4, <2>5
<1>6. CASE DropRef
  <2>1. /\ runner.at = "dropref" /\ runner'.at = "dropbranch"
        /\ liveRef' = 0 /\ UNCHANGED <<branch, tmpDir, archived, pinned, saved>>
    BY <1>6, <1>types, StepFacts DEF DropRef
  <2>2. SavedIsPinned'
    BY <2>1 DEF SavedIsPinned, NextK
  <2>3. PinsKept'
    BY <2>1 DEF SavedIsPinned, PinsKept, Named, AttemptNos
  <2> QED
    BY <2>2, <2>3
<1>7. CASE DropBranch
  <2>1. /\ runner.at = "dropbranch" /\ runner'.at = "remove"
        /\ branch' = 0 /\ UNCHANGED <<liveRef, tmpDir, archived, pinned, saved>>
    BY <1>7, <1>types, StepFacts DEF DropBranch
  <2>2. SavedIsPinned'
    BY <2>1 DEF SavedIsPinned, NextK
  <2>3. PinsKept'
    BY <2>1 DEF SavedIsPinned, PinsKept, Named, AttemptNos
  <2> QED
    BY <2>2, <2>3
<1>8. CASE RemoveClone \/ CloneRemoved \/ Clone \/ Cloned \/ Provision
  <2>1. /\ runner'.at \in {"removing", "rename", "cloning", "provision", "agent"}
        /\ UNCHANGED <<liveRef, branch, tmpDir, archived, pinned, saved>>
    BY <1>8, <1>types, StepFacts DEF RemoveClone, CloneRemoved, Clone, Cloned, Provision, RunnerTypes
  <2> QED
    BY <1>same, <2>1
<1>9. CASE Rename
  <2>1. /\ runner'.at = "number" /\ UNCHANGED <<liveRef, branch, saved, pinned>>
        /\ archived' = Append(archived, [of |-> tmpDir.of, work |-> tmpDir.work])
    BY <1>9, <1>types, StepFacts DEF Rename
  <2>2. NextK' = NextK + 1
    BY <1>types, <1>count, <2>1, AppendedDir DEF NextK, FileTypes
  <2>3. NextK' \notin DOMAIN saved /\ DOMAIN saved \subseteq 1..NextK'
    BY <1>count, <2>2 DEF SavedIsPinned
  <2> QED
    BY <2>1, <2>3 DEF SavedIsPinned, PinsKept, Named
<1>10. CASE PinHead
  <2>1. /\ runner.at = "agent" /\ runner'.at = "push"
        /\ liveRef' = clone.of /\ pinned' = pinned \cup {clone.of}
        /\ UNCHANGED <<branch, tmpDir, archived, saved>>
    BY <1>10, <1>types, StepFacts DEF PinHead
  <2>2. liveRef = 0 /\ branch = 0 /\ clone.of \in AttemptNos /\ tmpDir.is = "absent"
    BY <1>now, <2>1 DEF TmpIsNext, RefsByStep, CloneByStep
  <2>3. SavedIsPinned'
    BY <2>1, <2>2 DEF SavedIsPinned, NextK
  <2>4. PinsKept'
    BY <2>1, <2>2 DEF PinsKept, Named, AttemptNos
  <2> QED
    BY <2>3, <2>4
<1>11. CASE PatchesRefused \/ KillRunner \/ ProvisionFails \/ \E green \in BOOLEAN : PushHead(green)
  BY <1>11, <1>same, <1>rest DEF PatchesRefused, KillRunner, PushHead, ProvisionFails
<1>12. CASE (\E kind \in Kinds : AgentWorks(kind)) \/ UNCHANGED archiveVars
  BY <1>12, <1>same DEF AgentWorks, archiveVars
<1> QED
  BY <1>1, <1>2, <1>3, <1>4, <1>5, <1>6, <1>7, <1>8, <1>9, <1>10, <1>11, <1>12 DEF ArchiveNext

-----------------------------------------------------------------------------
(***************************************************************************)
(* Commits and edits stay in the clone or in patches.                      *)
(***************************************************************************)
InArchive(a, kind) == \E k \in DOMAIN archived : archived[k].of = a /\ kind \in archived[k].work
InTmp(a, kind) == tmpDir.of = a /\ kind \in tmpDir.work

WorkSettled == \A a \in AttemptNos : \A kind \in did[a] \ {"untracked"} : InArchive(a, kind) \/ InClone(a, kind)

\* The clone is going or gone, and the temporary directory has what was in it: then nothing
\* but a rename comes next, by this run or by the next one.
Handed ==
  /\ clone.is # "whole" /\ liveRef = 0 /\ branch = 0 /\ tmpDir.is # "absent"
  /\ \A a \in AttemptNos : \A kind \in did[a] \ {"untracked"} : InArchive(a, kind) \/ InTmp(a, kind)
  /\ \/ runner.at \in {"removing", "rename"}
     \/ runner.at = "idle" /\ clone.is = "absent"

WorkKeptInv == ~torn => WorkSettled \/ Handed

LEMMA WorkInit == ArchiveInit => WorkKeptInv
  BY DEF ArchiveInit, WorkKeptInv, WorkSettled

LEMMA WorkStep ==
  Types /\ Control /\ WorkKeptInv /\ [ArchiveNext]_archiveVars => WorkKeptInv'
<1> SUFFICES ASSUME Types, Control, WorkKeptInv, [ArchiveNext]_archiveVars, ~torn'
             PROVE  WorkSettled' \/ Handed'
  BY DEF WorkKeptInv
<1>types. RunnerTypes /\ FileTypes
  BY DEF Types
<1>now. TmpIsNext /\ RefsByStep /\ CloneByStep
  BY DEF Control
<1>torn. ~torn
  BY DEF ArchiveNext, FinishStale, StartArchive, MakeTmp, SavePatches, PatchesRefused, WriteTraces, SaveRef, DropRef,
     DropBranch, RemoveClone, CloneRemoved, Rename, PickNumber, Clone, Cloned, Provision, ProvisionFails, PinHead,
     KillRunner, AgentWorks, PushHead, archiveVars
<1>work. WorkSettled \/ Handed
  BY <1>torn DEF WorkKeptInv
<1>count. /\ ArchivedCount = Len(archived) /\ Len(archived) \in Nat /\ NextK = ArchivedCount + 1
          /\ tmpDir \in TmpDirs /\ clone \in Clones /\ DOMAIN archived = 1..Len(archived)
          /\ archived \in Seq(ArchiveDirs) /\ did \in [AttemptNos -> SUBSET Kinds]
  BY <1>types, CountIsLength DEF FileTypes, NextK
<1>same. ASSUME WorkSettled, UNCHANGED <<clone, did, archived>> PROVE WorkSettled'
  BY <1>same DEF WorkSettled, InArchive, InClone
\* The patches are filed under their number.
<1>filed. ASSUME archived' = Append(archived, [of |-> tmpDir.of, work |-> tmpDir.work]), did' = did, clone' = clone
          PROVE  WorkSettled'
  <2>1. /\ archived' \in Seq(ArchiveDirs) /\ Len(archived') = Len(archived) + 1
        /\ \A i \in 1..Len(archived) : archived'[i] = archived[i]
        /\ archived'[Len(archived) + 1].of = tmpDir.of
        /\ archived'[Len(archived) + 1].work = tmpDir.work
    BY <1>count, <1>filed, AppendedDir
  <2>2. DOMAIN archived' = 1..(Len(archived) + 1)
    BY <2>1, LenProperties
  <2>3. \A a, kind : InArchive(a, kind) =>
          \E k \in DOMAIN archived' : archived'[k].of = a /\ kind \in archived'[k].work
    BY <1>count, <2>1, <2>2 DEF InArchive
  <2>4. \A a, kind : InTmp(a, kind) =>
          \E k \in DOMAIN archived' : archived'[k].of = a /\ kind \in archived'[k].work
    BY <1>count, <2>1, <2>2 DEF InTmp
  <2> QED
    BY <1>work, <1>filed, <2>3, <2>4 DEF WorkSettled, Handed, InArchive, InClone
\* A clone that is not whole held nothing.
<1>empty. ASSUME WorkSettled, clone.is # "whole" \/ clone.work = {}, UNCHANGED <<did, archived>> PROVE WorkSettled'
  BY <1>empty DEF WorkSettled, InArchive, InClone
<1>handing. runner.at \notin {"removing", "rename", "idle"} => WorkSettled
  BY <1>work DEF Handed
<1> USE DEF ArchivingSteps, WorkingSteps
<1>1. CASE FinishStale
  <2>1. CASE tmpDir.is # "absent"
    BY <1>1, <1>now, <1>count, <1>filed, <2>1 DEF FinishStale, TmpIsNext
  <2>2. CASE tmpDir.is = "absent"
    BY <1>1, <1>work, <1>same, <2>2 DEF FinishStale, Handed
  <2> QED
    BY <2>1, <2>2
<1>2. CASE StartArchive
  <2>1. WorkSettled
    BY <1>2, <1>work DEF StartArchive, Handed
  <2> QED
    BY <1>2, <1>same, <2>1 DEF StartArchive
<1>3. CASE MakeTmp \/ SavePatches \/ WriteTraces \/ SaveRef \/ DropRef \/ DropBranch \/ Provision \/ PinHead
  BY <1>3, <1>handing, <1>same DEF MakeTmp, SavePatches, WriteTraces, SaveRef, DropRef, DropBranch, Provision, PinHead, Steps
<1>4. CASE PatchesRefused \/ PickNumber \/ \E green \in BOOLEAN : PushHead(green)
  BY <1>4, <1>handing, <1>same DEF PatchesRefused, PickNumber, PushHead
<1>5. CASE RemoveClone
  <2>1. /\ runner.at = "remove" /\ runner'.at = "removing" /\ clone.is # "absent"
        /\ UNCHANGED <<did, archived, liveRef, branch, tmpDir>>
    BY <1>5, <1>types, StepFacts DEF RemoveClone
  <2>2. clone'.is = "partial"
    BY <1>5, <1>count DEF RemoveClone, Clones
  <2>3. liveRef = 0 /\ branch = 0 /\ tmpDir.is # "absent"
    BY <1>now, <2>1 DEF TmpIsNext, RefsByStep
  <2>4. \A a \in AttemptNos : \A kind \in did[a] \ {"untracked"} : InArchive(a, kind) \/ InTmp(a, kind)
    BY <1>handing, <1>now, <2>1 DEF WorkSettled, InClone, InTmp, CloneByStep
  <2>5. Handed'
    BY <2>1, <2>2, <2>3, <2>4 DEF Handed, InArchive, InTmp
  <2> QED
    BY <2>5
<1>6. CASE CloneRemoved
  <2>1. /\ runner.at \in {"remove", "removing"} /\ runner'.at = "rename" /\ clone'.is = "absent"
        /\ UNCHANGED <<did, archived, liveRef, branch, tmpDir>>
        /\ runner.at = "remove" => clone.is = "absent"
    BY <1>6, <1>types DEF CloneRemoved, RunnerTypes, NoClone
  <2>2. CASE Handed
    <3>1. Handed'
      BY <2>1, <2>2 DEF Handed, InArchive, InTmp
    <3> QED
      BY <3>1
  <2>3. CASE WorkSettled /\ clone.is # "whole"
    BY <1>empty, <2>1, <2>3
  <2>4. runner.at = "removing" => clone.is # "whole"
    BY <1>now DEF CloneByStep
  <2> QED
    BY <1>work, <2>1, <2>2, <2>3, <2>4
<1>7. CASE Rename
  BY <1>7, <1>filed DEF Rename
<1>8. CASE Clone \/ Cloned \/ ProvisionFails
  <2>1. WorkSettled /\ UNCHANGED <<did, archived>>
    BY <1>8, <1>handing DEF Clone, Cloned, ProvisionFails, Steps
  <2>2. clone.is # "whole" \/ clone.work = {}
    BY <1>8, <1>now DEF Clone, Cloned, ProvisionFails, Steps, CloneByStep
  <2> QED
    BY <1>empty, <2>1, <2>2
<1>9. ASSUME NEW kind \in Kinds, AgentWorks(kind) PROVE WorkSettled'
  <2>1. /\ runner.at = "agent" /\ archived' = archived
        /\ clone' = [clone EXCEPT !.work = @ \cup {kind}]
        /\ did' = [did EXCEPT ![clone.of] = @ \cup {kind}]
    BY <1>9 DEF AgentWorks
  <2>2. clone.is = "whole" /\ clone.of \in AttemptNos
    BY <1>now, <2>1 DEF CloneByStep
  <2>3. clone'.of = clone.of /\ clone'.is = "whole" /\ clone'.work = clone.work \cup {kind}
    BY <1>count, <2>1, <2>2 DEF Clones
  <2>4. \A a \in AttemptNos : did'[a] = IF a = clone.of THEN did[a] \cup {kind} ELSE did[a]
    BY <1>count, <2>1
  <2>5. WorkSettled
    BY <1>handing, <2>1
  <2> QED
    BY <2>1, <2>2, <2>3, <2>4, <2>5 DEF WorkSettled, InArchive, InClone
<1>10. CASE KillRunner
  <2>1. /\ runner' = Resting /\ runner.at \notin {"removing", "idle"}
        /\ UNCHANGED <<did, clone, archived, liveRef, branch, tmpDir>>
    BY <1>10 DEF KillRunner
  <2>2. CASE Handed
    <3>1. runner'.at = "idle" /\ clone.is = "absent"
      BY <1>now, <2>1, <2>2 DEF Handed, CloneByStep, Resting
    <3>2. Handed'
      BY <2>1, <2>2, <3>1 DEF Handed, InArchive, InTmp
    <3> QED
      BY <3>2
  <2> QED
    BY <1>work, <1>same, <2>1, <2>2
<1>11. CASE UNCHANGED archiveVars
  BY <1>11, <1>work DEF archiveVars, WorkSettled, Handed, InArchive, InTmp, InClone
<1> QED
  BY <1>1, <1>2, <1>3, <1>4, <1>5, <1>6, <1>7, <1>8, <1>9, <1>10, <1>11 DEF ArchiveNext

-----------------------------------------------------------------------------
(***************************************************************************)
(* The number of an attempt is new to the fork.                            *)
(***************************************************************************)

\* Among one more than there are, one is not there: the first of them is the one picked.
LEMMA FreshNumber ==
  ASSUME NEW c \in Nat, NEW F, F \subseteq Nat, IsFiniteSet(F)
  PROVE  \E m \in c..(c + Cardinality(F)) : m \notin F /\ \A i \in c..(m - 1) : i \in F
<1> DEFINE I == c..(c + Cardinality(F))
           S == I \ F
           R == {ss \in Nat \X Nat : ss[1] < ss[2]}
<1>1. Cardinality(F) \in Nat
  BY FS_CardinalityType
<1>2. IsFiniteSet(I) /\ Cardinality(I) = Cardinality(F) + 1
  BY <1>1, FS_Interval
<1>3. S # {} /\ S \subseteq Nat
  <2>1. ~ (I \subseteq F)
    <3>1. I \subseteq F => Cardinality(I) <= Cardinality(F)
      BY FS_Subset
    <3> QED
      BY <1>1, <1>2, <3>1
  <2> QED
    BY <1>1, <2>1
<1>4. IsWellFoundedOn(R, Nat)
  BY NatLessThanWellFounded, Zenon DEF OpToRel
<1>5. \A m, n \in Nat : m < n => <<m, n>> \in R
  OBVIOUS
<1>6. PICK m \in S : \A i \in S : ~ (<<i, m>> \in R)
  <2> HIDE DEF R, S
  <2> QED
    BY <1>3, <1>4, WFMin, Zenon
<1>7. ASSUME NEW i \in c..(m - 1) PROVE i \in F
  <2>1. i \in Nat /\ m \in Nat /\ i < m /\ i \in I
    BY <1>1, <1>3, <1>6
  <2> QED
    BY <1>5, <1>6, <2>1
<1> QED
  BY <1>6, <1>7

NumberTypes ==
  /\ runner.number \in Nat
  /\ forkNumbers \subseteq Nat /\ IsFiniteSet(forkNumbers)
  /\ torn \in BOOLEAN

\* The runner alone pushes, and only a number that was not there when it asked.
NumberIsNew == runner.at \in WorkingSteps \ {"number"} => runner.number \notin forkNumbers

LEMMA NumbersInit == ArchiveInit => NumberTypes /\ NumberIsNew
<1>1. ArchiveInit => runner.at = "idle" /\ runner.number = 0 /\ forkNumbers = {}
  BY DEF ArchiveInit, Resting
<1>2. ArchiveInit => IsFiniteSet(forkNumbers)
  BY <1>1, FS_EmptySet, Zenon
<1>3. ArchiveInit => torn \in BOOLEAN
  BY Zenon DEF ArchiveInit
<1> QED
  BY <1>1, <1>2, <1>3 DEF NumberTypes, NumberIsNew, WorkingSteps

LEMMA NumbersStep ==
  Types /\ NumberTypes /\ NumberIsNew /\ [ArchiveNext]_archiveVars => NumberTypes' /\ NumberIsNew'
<1> SUFFICES ASSUME Types, NumberTypes, NumberIsNew, [ArchiveNext]_archiveVars
             PROVE  NumberTypes' /\ NumberIsNew'
  OBVIOUS
<1>types. RunnerTypes /\ ArchivedCount \in Nat
  BY CountIsLength DEF Types, FileTypes
<1>rest. /\ Resting.at = "idle" /\ Resting.number = 0
         /\ [Resting EXCEPT !.at = "number"].at = "number" /\ [Resting EXCEPT !.at = "number"].number = 0
  BY DEF Resting
<1> USE DEF WorkingSteps, ArchivingSteps
\* The number and the fork stay.
<1>same. ASSUME UNCHANGED <<forkNumbers, torn>>, runner'.number = runner.number,
                runner'.at \in WorkingSteps \ {"number"} => runner.at \in WorkingSteps \ {"number"}
         PROVE  NumberTypes' /\ NumberIsNew'
  BY <1>same DEF NumberTypes, NumberIsNew
\* No attempt is under way.
<1>off. ASSUME runner'.number = 0, runner'.at \notin WorkingSteps \ {"number"}, UNCHANGED forkNumbers,
               torn' \in BOOLEAN
        PROVE  NumberTypes' /\ NumberIsNew'
  BY <1>off DEF NumberTypes, NumberIsNew
<1>step. ASSUME NEW from, NEW to \in ArchivingSteps \cup WorkingSteps, Steps(from, to)
         PROVE  runner.at = from /\ runner'.at = to /\ runner'.number = runner.number
  BY <1>step, <1>types DEF RunnerTypes, Steps
<1>1. CASE FinishStale \/ StartArchive
  <2>1. runner'.at \in {"number", "tmp"} /\ runner'.number = 0 /\ UNCHANGED <<forkNumbers, torn>>
    BY <1>1 DEF FinishStale, StartArchive, Resting
  <2> QED
    BY <1>off, <2>1 DEF NumberTypes
<1>2. CASE MakeTmp \/ SavePatches \/ WriteTraces \/ SaveRef \/ DropRef \/ DropBranch \/ RemoveClone \/ Rename
  <2>1. /\ runner'.at \in ArchivingSteps \cup {"number"} /\ runner'.number = runner.number
        /\ UNCHANGED <<forkNumbers, torn>>
    BY <1>2, <1>types
    DEF RunnerTypes, Steps, MakeTmp, SavePatches, WriteTraces, SaveRef, DropRef, DropBranch, RemoveClone, Rename
  <2> QED
    BY <1>same, <2>1
<1>3. CASE CloneRemoved
  <2>1. runner'.at = "rename" /\ runner'.number = runner.number /\ UNCHANGED <<forkNumbers, torn>>
    BY <1>3, <1>types DEF CloneRemoved, RunnerTypes
  <2> QED
    BY <1>same, <2>1
<1>4. CASE PickNumber
  <2> DEFINE first == ArchivedCount + 1
             Fits(m) == m \notin forkNumbers /\ \A i \in first..(m - 1) : i \in forkNumbers
             n == CHOOSE m \in first..(first + Cardinality(forkNumbers)) : Fits(m)
  <2>1. runner' = [Resting EXCEPT !.at = "clone", !.number = n] /\ UNCHANGED <<forkNumbers, torn>>
    BY <1>4 DEF PickNumber
  <2>2. first \in Nat /\ Cardinality(forkNumbers) \in Nat
    BY <1>types, FS_CardinalityType DEF NumberTypes
  <2>3. \E m \in first..(first + Cardinality(forkNumbers)) : Fits(m)
    BY <2>2, FreshNumber DEF NumberTypes
  <2>4. n \in first..(first + Cardinality(forkNumbers)) /\ n \notin forkNumbers
    <3> HIDE DEF first
    <3> QED
      BY <2>3
  <2>5. n \in Nat
    BY <2>2, <2>4
  <2> HIDE DEF n
  <2>6. runner'.number = n
    BY <2>1 DEF Resting
  <2> QED
    BY <2>1, <2>4, <2>5, <2>6 DEF NumberTypes, NumberIsNew
<1>5. CASE Clone \/ Cloned \/ Provision \/ PinHead
  BY <1>5, <1>same, <1>step DEF Clone, Cloned, Provision, PinHead
<1>6. ASSUME NEW kind \in Kinds, AgentWorks(kind) PROVE NumberTypes' /\ NumberIsNew'
  BY <1>6, <1>same DEF AgentWorks
<1>7. CASE PatchesRefused \/ ProvisionFails \/ KillRunner
  <2>1. runner' = Resting /\ UNCHANGED forkNumbers /\ torn' \in BOOLEAN
    BY <1>7 DEF PatchesRefused, ProvisionFails, KillRunner, NumberTypes
  <2> QED
    BY <1>off, <1>rest, <2>1
<1>8. ASSUME NEW green \in BOOLEAN, PushHead(green) PROVE NumberTypes' /\ NumberIsNew'
  <2>1. runner' = Resting /\ torn' = torn /\ forkNumbers' \in {forkNumbers, forkNumbers \cup {runner.number}}
    BY <1>8 DEF PushHead
  <2>2. IsFiniteSet(forkNumbers') /\ forkNumbers' \subseteq Nat
    BY <2>1, FS_AddElement DEF NumberTypes
  <2> QED
    BY <1>rest, <2>1, <2>2 DEF NumberTypes, NumberIsNew
<1>9. CASE UNCHANGED archiveVars
  BY <1>9, <1>same DEF archiveVars
<1> QED
  BY <1>1, <1>2, <1>3, <1>4, <1>5, <1>6, <1>7, <1>8, <1>9 DEF ArchiveNext

-----------------------------------------------------------------------------
ArchiveInv == Types /\ Control /\ SavedIsPinned /\ PinsKept /\ WorkKeptInv /\ NumberTypes /\ NumberIsNew

LEMMA ArchiveInvAlways == ArchiveSpec => []ArchiveInv
<1>1. ArchiveInit => ArchiveInv
  BY TypesInit, ControlInit, PinsInit, WorkInit, NumbersInit DEF ArchiveInv
<1>2. ArchiveInv /\ [ArchiveNext]_archiveVars => ArchiveInv'
  BY TypesStep, ControlStep, PinsStep, WorkStep, NumbersStep DEF ArchiveInv
<1> QED
  BY <1>1, <1>2, PTL DEF ArchiveSpec

\* "A half-written archive never advances the attempt number": wherever the runs are killed
\* but inside the removal of a clone, an attempt's head stays named by a ref and its commits
\* and edits stay in its clone or in patches.
THEOREM AttemptsKeptAlways == ArchiveSpec => []AttemptsKept
<1>1. ArchiveInv => AttemptsKept
  BY DEF ArchiveInv, PinsKept, Named, WorkKeptInv, WorkSettled, Handed, InArchive, InTmp, InPatches, InClone, AttemptsKept
<1> QED
  BY ArchiveInvAlways, <1>1, PTL

\* The types of what an issue's attempts leave on disk and on the fork.
THEOREM ArchiveTypeCorrect == ArchiveSpec => []ArchiveTypeOK
<1>1. ASSUME ArchiveInv PROVE ArchiveTypeOK
  <2>1. RunnerTypes /\ FileTypes /\ NumberTypes /\ pinned \subseteq AttemptNos
    BY <1>1 DEF ArchiveInv, Types, PinsKept
  <2>2. runner \in [at: ArchiveSteps, k: Nat, head: 0..MaxAttempts, number: Nat]
    BY <2>1 DEF RunnerTypes, NumberTypes, ArchivingSteps, WorkingSteps, ArchiveSteps
  <2>3. DOMAIN archived = 1..Cardinality(DOMAIN archived)
    BY <2>1, CountIsLength DEF FileTypes, ArchivedCount
  <2>4. \A k \in DOMAIN archived : archived[k] \in ArchiveDirs
    BY <2>1, ElementOfSeq, CountIsLength DEF FileTypes
  <2> QED
    BY <2>1, <2>2, <2>3, <2>4 DEF ArchiveTypeOK, FileTypes, NumberTypes, Clones, TmpDirs, ArchiveDirs
<1> QED
  BY ArchiveInvAlways, <1>1, PTL

\* work_item pushes an attempt's branch under a number the fork does not have: whatever was
\* refused, killed or archived since it was picked, the push never meets an earlier branch.
THEOREM PushesNewBranch ==
  ArchiveSpec => [][\A green \in BOOLEAN : PushHead(green) => runner.number \notin forkNumbers]_archiveVars
<1>1. ArchiveInv /\ [ArchiveNext]_archiveVars =>
        [\A green \in BOOLEAN : PushHead(green) => runner.number \notin forkNumbers]_archiveVars
  BY DEF ArchiveInv, NumberIsNew, WorkingSteps, PushHead
<1> QED
  BY ArchiveInvAlways, <1>1, PTL DEF ArchiveSpec
=============================================================================
