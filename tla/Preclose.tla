------------------------------- MODULE Preclose -------------------------------
(***************************************************************************)
(* The pre-close review of one issue: preclose_check.py and the rules of   *)
(* preclose_passes.py (plan, complete, --cluster-verdict, --post-verdict), *)
(* kill_check.py, the operator's FORCE grants (force_grant.py and the hook *)
(* that writes them) and the merge hook block_missing_preclose_inspection. *)
(*                                                                         *)
(* Every command on the receipt and on the kill receipt holds the issue's  *)
(* receipt lock to its end; a command that spends a grant does so before   *)
(* it records anything, so what it holds in between is kept in `holder`.   *)
(* The FORCE hook, `record` and the merge hook do not take that lock.      *)
(***************************************************************************)
EXTENDS Naturals, Sequences, FiniteSets, FiniteSetsExt

CONSTANTS BranchHeads, \* commits of the branch
          ChangeOf,    \* [BranchHeads -> changes]: a clean replay keeps the change
          Recorders,   \* runs of `force_grant.py record`
          MaxRan,      \* bound on the passes and forced rulings recorded
          MaxGrants,   \* bound on the FORCE lines typed
          None

Modes == {"plain", "reforge", "cluster"}

MAX_PASSES == 2

ASSUME PrecloseAssumption ==
  /\ MaxRan \in Nat /\ MaxGrants \in Nat
  /\ None \notin BranchHeads

VARIABLES
  receipt,  \* the receipt file: passes, reviewed head, check, cluster
  kill,     \* the kill-check receipt
  holder,   \* the command that holds the receipt lock and waits inside it
  forces,   \* the FORCE grants typed so far: the file holds the last one
  typing,   \* the FORCE hook between the head it read and the grant it writes
  rec,      \* [Recorders -> [pc, g]], a run of `record`
  imc,      \* the IMC waiver of the issue, as preclose sees it
  pr,       \* the head of the pull request
  bound,    \* the head an allowed merge command names
  landed,   \* the head that was merged
  ran       \* history: each pass and forced ruling recorded, and by which grant

fileVars  == <<receipt, kill, holder>>
grantVars == <<forces, typing, rec>>
prVars    == <<pr, bound, landed>>
precloseVars == <<fileVars, grantVars, imc, prVars, ran>>

-----------------------------------------------------------------------------
(***************************************************************************)
(* preclose_passes.py: what the receipt says.                              *)
(***************************************************************************)
Passes == [head: BranchHeads, surviving: BOOLEAN, epoch: Nat]

Epoch(ps) == IF ps = <<>> THEN 0 ELSE Max({ps[i].epoch : i \in DOMAIN ps})

\* current: the places of the latest epoch's passes.
Current(ps) == {i \in DOMAIN ps : ps[i].epoch = Epoch(ps)}

Reviewed(ps) == ps[Max(Current(ps))]

\* accepts: the same head, or a replay that git could compute and that agrees.
Accepts(recorded, h, replayed) ==
  h = recorded \/ (replayed /\ ChangeOf[h] = ChangeOf[recorded])

\* A mutant: the head last planned, reviewed or not.
CoveredByPlan(ps, h, replayed) == receipt.reviewed # None /\ Accepts(receipt.reviewed, h, replayed)

Covered(ps, h, replayed) == ps # <<>> /\ Accepts(Reviewed(ps).head, h, replayed)

\* cap_message is STICKY_WICKET: the last two passes of the epoch left findings.
Sticky(ps) ==
  /\ Cardinality(Current(ps)) >= MAX_PASSES
  /\ Reviewed(ps).surviving
  /\ ps[Max(Current(ps) \ {Max(Current(ps))})].surviving

\* _mechanism_cluster: a cluster of an older epoch is dropped by every write.
ClusterOf(e) == IF receipt.cluster # None /\ receipt.cluster.epoch = e
                THEN receipt.cluster ELSE None

CurrentCluster == ClusterOf(Epoch(receipt.passes))

\* refusal, for a run without --force.
MayReview(h, replayed) ==
  /\ ~Covered(receipt.passes, h, replayed)
  /\ CurrentCluster # None => CurrentCluster.verdict = "PATCH"
  /\ Cardinality(Current(receipt.passes)) < MAX_PASSES

\* refusal with --force --reforge.
MayReforge(h, replayed) == ~Covered(receipt.passes, h, replayed)

\* refusal with --force alone, then post_verdict_refusal.
MayForce(h) ==
  /\ CurrentCluster # None => receipt.cluster.verdict # "REFORGE"
  /\ Sticky(receipt.passes) => receipt.check # None /\ receipt.check.head = h

\* check_pass_cap
PassAllowed(mode, h, replayed) ==
  CASE mode = "no"      -> MayReview(h, replayed)
    [] mode = "reforge" -> MayReforge(h, replayed)
    [] mode = "plain"   -> MayForce(h)

\* force_head: a post-verdict check counts only on the latest pass.
ForceHead ==
  LET ps == receipt.passes IN
  IF receipt.check # None /\ ps # <<>> /\ receipt.check.base = Reviewed(ps).head
    THEN receipt.check.head
  ELSE IF ps # <<>> THEN ps[Len(ps)].head
  ELSE receipt.reviewed

-----------------------------------------------------------------------------
GrantRecords == [mode: Modes, head: BranchHeads, live: BOOLEAN, posted: BOOLEAN,
                 opened: BOOLEAN, status: {"pending", "usable", "consumed"}]

HolderJobs == {None}
  \cup [op: {"kill"}, head: BranchHeads]
  \cup [op: {"force", "spent"}, mode: Modes, head: BranchHeads, grant: Nat, verdict: {"none", "PATCH", "REFORGE"}]

RanEntries == [mode: Modes \cup {"no"}, head: BranchHeads, epoch: Nat, grant: Nat,
            sticky: BOOLEAN, checked: Nat \cup {None}]

PrecloseTypeOK ==
  /\ receipt.passes \in Seq(Passes)
  /\ receipt.reviewed \in BranchHeads \cup {None}
  /\ receipt.check \in {None} \cup [base: BranchHeads, head: BranchHeads, epoch: Nat]
  /\ receipt.cluster \in {None} \cup [epoch: Nat, verdict: {"none", "PATCH", "REFORGE"}]
  /\ kill \in {None} \cup [head: BranchHeads, is: {"running", "pass", "fail", "waived"}]
  /\ holder \in HolderJobs
  /\ forces \in Seq(GrantRecords)
  /\ typing \in {None} \cup [mode: Modes, head: BranchHeads]
  /\ rec \in [Recorders -> [pc: {"idle", "post", "posted"}, g: Nat]]
  /\ imc \in {"none", "hook", "pending", "recorded"}
  /\ pr \in BranchHeads /\ bound \in BranchHeads \cup {None} /\ landed \in BranchHeads \cup {None}
  /\ ran \in Seq(RanEntries)

IdleRecorder == [pc |-> "idle", g |-> 0]

PrecloseInit ==
  /\ receipt = [passes |-> <<>>, reviewed |-> None, check |-> None, cluster |-> None]
  /\ kill = None
  /\ holder = None
  /\ forces = <<>>
  /\ typing = None
  /\ rec = [r \in Recorders |-> IdleRecorder]
  /\ imc = "none"
  /\ pr \in BranchHeads
  /\ bound = None
  /\ landed = None
  /\ ran = <<>>

-----------------------------------------------------------------------------
(***************************************************************************)
(* The FORCE grant: typed, posted, usable, spent.                          *)
(***************************************************************************)
File == Len(forces)

\* require and consume: the grant in the file, usable, unexpired, of this mode and head.
Usable(mode, h) ==
  /\ forces # <<>>
  /\ forces[File].status = "usable" /\ forces[File].live
  /\ forces[File].mode = mode /\ forces[File].head = h

\* _authorize_force reads the receipt without its lock; a reforge names its own head.
HookRead(mode, h) ==
  /\ typing = None /\ File < MaxGrants
  /\ mode # "reforge" => h = ForceHead
  /\ typing' = [mode |-> mode, head |-> h]
  /\ UNCHANGED <<fileVars, forces, rec, imc, prVars, ran>>

HookWrite ==
  /\ typing # None
  /\ forces' = Append(forces, [mode |-> typing.mode, head |-> typing.head, live |-> TRUE,
                               posted |-> FALSE, opened |-> FALSE, status |-> "pending"])
  /\ typing' = None
  /\ UNCHANGED <<fileVars, rec, imc, prVars, ran>>

\* record: the pending, unexpired grant in the file is the one to post.
RecordRead(r) ==
  /\ rec[r].pc = "idle" /\ forces # <<>>
  /\ forces[File].live /\ forces[File].status = "pending"
  /\ rec' = [rec EXCEPT ![r] = [pc |-> "post", g |-> File]]
  /\ UNCHANGED <<fileVars, forces, typing, imc, prVars, ran>>

RecordPost(r) ==
  /\ rec[r].pc = "post"
  /\ forces' = [forces EXCEPT ![rec[r].g].posted = TRUE]
  /\ rec' = [rec EXCEPT ![r].pc = "posted"]
  /\ UNCHANGED <<fileVars, typing, imc, prVars, ran>>

\* A mutant: whatever grant is in the file by now.
RecordFinishUnchecked(r) ==
  /\ rec[r].pc = "posted"
  /\ forces' = [forces EXCEPT ![File].status = "usable", ![File].opened = forces[File].live]
  /\ rec' = [rec EXCEPT ![r] = IdleRecorder]
  /\ UNCHANGED <<fileVars, typing, imc, prVars, ran>>

\* Under the grant lock: only the grant it posted, and only if still pending.  It may
\* have expired by now (`opened` is history: usable before it expired).
RecordFinish(r) ==
  /\ rec[r].pc = "posted"
  /\ forces' = IF File = rec[r].g /\ forces[File].status = "pending"
               THEN [forces EXCEPT ![File].status = "usable", ![File].opened = forces[File].live]
               ELSE forces
  /\ rec' = [rec EXCEPT ![r] = IdleRecorder]
  /\ UNCHANGED <<fileVars, typing, imc, prVars, ran>>

\* A post or a refetch that fails, or a kill: the next run posts again.
RecordDie(r) ==
  /\ rec[r].pc # "idle"
  /\ rec' = [rec EXCEPT ![r] = IdleRecorder]
  /\ UNCHANGED <<fileVars, forces, typing, imc, prVars, ran>>

ForceExpires ==
  /\ forces # <<>> /\ forces[File].live
  /\ forces' = [forces EXCEPT ![File].live = FALSE]
  /\ UNCHANGED <<fileVars, typing, rec, imc, prVars, ran>>

-----------------------------------------------------------------------------
(***************************************************************************)
(* The commands under the receipt lock.                                    *)
(***************************************************************************)

\* A mutant: a plan starts the count again.
CarriedNoPasses(reviewed) == [receipt EXCEPT !.reviewed = reviewed, !.passes = <<>>, !.cluster = None]

\* carried: what a write that completes no pass keeps.
Carried(reviewed) == [receipt EXCEPT !.reviewed = reviewed, !.cluster = CurrentCluster]

KillCovers(h, replayed) ==
  kill # None /\ kill.is \in {"pass", "waived"} /\ Accepts(kill.head, h, replayed)

\* plan: checks a force's grant but does not spend it.
Plan(mode, h, replayed) ==
  /\ holder = None
  /\ IF mode = "no" THEN imc \in {"none", "recorded"} ELSE imc = "none"
  /\ PassAllowed(mode, h, replayed)
  /\ IF mode = "no" THEN KillCovers(h, replayed) ELSE Usable(mode, h)
  /\ receipt' = Carried(h)
  /\ UNCHANGED <<kill, holder, grantVars, imc, prVars, ran>>

\* record: one pass more, a new epoch for a reforge, and perhaps a cluster of findings.
Recorded(mode, h, surviving, clustered) ==
  LET epoch == Epoch(receipt.passes) + (IF mode = "reforge" THEN 1 ELSE 0)
      ps == Append(receipt.passes, [head |-> h, surviving |-> surviving, epoch |-> epoch])
  IN  [receipt EXCEPT
         !.passes = ps,
         !.reviewed = h,
         !.cluster = IF ClusterOf(epoch) # None THEN ClusterOf(epoch)
                     ELSE IF clustered /\ Cardinality(Current(ps)) = 1
                          THEN [epoch |-> epoch, verdict |-> "none"] ELSE None]

Entry(mode, h, epoch, g) ==
  [mode |-> mode, head |-> h, epoch |-> epoch, grant |-> g, sticky |-> Sticky(receipt.passes),
   checked |-> IF receipt.check = None THEN None ELSE receipt.check.epoch]

Complete(mode, h, g, surviving, clustered) ==
  /\ clustered => surviving
  /\ receipt' = Recorded(mode, h, surviving, clustered)
  /\ ran' = Append(ran, Entry(mode, h, Epoch(receipt'.passes), g))

\* complete without --force: it asks neither for a plan nor for the kill receipt.
CompletePass(h, surviving, clustered, replayed) ==
  /\ holder = None /\ Len(ran) < MaxRan
  /\ PassAllowed("no", h, replayed)
  /\ Complete("no", h, 0, surviving, clustered)
  /\ UNCHANGED <<kill, holder, grantVars, imc, prVars>>

\* A command with --force, past its own refusals.
StartForce(mode, h, replayed) ==
  /\ holder = None /\ Len(ran) < MaxRan
  /\ imc \notin {"pending", "recorded"}
  /\ mode # "cluster" /\ PassAllowed(mode, h, replayed)
  /\ holder' = [op |-> "force", mode |-> mode, head |-> h, grant |-> 0, verdict |-> "none"]
  /\ UNCHANGED <<receipt, kill, grantVars, imc, prVars, ran>>

StartCorrection(verdict) ==
  /\ holder = None /\ Len(ran) < MaxRan
  /\ imc \notin {"pending", "recorded"}
  /\ CurrentCluster # None /\ ForceHead # None
  /\ holder' = [op |-> "force", mode |-> "cluster", head |-> ForceHead, grant |-> 0,
                verdict |-> verdict]
  /\ UNCHANGED <<receipt, kill, grantVars, imc, prVars, ran>>

\* A mutant: require without consume.
ReserveUnspent ==
  /\ holder # None /\ holder.op = "force"
  /\ Usable(holder.mode, holder.head)
  /\ holder' = [holder EXCEPT !.op = "spent", !.grant = File]
  /\ UNCHANGED <<receipt, kill, grantVars, imc, prVars, ran>>

\* reserve_force_grant: spent before anything is recorded.
Reserve ==
  /\ holder # None /\ holder.op = "force"
  /\ Usable(holder.mode, holder.head)
  /\ forces' = [forces EXCEPT ![File].status = "consumed"]
  /\ holder' = [holder EXCEPT !.op = "spent", !.grant = File]
  /\ UNCHANGED <<receipt, kill, typing, rec, imc, prVars, ran>>

RecordForced(surviving, clustered) ==
  /\ holder # None /\ holder.op = "spent" /\ holder.mode # "cluster"
  /\ Complete(holder.mode, holder.head, holder.grant, surviving, clustered)
  /\ holder' = None
  /\ UNCHANGED <<kill, grantVars, imc, prVars>>

Ruled(verdict) == [Carried(receipt.reviewed) EXCEPT !.cluster = [CurrentCluster EXCEPT !.verdict = verdict]]

RecordCorrection ==
  /\ holder # None /\ holder.op = "spent" /\ holder.mode = "cluster"
  /\ receipt' = Ruled(holder.verdict)
  /\ ran' = Append(ran, Entry("cluster", holder.head, Epoch(receipt.passes), holder.grant))
  /\ holder' = None
  /\ UNCHANGED <<kill, grantVars, imc, prVars>>

\* The grant is refused, the findings or the envelope are bad, or the process dies: a
\* grant already spent stays spent ("reserved-not-recorded").
ForceGivesUp ==
  /\ holder # None
  /\ holder' = None
  /\ UNCHANGED <<receipt, kill, grantVars, imc, prVars, ran>>

ClusterVerdict(verdict) ==
  /\ holder = None
  /\ CurrentCluster # None /\ CurrentCluster.verdict = "none"
  /\ receipt' = Ruled(verdict)
  /\ UNCHANGED <<kill, holder, grantVars, imc, prVars, ran>>

\* The reviewed head stays: recording the check alone covers no new head.
PostVerdict(base, h, replayed) ==
  /\ holder = None
  /\ Sticky(receipt.passes)
  /\ Accepts(Reviewed(receipt.passes).head, base, replayed)
  /\ base # h
  /\ receipt' = [Carried(receipt.reviewed) EXCEPT
                   !.check = [base |-> base, head |-> h, epoch |-> Epoch(receipt.passes)]]
  /\ UNCHANGED <<kill, holder, grantVars, imc, prVars, ran>>

\* kill_check run: the old answer is gone before the first check runs.
KillStart(h) ==
  /\ holder = None
  /\ kill' = [head |-> h, is |-> "running"]
  /\ holder' = [op |-> "kill", head |-> h]
  /\ UNCHANGED <<receipt, grantVars, imc, prVars, ran>>

KillEnd(is) ==
  /\ holder # None /\ holder.op = "kill"
  /\ kill' = [head |-> holder.head, is |-> is]
  /\ holder' = None
  /\ UNCHANGED <<receipt, grantVars, imc, prVars, ran>>

Waive(h) ==
  /\ holder = None
  /\ kill' = [head |-> h, is |-> "waived"]
  /\ UNCHANGED <<receipt, holder, grantVars, imc, prVars, ran>>

\* imc_waiver.py: the line typed, the receipt pending, then recorded, and its end.
WaiverMoves(to) ==
  /\ <<imc, to>> \in {<<"none", "hook">>, <<"hook", "none">>, <<"hook", "pending">>,
                      <<"pending", "recorded">>, <<"pending", "none">>, <<"recorded", "none">>}
  /\ imc' = to
  /\ UNCHANGED <<fileVars, grantVars, prVars, ran>>

-----------------------------------------------------------------------------
(***************************************************************************)
(* The merge: the hook binds the command to the head it accepted.          *)
(***************************************************************************)
PushHead(h) ==
  /\ landed = None /\ pr # h
  /\ pr' = h
  /\ UNCHANGED <<fileVars, grantVars, imc, bound, landed, ran>>

\* _preclose_receipt_ok and --match-head-commit; the receipt is read without the lock.
AllowMerge(replayed) ==
  /\ landed = None /\ bound = None
  /\ Covered(receipt.passes, pr, replayed)
  /\ bound' = pr
  /\ UNCHANGED <<fileVars, grantVars, imc, pr, landed, ran>>

\* GitHub refuses a merge whose named head is not the head any more.
MergeLands ==
  /\ bound # None
  /\ bound' = None
  /\ landed' = IF pr = bound THEN pr ELSE landed
  /\ UNCHANGED <<fileVars, grantVars, imc, pr, ran>>

-----------------------------------------------------------------------------
LockedSteps ==
  \/ \E mode \in Modes \cup {"no"}, h \in BranchHeads, replayed \in BOOLEAN :
       mode # "cluster" /\ Plan(mode, h, replayed)
  \/ \E h \in BranchHeads, surviving, clustered, replayed \in BOOLEAN :
       CompletePass(h, surviving, clustered, replayed)
  \/ \E mode \in Modes, h \in BranchHeads, replayed \in BOOLEAN : StartForce(mode, h, replayed)
  \/ \E verdict \in {"PATCH", "REFORGE"} : StartCorrection(verdict) \/ ClusterVerdict(verdict)
  \/ Reserve
  \/ \E surviving, clustered \in BOOLEAN : RecordForced(surviving, clustered)
  \/ RecordCorrection
  \/ ForceGivesUp
  \/ \E base, h \in BranchHeads, replayed \in BOOLEAN : PostVerdict(base, h, replayed)
  \/ \E h \in BranchHeads : KillStart(h) \/ Waive(h)
  \/ \E is \in {"pass", "fail"} : KillEnd(is)

Others ==
  \/ \E mode \in Modes, h \in BranchHeads : HookRead(mode, h)
  \/ HookWrite
  \/ \E r \in Recorders : RecordRead(r) \/ RecordPost(r) \/ RecordFinish(r) \/ RecordDie(r)
  \/ ForceExpires
  \/ \E to \in {"none", "hook", "pending", "recorded"} : WaiverMoves(to)
  \/ \E h \in BranchHeads : PushHead(h)
  \/ \E replayed \in BOOLEAN : AllowMerge(replayed)
  \/ MergeLands

PrecloseNext == LockedSteps \/ Others

PrecloseSpec == PrecloseInit /\ [][PrecloseNext]_precloseVars

-----------------------------------------------------------------------------
(***************************************************************************)
(* What must hold.                                                         *)
(***************************************************************************)

\* "a head that moves after this check would merge unreviewed": what was merged is the
\* change of a completed pass, whatever was pushed, planned or typed in between.
MergedWasReviewed ==
  landed # None =>
    \E i \in DOMAIN ran : ran[i].mode # "cluster" /\ ChangeOf[ran[i].head] = ChangeOf[landed]

\* check_pass_cap, "at most two passes per issue": an unforced pass is the first or the
\* second of its epoch, whatever plans, rulings, checks and reforges were written between.
CapHolds ==
  \A i \in DOMAIN ran :
    ran[i].mode = "no" =>
      Cardinality({j \in 1..(i - 1) : ran[j].mode # "cluster" /\ ran[j].epoch = ran[i].epoch})
        < MAX_PASSES

\* force_grant.py: each forced pass and each corrected ruling has a posted, spent grant
\* of its mode and head, and no two have the same.
ForcesOnRecord ==
  \A i \in DOMAIN ran :
    ran[i].mode # "no" =>
      LET g == ran[i].grant
      IN  /\ g \in DOMAIN forces
          /\ forces[g].posted /\ forces[g].status = "consumed"
          /\ forces[g].mode = ran[i].mode /\ forces[g].head = ran[i].head
          /\ \A j \in DOMAIN ran \ {i} : ran[j].grant # g

\* POST_VERDICT_REQUIRED, "before the operator's --force covers this head, one cross-family
\* refuter must read the patch since pass 2": of the passes of this epoch.
PatchReadSincePass2 ==
  \A i \in DOMAIN ran :
    ran[i].mode = "plain" /\ ran[i].sticky => ran[i].checked = ran[i].epoch

\* SingleUseGrant: FORCE grants seen as single-use grants.
Standing(g) ==
  IF g \notin DOMAIN forces THEN "unminted"
  ELSE IF forces[g].status = "consumed" THEN "spent"
  ELSE IF ~forces[g].live \/ g # File THEN "void"
  ELSE IF forces[g].status = "pending" THEN "unminted" ELSE "open"

Runs(g) == Cardinality({i \in DOMAIN ran : ran[i].grant = g})

Opened(g) == IF g \in DOMAIN forces /\ forces[g].opened
             THEN [mode |-> forces[g].mode, head |-> forces[g].head] ELSE None

AllStandings == [g \in 1..MaxGrants |-> Standing(g)]
AllOpened    == [g \in 1..MaxGrants |-> Opened(g)]
AllRuns      == [g \in 1..MaxGrants |-> Runs(g)]

Contract == INSTANCE SingleUseGrant WITH
  Nonces <- 1..MaxGrants,
  Approvals <- [mode: Modes, head: BranchHeads],
  NoApproval <- None,
  state <- AllStandings,
  approves <- AllOpened,
  runs <- AllRuns

\* A FORCE grant opens once, for one mode and head, and buys at most one forced record:
\* Contract!Spec, of which a step shows only when it changes a grant or adds a pass.
ForceContract ==
  Contract!Init /\ [][<<forces, ran>>' # <<forces, ran>> => Contract!Next]_(Contract!vars)
=============================================================================
