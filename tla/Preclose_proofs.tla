---------------------------- MODULE Preclose_proofs ----------------------------
(***************************************************************************)
(* Proofs about Preclose, for any number of heads, recorders, passes and   *)
(* FORCE lines.                                                            *)
(***************************************************************************)
EXTENDS Preclose, SequenceTheorems, FiniteSetTheorems, TLAPS

-----------------------------------------------------------------------------
(***************************************************************************)
(* Epochs only grow, so the passes of the latest epoch are the last ones.  *)
(***************************************************************************)
Grows(ps) == \A i, j \in DOMAIN ps : i <= j => ps[i].epoch <= ps[j].epoch

LEMMA PassFacts ==
  ASSUME NEW ps \in Seq(Passes)
  PROVE  /\ Len(ps) \in Nat /\ DOMAIN ps = 1..Len(ps)
         /\ \A i \in DOMAIN ps : /\ ps[i] \in Passes
                                 /\ ps[i].epoch \in Nat /\ ps[i].head \in BranchHeads
         /\ ps # <<>> => Len(ps) \in DOMAIN ps
<1>1. Len(ps) \in Nat /\ DOMAIN ps = 1..Len(ps)
  BY LenProperties
<1>2. \A i \in DOMAIN ps : ps[i] \in Passes
  BY <1>1, ElementOfSeq
<1>3. ps # <<>> => Len(ps) # 0
  BY EmptySeq
<1> QED
  BY <1>1, <1>2, <1>3 DEF Passes

LEMMA EpochIsLast ==
  ASSUME NEW ps \in Seq(Passes), Grows(ps)
  PROVE  /\ ps = <<>> => Epoch(ps) = 0
         /\ ps # <<>> => Epoch(ps) = ps[Len(ps)].epoch
         /\ Epoch(ps) \in Nat
         /\ \A i \in DOMAIN ps : ps[i].epoch <= Epoch(ps)
<1>1. ps = <<>> => Epoch(ps) = 0
  BY DEF Epoch
<1>2. ASSUME ps # <<>> PROVE Epoch(ps) = ps[Len(ps)].epoch
  <2> DEFINE S == {ps[i].epoch : i \in DOMAIN ps}
             e == ps[Len(ps)].epoch
  <2>1. e \in S /\ S \subseteq Nat
    BY <1>2, PassFacts
  <2>2. \A y \in S : e >= y
    BY <1>2, PassFacts DEF Grows
  <2> HIDE DEF S, e
  <2>3. \A x \in S : (\A y \in S : x >= y) => x = e
    <3> SUFFICES ASSUME NEW x \in S, \A y \in S : x >= y PROVE x = e
      OBVIOUS
    <3>1. x \in Nat /\ e \in Nat /\ x >= e /\ e >= x
      BY <2>1, <2>2
    <3> QED
      BY <3>1
  <2>4. Max(S) = e
    BY <2>1, <2>2, <2>3 DEF Max
  <2> QED
    BY <1>2, <2>4 DEF Epoch, S, e
<1>3. \A i \in DOMAIN ps : ps # <<>> /\ ps[i].epoch <= ps[Len(ps)].epoch
  BY PassFacts, EmptySeq DEF Grows
<1> QED
  BY <1>1, <1>2, <1>3, PassFacts

LEMMA ReviewedIsLast ==
  ASSUME NEW ps \in Seq(Passes), Grows(ps), ps # <<>>
  PROVE  Reviewed(ps) = ps[Len(ps)]
<1>1. Len(ps) \in Current(ps) /\ \A i \in Current(ps) : i \in Nat /\ i <= Len(ps)
  BY PassFacts, EpochIsLast DEF Current
<1>2. \A x \in Current(ps) : (\A y \in Current(ps) : x >= y) => x = Len(ps)
  BY <1>1, PassFacts
<1>3. \A y \in Current(ps) : Len(ps) >= y
  BY <1>1, PassFacts
<1>4. Max(Current(ps)) = Len(ps)
  BY <1>1, <1>2, <1>3 DEF Max
<1> QED
  BY <1>4 DEF Reviewed

LEMMA GrowsOn ==
  ASSUME NEW ps \in Seq(Passes), Grows(ps), NEW p \in Passes, Epoch(ps) <= p.epoch
  PROVE  /\ Append(ps, p) \in Seq(Passes) /\ Grows(Append(ps, p))
         /\ Epoch(Append(ps, p)) = p.epoch
<1>1. p.epoch \in Nat
  BY DEF Passes
<1>2. Append(ps, p) \in Seq(Passes) /\ Append(ps, p) # <<>>
  BY AppendProperties
<1>3. /\ Len(Append(ps, p)) = Len(ps) + 1
      /\ \A i \in 1..Len(ps) : Append(ps, p)[i] = ps[i]
      /\ Append(ps, p)[Len(ps) + 1] = p
  BY AppendProperties
<1>4. \A i \in DOMAIN ps : ps[i].epoch <= p.epoch
  BY <1>1, EpochIsLast, PassFacts
<1>5. DOMAIN Append(ps, p) = 1..(Len(ps) + 1) /\ DOMAIN ps = 1..Len(ps) /\ Len(ps) \in Nat
  BY <1>2, <1>3, PassFacts
<1>6. Grows(Append(ps, p))
  BY <1>1, <1>3, <1>4, <1>5 DEF Grows
<1> QED
  BY <1>2, <1>3, <1>6, EpochIsLast

-----------------------------------------------------------------------------
(***************************************************************************)
(* Types.                                                                  *)
(***************************************************************************)
Checks == [base: BranchHeads, head: BranchHeads, epoch: Nat]
Clusters == [epoch: Nat, verdict: {"none", "PATCH", "REFORGE"}]
ReceiptRecords == [passes: Seq(Passes), reviewed: BranchHeads \cup {None},
             check: {None} \cup Checks, cluster: {None} \cup Clusters]

ReceiptTypes == receipt \in ReceiptRecords /\ Grows(receipt.passes)

OtherTypes ==
  /\ kill \in {None} \cup [head: BranchHeads, is: {"running", "pass", "fail", "waived"}]
  /\ holder \in HolderJobs
  /\ imc \in {"none", "hook", "pending", "recorded"}
  /\ pr \in BranchHeads /\ bound \in BranchHeads \cup {None} /\ landed \in BranchHeads \cup {None}

GrantTypes ==
  /\ forces \in Seq(GrantRecords)
  /\ typing \in {None} \cup [mode: Modes, head: BranchHeads]
  /\ rec \in [Recorders -> [pc: {"idle", "post", "posted"}, g: Nat]]
  /\ \A r \in Recorders : rec[r].pc # "idle" => rec[r].g \in DOMAIN forces

RanTypes == ran \in Seq(RanEntries)

\* The receipt lock is held from the cluster it names to the ruling on it.
ClusterHeld ==
  holder # None /\ holder.op \in {"force", "spent"} /\ holder.mode = "cluster" => CurrentCluster # None

PrecloseTypes == ReceiptTypes /\ OtherTypes /\ GrantTypes /\ RanTypes /\ ClusterHeld

LEMMA TypesInit == PrecloseInit => PrecloseTypes
<1> SUFFICES ASSUME PrecloseInit PROVE PrecloseTypes
  OBVIOUS
<1> USE DEF PrecloseInit
<1>1. ReceiptTypes
  BY DEF ReceiptTypes, ReceiptRecords, Grows
<1>2. OtherTypes
  BY DEF OtherTypes, HolderJobs
<1>3. GrantTypes
  BY DEF GrantTypes, IdleRecorder
<1>4. RanTypes
  BY DEF RanTypes
<1>5. ClusterHeld
  BY DEF ClusterHeld
<1> QED
  BY <1>1, <1>2, <1>3, <1>4, <1>5 DEF PrecloseTypes

\* A write that completes no pass.
LEMMA CarriedTypes ==
  ASSUME ReceiptTypes, NEW h \in BranchHeads \cup {None}
  PROVE  /\ Carried(h) \in ReceiptRecords /\ Carried(h).passes = receipt.passes
         /\ CurrentCluster \in {None} \cup Clusters
         /\ \A v \in {"none", "PATCH", "REFORGE"} : CurrentCluster # None =>
              Ruled(v) \in ReceiptRecords /\ Ruled(v).passes = receipt.passes
<1>1. CurrentCluster \in {None} \cup Clusters
  BY DEF CurrentCluster, ClusterOf, ReceiptTypes, ReceiptRecords
<1>2. ASSUME NEW k \in BranchHeads \cup {None}
      PROVE  Carried(k) \in ReceiptRecords /\ Carried(k).passes = receipt.passes
  BY <1>1, <1>2 DEF Carried, ReceiptTypes, ReceiptRecords
<1>3. receipt.reviewed \in BranchHeads \cup {None}
  BY DEF ReceiptTypes, ReceiptRecords
<1>4. ASSUME NEW v \in {"none", "PATCH", "REFORGE"}, CurrentCluster # None
      PROVE  Ruled(v) \in ReceiptRecords /\ Ruled(v).passes = receipt.passes
  <2>1. [CurrentCluster EXCEPT !.verdict = v] \in Clusters
    BY <1>1, <1>4 DEF Clusters
  <2> QED
    BY <1>2, <1>3, <2>1 DEF Ruled, ReceiptRecords
<1> QED
  BY <1>1, <1>2, <1>4

\* What is sticky is so or not: two passes of the epoch at least, and what they say.
LEMMA StickyIsBoolean == ASSUME NEW ps PROVE Sticky(ps) \in BOOLEAN
  BY DEF Sticky

\* What a completed pass writes: one pass more, of this or the next epoch, and its entry.
LEMMA CompleteWrites ==
  ASSUME ReceiptTypes, RanTypes, NEW mode \in Modes \cup {"no"}, NEW h \in BranchHeads, NEW g \in Nat,
         NEW surviving \in BOOLEAN, NEW clustered \in BOOLEAN, Complete(mode, h, g, surviving, clustered)
  PROVE  /\ ReceiptTypes' /\ RanTypes'
         /\ \E p \in Passes, x \in RanEntries :
              /\ receipt'.passes = Append(receipt.passes, p) /\ ran' = Append(ran, x)
              /\ p.head = h /\ x.head = h /\ x.mode = mode /\ x.grant = g
              /\ x.epoch = p.epoch
              /\ mode # "reforge" => p.epoch = Epoch(receipt.passes)
<1> DEFINE e == Epoch(receipt.passes) + (IF mode = "reforge" THEN 1 ELSE 0)
           p == [head |-> h, surviving |-> surviving, epoch |-> e]
           x == Entry(mode, h, e, g)
<1>0. receipt.passes \in Seq(Passes) /\ Grows(receipt.passes)
  BY DEF ReceiptTypes, ReceiptRecords
<1>1. e \in Nat /\ Epoch(receipt.passes) <= e
  BY <1>0, EpochIsLast
<1>2. p \in Passes /\ p.epoch = e /\ p.head = h
  BY <1>1 DEF Passes
<1>3. receipt' = Recorded(mode, h, surviving, clustered)
  BY DEF Complete
<1>4. receipt'.passes = Append(receipt.passes, p) /\ receipt' \in ReceiptRecords
  <2>1. ClusterOf(e) \in {None} \cup Clusters
    BY DEF ClusterOf, ReceiptTypes, ReceiptRecords
  <2>2. [epoch |-> e, verdict |-> "none"] \in Clusters
    BY <1>1 DEF Clusters
  <2>3. Append(receipt.passes, p) \in Seq(Passes)
    BY <1>0, <1>2
  <2> HIDE DEF e
  <2> QED
    BY <1>3, <2>1, <2>2, <2>3 DEF Recorded, ReceiptTypes, ReceiptRecords, e
<1>5. Grows(receipt'.passes) /\ Epoch(receipt'.passes) = e
  BY <1>0, <1>1, <1>2, <1>4, GrowsOn
<1>6. x \in RanEntries /\ x.head = h /\ x.mode = mode /\ x.grant = g /\ x.epoch = e
  <2>1. (IF receipt.check = None THEN None ELSE receipt.check.epoch) \in Nat \cup {None}
    BY DEF ReceiptTypes, ReceiptRecords, Checks
  <2>2. Sticky(receipt.passes) \in BOOLEAN
    BY StickyIsBoolean
  <2> QED
    BY <1>1, <2>1, <2>2 DEF Entry, RanEntries
<1>7. ran' = Append(ran, x)
  BY <1>5 DEF Complete
<1>8. ran' \in Seq(RanEntries)
  BY <1>6, <1>7 DEF RanTypes
<1>9. mode # "reforge" => e = Epoch(receipt.passes)
  BY <1>0, EpochIsLast
<1> HIDE DEF e, p, x
<1> QED
  BY <1>2, <1>4, <1>5, <1>6, <1>7, <1>8, <1>9 DEF ReceiptTypes, RanTypes

\* The ways a step touches the passes and the history.
PassesStay == receipt'.passes = receipt.passes /\ ran' = ran

Pays(x) ==
  /\ holder # None /\ holder.op = "spent" /\ holder' = None /\ forces' = forces
  /\ x.mode = holder.mode /\ x.head = holder.head /\ x.grant = holder.grant

Unforced(x) ==
  /\ x.mode = "no" /\ x.grant = 0 /\ x.epoch = Epoch(receipt.passes)
  /\ Cardinality(Current(receipt.passes)) < MAX_PASSES
  /\ holder = None /\ holder' = None /\ forces' = forces

Completes(p, x) ==
  /\ receipt'.passes = Append(receipt.passes, p) /\ ran' = Append(ran, x)
  /\ p.head = x.head /\ p.epoch = x.epoch /\ x.mode # "cluster"
  /\ Unforced(x) \/ Pays(x)

Corrects(x) ==
  receipt'.passes = receipt.passes /\ ran' = Append(ran, x) /\ x.mode = "cluster" /\ Pays(x)

PassesMove ==
  \/ PassesStay
  \/ \E p \in Passes, x \in RanEntries : Completes(p, x)
  \/ \E x \in RanEntries : Corrects(x)

LEMMA HolderFacts ==
  ASSUME OtherTypes, holder # None
  PROVE  /\ holder.op \in {"force", "spent"} =>
              /\ holder.mode \in Modes /\ holder.head \in BranchHeads /\ holder.grant \in Nat
              /\ holder.verdict \in {"none", "PATCH", "REFORGE"}
         /\ holder.op \in {"kill", "force", "spent"} /\ holder.head \in BranchHeads
  BY DEF OtherTypes, HolderJobs

LEMMA PassesMoveStep ==
  ASSUME PrecloseTypes, [PrecloseNext]_precloseVars
  PROVE  ReceiptTypes' /\ RanTypes' /\ PassesMove
<1> DEFINE Goal == ReceiptTypes' /\ RanTypes' /\ PassesMove
<1>types. ReceiptTypes /\ OtherTypes /\ GrantTypes /\ RanTypes /\ ClusterHeld
  BY DEF PrecloseTypes
<1>reviewed. receipt.reviewed \in BranchHeads \cup {None} /\ receipt.passes \in Seq(Passes)
  BY <1>types DEF ReceiptTypes, ReceiptRecords
\* Same passes and no new entry.
<1>quiet. ASSUME receipt' \in ReceiptRecords, receipt'.passes = receipt.passes, ran' = ran PROVE Goal
  BY <1>quiet, <1>types DEF PassesMove, PassesStay, ReceiptTypes, RanTypes
<1>1. ASSUME receipt' = receipt, ran' = ran PROVE Goal
  BY <1>1, <1>quiet, <1>types DEF ReceiptTypes
<1>2. ASSUME NEW mode \in Modes \cup {"no"}, NEW h \in BranchHeads, NEW replayed \in BOOLEAN, Plan(mode, h, replayed)
      PROVE  Goal
  BY <1>2, <1>quiet, <1>types, CarriedTypes DEF Plan
<1>3. ASSUME NEW h \in BranchHeads, NEW surviving \in BOOLEAN, NEW clustered \in BOOLEAN, NEW replayed \in BOOLEAN,
             CompletePass(h, surviving, clustered, replayed)
      PROVE  Goal
  <2> DEFINE mode == "no"
             g == 0
  <2>1. Complete(mode, h, g, surviving, clustered)
    BY <1>3 DEF CompletePass
  <2>4. mode \in Modes \cup {"no"} /\ g \in Nat /\ mode # "reforge" /\ mode = "no" /\ g = 0
    OBVIOUS
  <2> HIDE DEF mode, g
  <2>2. /\ ReceiptTypes' /\ RanTypes'
        /\ \E p \in Passes, x \in RanEntries :
             /\ receipt'.passes = Append(receipt.passes, p) /\ ran' = Append(ran, x)
             /\ p.head = h /\ x.head = h /\ x.mode = mode /\ x.grant = g
             /\ x.epoch = p.epoch
             /\ mode # "reforge" => p.epoch = Epoch(receipt.passes)
    BY <1>3, <1>types, <2>1, <2>4, CompleteWrites
  <2>3. /\ Cardinality(Current(receipt.passes)) < MAX_PASSES
        /\ holder = None /\ holder' = None /\ forces' = forces
    BY <1>3 DEF CompletePass, PassAllowed, MayReview, grantVars
  <2> QED
    BY <2>2, <2>3, <2>4 DEF PassesMove, Completes, Unforced
<1>4. ASSUME NEW surviving \in BOOLEAN, NEW clustered \in BOOLEAN, RecordForced(surviving, clustered) PROVE Goal
  <2>1. /\ holder # None /\ holder.op = "spent" /\ holder.mode # "cluster" /\ holder' = None /\ forces' = forces
        /\ Complete(holder.mode, holder.head, holder.grant, surviving, clustered)
    BY <1>4 DEF RecordForced, grantVars
  <2>2. holder.mode \in Modes /\ holder.head \in BranchHeads /\ holder.grant \in Nat
    BY <1>types, <2>1, HolderFacts
  <2>3. /\ ReceiptTypes' /\ RanTypes'
        /\ \E p \in Passes, x \in RanEntries :
             /\ receipt'.passes = Append(receipt.passes, p) /\ ran' = Append(ran, x)
             /\ p.head = holder.head /\ x.head = holder.head /\ x.mode = holder.mode /\ x.grant = holder.grant
             /\ x.epoch = p.epoch
    BY <1>types, <2>1, <2>2, CompleteWrites
  <2> QED
    BY <2>1, <2>3 DEF PassesMove, Completes, Pays
<1>5. ASSUME RecordCorrection PROVE Goal
  <2>1. /\ holder # None /\ holder.op = "spent" /\ holder.mode = "cluster" /\ holder' = None /\ forces' = forces
        /\ receipt' = Ruled(holder.verdict)
        /\ ran' = Append(ran, Entry("cluster", holder.head, Epoch(receipt.passes), holder.grant))
    BY <1>5 DEF RecordCorrection, grantVars
  <2> DEFINE x == Entry("cluster", holder.head, Epoch(receipt.passes), holder.grant)
  <2>2. /\ holder.head \in BranchHeads /\ holder.grant \in Nat
        /\ holder.verdict \in {"none", "PATCH", "REFORGE"}
    BY <1>types, <2>1, HolderFacts
  <2>3. x \in RanEntries /\ x.mode = "cluster" /\ x.head = holder.head /\ x.grant = holder.grant
    <3>1. (IF receipt.check = None THEN None ELSE receipt.check.epoch) \in Nat \cup {None}
      BY <1>types DEF ReceiptTypes, ReceiptRecords, Checks
    <3>2. Epoch(receipt.passes) \in Nat
      BY <1>types, <1>reviewed, EpochIsLast DEF ReceiptTypes
    <3> QED
      BY <2>2, <3>1, <3>2, StickyIsBoolean DEF Entry, RanEntries, Modes
  <2>4. receipt' \in ReceiptRecords /\ receipt'.passes = receipt.passes
    BY <1>types, <1>reviewed, <2>1, <2>2, CarriedTypes DEF ClusterHeld
  <2> HIDE DEF x
  <2>5. ran' = Append(ran, x)
    BY <2>1 DEF x
  <2>6. ran' \in Seq(RanEntries)
    BY <1>types, <2>3, <2>5 DEF RanTypes
  <2>7. Corrects(x)
    BY <2>1, <2>3, <2>4, <2>5 DEF Corrects, Pays
  <2> QED
    BY <1>types, <2>3, <2>4, <2>6, <2>7 DEF PassesMove, ReceiptTypes, RanTypes
<1>6. ASSUME NEW verdict \in {"PATCH", "REFORGE"}, ClusterVerdict(verdict) PROVE Goal
  BY <1>6, <1>quiet, <1>types, <1>reviewed, CarriedTypes DEF ClusterVerdict
<1>7. ASSUME NEW base \in BranchHeads, NEW h \in BranchHeads, NEW replayed \in BOOLEAN, PostVerdict(base, h, replayed)
      PROVE  Goal
  <2>1. Carried(receipt.reviewed) \in ReceiptRecords /\ Carried(receipt.reviewed).passes = receipt.passes
    BY <1>types, <1>reviewed, CarriedTypes
  <2>2. [base |-> base, head |-> h, epoch |-> Epoch(receipt.passes)] \in Checks
    BY <1>types, <1>reviewed, EpochIsLast DEF Checks, ReceiptTypes
  <2>3. /\ receipt' = [Carried(receipt.reviewed) EXCEPT
                        !.check = [base |-> base, head |-> h, epoch |-> Epoch(receipt.passes)]]
        /\ ran' = ran
    BY <1>7 DEF PostVerdict
  <2>4. receipt' \in ReceiptRecords /\ receipt'.passes = receipt.passes
    BY <2>1, <2>2, <2>3 DEF ReceiptRecords
  <2> QED
    BY <1>quiet, <2>3, <2>4
<1>8. ASSUME \/ \E mode \in Modes, h \in BranchHeads, replayed \in BOOLEAN : StartForce(mode, h, replayed)
             \/ \E verdict \in {"PATCH", "REFORGE"} : StartCorrection(verdict)
             \/ Reserve \/ ForceGivesUp
             \/ \E h \in BranchHeads : KillStart(h) \/ Waive(h)
             \/ \E is \in {"pass", "fail"} : KillEnd(is)
      PROVE  Goal
  BY <1>8, <1>1 DEF StartForce, StartCorrection, Reserve, ForceGivesUp, KillStart, Waive, KillEnd
<1>9. ASSUME Others \/ UNCHANGED precloseVars PROVE Goal
  BY <1>9, <1>1 DEF Others, HookRead, HookWrite, RecordRead, RecordPost, RecordFinish, RecordDie, ForceExpires,
     WaiverMoves, PushHead, AllowMerge, MergeLands, fileVars, precloseVars
<1> HIDE DEF Goal
<1>10. Goal
  BY <1>2, <1>3, <1>4, <1>5, <1>6, <1>7, <1>8, <1>9 DEF PrecloseNext, LockedSteps
<1> QED
  BY <1>10 DEF Goal

LEMMA OtherTypesStep ==
  ASSUME PrecloseTypes, [PrecloseNext]_precloseVars
  PROVE  OtherTypes' /\ ClusterHeld'
<1>types. ReceiptTypes /\ OtherTypes /\ GrantTypes /\ ClusterHeld
  BY DEF PrecloseTypes
<1> DEFINE Goal == OtherTypes' /\ ClusterHeld'
\* The holder of the lock waits: the receipt stays.
<1>waits. ASSUME holder' = holder, holder = None \/ receipt' = receipt PROVE ClusterHeld'
  BY <1>waits, <1>types DEF ClusterHeld, CurrentCluster, ClusterOf
<1>1. ASSUME NEW mode \in Modes \cup {"no"}, NEW h \in BranchHeads, NEW replayed \in BOOLEAN, Plan(mode, h, replayed)
      PROVE  Goal
  BY <1>1, <1>types, <1>waits DEF Plan, OtherTypes, prVars
<1>2. ASSUME NEW h \in BranchHeads, NEW surviving \in BOOLEAN, NEW clustered \in BOOLEAN, NEW replayed \in BOOLEAN,
             CompletePass(h, surviving, clustered, replayed)
      PROVE  Goal
  BY <1>2, <1>types, <1>waits DEF CompletePass, OtherTypes, prVars
<1>3. ASSUME NEW verdict \in {"PATCH", "REFORGE"}, ClusterVerdict(verdict) PROVE Goal
  BY <1>3, <1>types, <1>waits DEF ClusterVerdict, OtherTypes, prVars
<1>4. ASSUME NEW base \in BranchHeads, NEW h \in BranchHeads, NEW replayed \in BOOLEAN, PostVerdict(base, h, replayed)
      PROVE  Goal
  BY <1>4, <1>types, <1>waits DEF PostVerdict, OtherTypes, prVars
<1>5. ASSUME NEW mode \in Modes, NEW h \in BranchHeads, NEW replayed \in BOOLEAN, StartForce(mode, h, replayed)
      PROVE  Goal
  <2> DEFINE k == [op |-> "force", mode |-> mode, head |-> h, grant |-> 0, verdict |-> "none"]
  <2>1. k \in HolderJobs /\ k.mode = mode
    BY DEF HolderJobs
  <2>2. mode # "cluster" /\ holder' = k
    BY <1>5 DEF StartForce
  <2> HIDE DEF k
  <2>3. OtherTypes'
    BY <1>5, <1>types, <2>1, <2>2 DEF StartForce, OtherTypes, prVars
  <2> QED
    BY <2>1, <2>2, <2>3 DEF ClusterHeld
<1>6. ASSUME NEW verdict \in {"PATCH", "REFORGE"}, StartCorrection(verdict) PROVE Goal
  <2> DEFINE k == [op |-> "force", mode |-> "cluster", head |-> ForceHead, grant |-> 0, verdict |-> verdict]
  <2>1. ForceHead \in BranchHeads
    <3>1. ForceHead # None
      BY <1>6 DEF StartCorrection
    <3>2. receipt.passes \in Seq(Passes) /\ receipt.reviewed \in BranchHeads \cup {None}
          /\ receipt.check \in {None} \cup Checks
      BY <1>types DEF ReceiptTypes, ReceiptRecords
    <3> QED
      BY <3>1, <3>2, PassFacts DEF ForceHead, Checks
  <2>2. k \in HolderJobs
    BY <2>1 DEF HolderJobs, Modes
  <2>3. holder' = k /\ receipt' = receipt /\ CurrentCluster # None
    BY <1>6 DEF StartCorrection
  <2> HIDE DEF k
  <2>4. OtherTypes'
    BY <1>6, <1>types, <2>2, <2>3 DEF StartCorrection, OtherTypes, prVars
  <2> QED
    BY <2>3, <2>4 DEF ClusterHeld, CurrentCluster, ClusterOf
<1>7. ASSUME Reserve PROVE Goal
  <2>1. /\ holder # None /\ holder.op = "force" /\ holder' = [holder EXCEPT !.op = "spent", !.grant = File]
        /\ receipt' = receipt
    BY <1>7 DEF Reserve
  <2>2. holder \in [op: {"force", "spent"}, mode: Modes, head: BranchHeads, grant: Nat, verdict: {"none", "PATCH", "REFORGE"}]
    BY <1>types, <2>1 DEF OtherTypes, HolderJobs
  <2>3. File \in Nat
    BY <1>types, LenProperties DEF File, GrantTypes
  <2>4. holder' \in [op: {"force", "spent"}, mode: Modes, head: BranchHeads, grant: Nat, verdict: {"none", "PATCH", "REFORGE"}]
        /\ holder'.mode = holder.mode
    BY <2>1, <2>2, <2>3
  <2>5. OtherTypes'
    BY <1>7, <1>types, <2>4 DEF Reserve, OtherTypes, HolderJobs, prVars
  <2> QED
    BY <1>types, <2>1, <2>4, <2>5 DEF ClusterHeld, CurrentCluster, ClusterOf
<1>8. ASSUME \/ ForceGivesUp \/ RecordCorrection
             \/ \E surviving, clustered \in BOOLEAN : RecordForced(surviving, clustered)
      PROVE  Goal
  BY <1>8, <1>types DEF ForceGivesUp, RecordCorrection, RecordForced, OtherTypes, ClusterHeld, HolderJobs, prVars
<1>9. ASSUME NEW h \in BranchHeads, KillStart(h) \/ Waive(h) PROVE Goal
  <2>1. CASE KillStart(h)
    <3> DEFINE k == [op |-> "kill", head |-> h]
    <3>1. k \in HolderJobs /\ k.op = "kill"
      BY DEF HolderJobs
    <3>2. holder' = k
      BY <2>1 DEF KillStart
    <3> HIDE DEF k
    <3> QED
      BY <1>types, <2>1, <3>1, <3>2 DEF KillStart, OtherTypes, ClusterHeld, prVars
  <2>2. CASE Waive(h)
    BY <1>types, <2>2, <1>waits DEF Waive, OtherTypes, prVars
  <2> QED
    BY <1>9, <2>1, <2>2
<1>10. ASSUME NEW is \in {"pass", "fail"}, KillEnd(is) PROVE Goal
  <2>1. holder # None /\ kill' = [head |-> holder.head, is |-> is] /\ holder' = None
    BY <1>10 DEF KillEnd
  <2>2. holder.head \in BranchHeads
    BY <1>types, <2>1, HolderFacts
  <2> QED
    BY <1>10, <1>types, <2>1, <2>2 DEF KillEnd, OtherTypes, ClusterHeld, HolderJobs, prVars
<1>11. ASSUME Others \/ UNCHANGED precloseVars PROVE Goal
  BY <1>11, <1>types, <1>waits DEF Others, HookRead, HookWrite, RecordRead, RecordPost, RecordFinish, RecordDie, ForceExpires,
     WaiverMoves, PushHead, AllowMerge, MergeLands, fileVars, prVars, precloseVars, OtherTypes
<1> HIDE DEF Goal
<1>12. Goal
  BY <1>1, <1>2, <1>3, <1>4, <1>5, <1>6, <1>7, <1>8, <1>9, <1>10, <1>11 DEF PrecloseNext, LockedSteps
<1> QED
  BY <1>12 DEF Goal

-----------------------------------------------------------------------------
(***************************************************************************)
(* A grant keeps its mode and head; what was posted, or spent, stays so.   *)
(***************************************************************************)
Advances(a, b) ==
  /\ b.mode = a.mode /\ b.head = a.head
  /\ a.posted => b.posted
  /\ a.status = "consumed" => b.status = "consumed"

\* Whatever is not pending was posted.
PostedFirst(fs) == \A g \in DOMAIN fs : fs[g].status # "pending" => fs[g].posted

LEMMA OneGrant ==
  ASSUME NEW fs \in Seq(GrantRecords), NEW i \in DOMAIN fs, NEW e \in GrantRecords, Advances(fs[i], e)
  PROVE  LET new == [fs EXCEPT ![i] = e] IN
         /\ new \in Seq(GrantRecords) /\ DOMAIN new = DOMAIN fs /\ new[i] = e
         /\ \A j \in DOMAIN fs : Advances(fs[j], new[j])
         /\ PostedFirst(fs) /\ (e.status # "pending" => e.posted) => PostedFirst(new)
<1> DEFINE new == [fs EXCEPT ![i] = e]
<1>1. /\ new \in Seq(GrantRecords) /\ Len(new) = Len(fs)
      /\ \A j \in 1..Len(fs) : new[j] = IF j = i THEN e ELSE fs[j]
  BY ExceptSeq, LenProperties
<1>2. DOMAIN new = 1..Len(fs) /\ DOMAIN fs = 1..Len(fs)
  BY <1>1, LenProperties
<1> HIDE DEF new
<1>3. /\ new \in Seq(GrantRecords) /\ DOMAIN new = DOMAIN fs /\ new[i] = e
      /\ \A j \in DOMAIN fs : Advances(fs[j], new[j])
      /\ PostedFirst(fs) /\ (e.status # "pending" => e.posted) => PostedFirst(new)
  BY <1>1, <1>2 DEF Advances, PostedFirst
<1> QED
  BY <1>3 DEF new

\* A recorder past its post has a posted grant.
GrantKnown ==
  /\ PostedFirst(forces)
  /\ \A r \in Recorders : rec[r].pc = "posted" => forces[rec[r].g].posted

AllAdvance == \A g \in DOMAIN forces : g \in DOMAIN forces' /\ Advances(forces[g], forces'[g])

LEMMA GrantStep ==
  ASSUME PrecloseTypes, GrantKnown, [PrecloseNext]_precloseVars
  PROVE  GrantTypes' /\ GrantKnown' /\ AllAdvance
<1>types. OtherTypes /\ GrantTypes
  BY DEF PrecloseTypes
<1>seq. /\ forces \in Seq(GrantRecords) /\ DOMAIN forces = 1..Len(forces) /\ Len(forces) \in Nat
        /\ \A g \in DOMAIN forces : forces[g] \in GrantRecords
        /\ forces # <<>> => File \in DOMAIN forces
  BY <1>types, LenProperties, ElementOfSeq, EmptySeq DEF GrantTypes, File
<1> DEFINE Goal == GrantTypes' /\ GrantKnown' /\ AllAdvance
\* Nothing but one grant changes, and no recorder.
<1>same. ASSUME forces' = forces, UNCHANGED <<typing, rec>> PROVE Goal
  BY <1>same, <1>types DEF GrantTypes, GrantKnown, AllAdvance, Advances, PostedFirst
<1>one. ASSUME forces' \in Seq(GrantRecords), DOMAIN forces' = DOMAIN forces,
               \A g \in DOMAIN forces : Advances(forces[g], forces'[g]), PostedFirst(forces'),
               typing' = typing,
               \A r \in Recorders : rec'[r] = rec[r] \/ (rec'[r].pc = "idle" /\ rec'[r].g = 0),
               rec' \in [Recorders -> [pc: {"idle", "post", "posted"}, g: Nat]]
        PROVE  Goal
  BY <1>one, <1>types DEF GrantTypes, GrantKnown, AllAdvance, Advances
<1> HIDE DEF Goal
<1>1. ASSUME LockedSteps /\ forces' = forces PROVE Goal
  BY <1>1, <1>same DEF LockedSteps, Plan, CompletePass, StartForce, StartCorrection, ClusterVerdict, Reserve,
     RecordForced, RecordCorrection, ForceGivesUp, PostVerdict, KillStart, Waive, KillEnd, grantVars
<1>2. ASSUME Reserve PROVE Goal
  <2> DEFINE e == [forces[File] EXCEPT !.status = "consumed"]
  <2>1. /\ File \in DOMAIN forces /\ forces[File].status = "usable"
        /\ forces' = [forces EXCEPT ![File] = e] /\ UNCHANGED <<typing, rec>>
    BY <1>2, <1>seq DEF Reserve, Usable
  <2>2. e \in GrantRecords /\ Advances(forces[File], e) /\ (e.status # "pending" => e.posted)
    BY <1>seq, <2>1 DEF GrantRecords, Advances, GrantKnown, PostedFirst
  <2> HIDE DEF e
  <2>3. /\ forces' \in Seq(GrantRecords) /\ DOMAIN forces' = DOMAIN forces
        /\ \A j \in DOMAIN forces : Advances(forces[j], forces'[j])
        /\ PostedFirst(forces')
    BY <1>seq, <2>1, <2>2, OneGrant DEF GrantKnown
  <2>4. /\ typing' = typing /\ \A r \in Recorders : rec'[r] = rec[r]
        /\ rec' \in [Recorders -> [pc: {"idle", "post", "posted"}, g: Nat]]
    BY <1>types, <2>1 DEF GrantTypes
  <2> QED
    BY <1>one, <2>3, <2>4
<1>3. ASSUME NEW mode \in Modes, NEW h \in BranchHeads, HookRead(mode, h) PROVE Goal
  BY <1>3, <1>types DEF Goal, HookRead, GrantTypes, GrantKnown, AllAdvance, Advances, PostedFirst
<1>4. ASSUME HookWrite PROVE Goal
  <2> DEFINE e == [mode |-> typing.mode, head |-> typing.head, live |-> TRUE,
                   posted |-> FALSE, opened |-> FALSE, status |-> "pending"]
  <2>1. e \in GrantRecords /\ e.status = "pending"
    BY <1>4, <1>types DEF HookWrite, GrantTypes, GrantRecords
  <2>2. forces' = Append(forces, e) /\ typing' = None /\ rec' = rec
    BY <1>4 DEF HookWrite
  <2> HIDE DEF e
  <2>3. /\ forces' \in Seq(GrantRecords) /\ Len(forces') = Len(forces) + 1
        /\ \A g \in 1..Len(forces) : forces'[g] = forces[g]
        /\ forces'[Len(forces) + 1] = e
    BY <1>seq, <2>1, <2>2, AppendProperties
  <2>4. DOMAIN forces' = 1..(Len(forces) + 1)
    BY <2>3, LenProperties
  <2> QED
    BY <1>types, <1>seq, <2>1, <2>2, <2>3, <2>4 DEF Goal, GrantTypes, GrantKnown, AllAdvance, Advances, PostedFirst
<1>5. ASSUME NEW r \in Recorders, RecordRead(r) \/ RecordDie(r) PROVE Goal
  <2>1. CASE RecordRead(r)
    BY <1>types, <1>seq, <2>1 DEF Goal, RecordRead, GrantTypes, GrantKnown, AllAdvance, Advances, PostedFirst
  <2>2. CASE RecordDie(r)
    BY <1>types, <1>seq, <2>2 DEF Goal, RecordDie, IdleRecorder, GrantTypes, GrantKnown, AllAdvance, Advances, PostedFirst
  <2> QED
    BY <1>5, <2>1, <2>2
<1>6. ASSUME NEW r \in Recorders, RecordPost(r) PROVE Goal
  <2> DEFINE i == rec[r].g
             e == [forces[i] EXCEPT !.posted = TRUE]
  <2>1. i \in DOMAIN forces /\ forces' = [forces EXCEPT ![i] = e] /\ typing' = typing
    BY <1>6, <1>types DEF RecordPost, GrantTypes
  <2> HIDE DEF i
  <2>2. e \in GrantRecords /\ Advances(forces[i], e) /\ e.posted
    <3>1. forces[i] \in GrantRecords
      BY <1>seq, <2>1
    <3> QED
      BY <3>1 DEF GrantRecords, Advances
  <2>3. /\ rec' = [rec EXCEPT ![r].pc = "posted"]
        /\ rec'[r].pc = "posted" /\ rec'[r].g = i /\ \A q \in Recorders \ {r} : rec'[q] = rec[q]
        /\ rec' \in [Recorders -> [pc: {"idle", "post", "posted"}, g: Nat]]
    BY <1>6, <1>types DEF RecordPost, GrantTypes, i
  <2> HIDE DEF e
  <2>4. /\ forces' \in Seq(GrantRecords) /\ DOMAIN forces' = DOMAIN forces /\ forces'[i] = e
        /\ \A j \in DOMAIN forces : Advances(forces[j], forces'[j])
        /\ PostedFirst(forces')
    BY <1>seq, <2>1, <2>2, OneGrant DEF GrantKnown
  <2> QED
    BY <1>types, <2>1, <2>2, <2>3, <2>4 DEF Goal, GrantTypes, GrantKnown, AllAdvance, Advances
<1>7. ASSUME NEW r \in Recorders, RecordFinish(r) PROVE Goal
  <2>1. /\ \A q \in Recorders : rec'[q] = rec[q] \/ (rec'[q].pc = "idle" /\ rec'[q].g = 0)
        /\ rec' \in [Recorders -> [pc: {"idle", "post", "posted"}, g: Nat]]
        /\ typing' = typing
    <3>1. rec' = [rec EXCEPT ![r] = IdleRecorder] /\ typing' = typing
      BY <1>7 DEF RecordFinish
    <3>2. IdleRecorder \in [pc: {"idle", "post", "posted"}, g: Nat] /\ IdleRecorder.pc = "idle" /\ IdleRecorder.g = 0
      BY DEF IdleRecorder
    <3>3. rec \in [Recorders -> [pc: {"idle", "post", "posted"}, g: Nat]]
      BY <1>types DEF GrantTypes
    <3>4. \A q \in Recorders : rec'[q] = IF q = r THEN IdleRecorder ELSE rec[q]
      BY <3>1, <3>3
    <3>5. rec' \in [Recorders -> [pc: {"idle", "post", "posted"}, g: Nat]]
      BY <3>1, <3>2, <3>3
    <3>6. ASSUME NEW q \in Recorders PROVE rec'[q] = rec[q] \/ (rec'[q].pc = "idle" /\ rec'[q].g = 0)
      BY <3>2, <3>4
    <3> QED
      BY <3>1, <3>5, <3>6
  <2>2. CASE File = rec[r].g /\ forces[File].status = "pending"
    <3> DEFINE d == [forces[File] EXCEPT !.status = "usable"]
               e == [d EXCEPT !.opened = forces[File].live]
               mid == [forces EXCEPT ![File] = d]
    <3>1. File \in DOMAIN forces /\ forces[File].posted
      BY <1>7, <1>types, <2>2 DEF RecordFinish, GrantTypes, GrantKnown
    <3>2. d \in GrantRecords /\ e \in GrantRecords /\ e.posted /\ d.posted /\ Advances(forces[File], d) /\ Advances(d, e)
      BY <1>seq, <2>2, <3>1 DEF GrantRecords, Advances
    <3>3. /\ mid \in Seq(GrantRecords) /\ DOMAIN mid = DOMAIN forces /\ mid[File] = d
          /\ \A j \in DOMAIN forces : Advances(forces[j], mid[j])
          /\ PostedFirst(mid)
      BY <1>seq, <3>1, <3>2, OneGrant DEF GrantKnown
    <3>4. forces' = [mid EXCEPT ![File] = e]
      BY <1>7, <1>seq, <2>2, <3>1 DEF RecordFinish
    <3> HIDE DEF d, e, mid
    <3>5. /\ forces' \in Seq(GrantRecords) /\ DOMAIN forces' = DOMAIN mid
          /\ \A j \in DOMAIN mid : Advances(mid[j], forces'[j])
          /\ PostedFirst(forces')
      BY <3>1, <3>2, <3>3, <3>4, OneGrant
    <3>6. \A j \in DOMAIN forces : Advances(forces[j], forces'[j])
      BY <3>3, <3>5 DEF Advances
    <3> QED
      BY <1>one, <2>1, <3>3, <3>5, <3>6
  <2>3. CASE forces' = forces
    BY <1>one, <1>seq, <2>1, <2>3 DEF Advances, GrantKnown
  <2> QED
    BY <1>7, <2>2, <2>3 DEF RecordFinish
<1>8. ASSUME ForceExpires PROVE Goal
  <2> DEFINE e == [forces[File] EXCEPT !.live = FALSE]
  <2>1. /\ File \in DOMAIN forces
        /\ forces' = [forces EXCEPT ![File] = e] /\ UNCHANGED <<typing, rec>>
    BY <1>8, <1>seq DEF ForceExpires
  <2>2. e \in GrantRecords /\ Advances(forces[File], e) /\ (e.status # "pending" => e.posted)
    <3>1. forces[File] \in GrantRecords /\ (forces[File].status # "pending" => forces[File].posted)
      BY <1>seq, <2>1 DEF GrantKnown, PostedFirst
    <3> QED
      BY <3>1 DEF GrantRecords, Advances
  <2> HIDE DEF e
  <2>3. /\ forces' \in Seq(GrantRecords) /\ DOMAIN forces' = DOMAIN forces
        /\ \A j \in DOMAIN forces : Advances(forces[j], forces'[j])
        /\ PostedFirst(forces')
    BY <1>seq, <2>1, <2>2, OneGrant DEF GrantKnown
  <2>4. /\ typing' = typing /\ \A r \in Recorders : rec'[r] = rec[r]
        /\ rec' \in [Recorders -> [pc: {"idle", "post", "posted"}, g: Nat]]
    BY <1>types, <2>1 DEF GrantTypes
  <2> QED
    BY <1>one, <2>3, <2>4
<1>9. ASSUME \/ \E to \in {"none", "hook", "pending", "recorded"} : WaiverMoves(to)
             \/ \E h \in BranchHeads : PushHead(h)
             \/ \E replayed \in BOOLEAN : AllowMerge(replayed)
             \/ MergeLands
             \/ UNCHANGED precloseVars
      PROVE  Goal
  BY <1>9, <1>same DEF WaiverMoves, PushHead, AllowMerge, MergeLands, grantVars, precloseVars
<1>10. LockedSteps => Reserve \/ forces' = forces
  BY DEF LockedSteps, Plan, CompletePass, StartForce, StartCorrection, ClusterVerdict,
     RecordForced, RecordCorrection, ForceGivesUp, PostVerdict, KillStart, Waive, KillEnd, grantVars
<1>11. ASSUME LockedSteps PROVE Goal
  BY <1>1, <1>2, <1>10, <1>11
<1>12. ASSUME Others PROVE Goal
  BY <1>3, <1>4, <1>5, <1>6, <1>7, <1>8, <1>9, <1>12 DEF Others
<1>13. ASSUME UNCHANGED precloseVars PROVE Goal
  BY <1>9, <1>13
<1> QED
  BY <1>11, <1>12, <1>13 DEF PrecloseNext, Goal

-----------------------------------------------------------------------------
(***************************************************************************)
(* The types and the grants, of every run.                                 *)
(***************************************************************************)
Basics == PrecloseTypes /\ GrantKnown

LEMMA BasicsInit == PrecloseInit => Basics
  BY TypesInit DEF PrecloseInit, Basics, GrantKnown, PostedFirst, IdleRecorder

LEMMA BasicsStep ==
  ASSUME Basics, [PrecloseNext]_precloseVars PROVE Basics' /\ PassesMove /\ AllAdvance
<1>1. PrecloseTypes /\ GrantKnown
  BY DEF Basics
<1> QED
  BY <1>1, PassesMoveStep, OtherTypesStep, GrantStep DEF Basics, PrecloseTypes

LEMMA BasicsAlways == PrecloseSpec => []Basics
<1>1. Basics /\ [PrecloseNext]_precloseVars => Basics'
  BY BasicsStep
<1> QED
  BY <1>1, BasicsInit, PTL DEF PrecloseSpec

\* The receipts, the grants and the history have their types, for any number of commits,
\* recorders, passes and FORCE lines.
THEOREM PrecloseTypeCorrect == PrecloseSpec => []PrecloseTypeOK
<1>1. Basics => PrecloseTypeOK
  BY DEF Basics, PrecloseTypes, ReceiptTypes, ReceiptRecords, Checks, Clusters, OtherTypes, GrantTypes, RanTypes, PrecloseTypeOK
<1> QED
  BY <1>1, BasicsAlways, PTL

\* The history is only appended to.
LEMMA RanFacts ==
  ASSUME PrecloseTypes
  PROVE  /\ Len(ran) \in Nat /\ DOMAIN ran = 1..Len(ran)
         /\ \A i \in DOMAIN ran : ran[i] \in RanEntries
         /\ receipt.passes \in Seq(Passes) /\ Grows(receipt.passes)
  BY LenProperties, ElementOfSeq DEF PrecloseTypes, RanTypes, ReceiptTypes, ReceiptRecords

LEMMA RanAppended ==
  ASSUME PrecloseTypes, NEW x \in RanEntries, ran' = Append(ran, x)
  PROVE  /\ Len(ran') = Len(ran) + 1 /\ DOMAIN ran' = 1..(Len(ran) + 1)
         /\ \A i \in 1..Len(ran) : ran'[i] = ran[i]
         /\ ran'[Len(ran) + 1] = x
<1>1. ran \in Seq(RanEntries)
  BY DEF PrecloseTypes, RanTypes
<1>2. /\ ran' \in Seq(RanEntries) /\ Len(ran') = Len(ran) + 1
      /\ \A i \in 1..Len(ran) : ran'[i] = ran[i]
      /\ ran'[Len(ran) + 1] = x
  BY <1>1, AppendProperties
<1> QED
  BY <1>2, LenProperties

LEMMA PassAppended ==
  ASSUME PrecloseTypes, NEW p \in Passes, receipt'.passes = Append(receipt.passes, p)
  PROVE  LET n == Len(receipt.passes) IN
         /\ n \in Nat /\ DOMAIN receipt.passes = 1..n /\ DOMAIN receipt'.passes = 1..(n + 1)
         /\ \A i \in 1..n : receipt'.passes[i] = receipt.passes[i]
         /\ receipt'.passes[n + 1] = p
<1>1. receipt.passes \in Seq(Passes)
  BY DEF PrecloseTypes, ReceiptTypes, ReceiptRecords
<1>2. /\ receipt'.passes \in Seq(Passes) /\ Len(receipt'.passes) = Len(receipt.passes) + 1
      /\ \A i \in 1..Len(receipt.passes) : receipt'.passes[i] = receipt.passes[i]
      /\ receipt'.passes[Len(receipt.passes) + 1] = p
  BY <1>1, AppendProperties
<1> QED
  BY <1>1, <1>2, LenProperties

-----------------------------------------------------------------------------
(***************************************************************************)
(* What is merged was reviewed.                                            *)
(***************************************************************************)
Seen(h) == \E i \in DOMAIN ran : ran[i].mode # "cluster" /\ ChangeOf[ran[i].head] = ChangeOf[h]

\* Every pass of the receipt is in the history.
PassesRan ==
  \A i \in DOMAIN receipt.passes :
    \E j \in DOMAIN ran : ran[j].mode # "cluster" /\ ran[j].head = receipt.passes[i].head

MergeFacts == PassesRan /\ (bound # None => Seen(bound)) /\ (landed # None => Seen(landed))

MergeInv == Basics /\ MergeFacts

LEMMA MergeInit == PrecloseInit => MergeInv
  BY BasicsInit DEF PrecloseInit, MergeInv, MergeFacts, PassesRan

LEMMA MergeStep == MergeInv /\ [PrecloseNext]_precloseVars => MergeInv'
<1> SUFFICES ASSUME MergeInv, [PrecloseNext]_precloseVars PROVE MergeFacts'
  BY BasicsStep DEF MergeInv
<1>basics. PrecloseTypes /\ PassesMove /\ MergeFacts
  BY BasicsStep DEF MergeInv, Basics
<1>kept. \A i \in DOMAIN ran : i \in DOMAIN ran' /\ ran'[i] = ran[i]
  <2>1. CASE PassesStay
    BY <2>1 DEF PassesStay
  <2>2. ASSUME NEW x \in RanEntries, ran' = Append(ran, x)
        PROVE  \A i \in DOMAIN ran : i \in DOMAIN ran' /\ ran'[i] = ran[i]
    BY <1>basics, <2>2, RanAppended, RanFacts
  <2> QED
    BY <1>basics, <2>1, <2>2 DEF PassesMove, Completes, Corrects
<1>1. PassesRan'
  <2>1. ASSUME receipt'.passes = receipt.passes PROVE PassesRan'
    <3>1. \A i \in DOMAIN receipt.passes :
            \E j \in DOMAIN ran' : ran'[j].mode # "cluster" /\ ran'[j].head = receipt.passes[i].head
      BY <1>basics, <1>kept DEF MergeFacts, PassesRan
    <3> QED
      BY <2>1, <3>1 DEF PassesRan
  <2>2. ASSUME NEW p \in Passes, NEW x \in RanEntries, Completes(p, x) PROVE PassesRan'
    <3>1. /\ receipt'.passes = Append(receipt.passes, p) /\ ran' = Append(ran, x)
          /\ p.head = x.head /\ x.mode # "cluster"
      BY <2>2 DEF Completes
    <3> DEFINE n == Len(receipt.passes)
    <3>2. /\ n \in Nat /\ DOMAIN receipt.passes = 1..n /\ DOMAIN receipt'.passes = 1..(n + 1)
          /\ \A i \in 1..n : receipt'.passes[i] = receipt.passes[i]
          /\ receipt'.passes[n + 1] = p
      BY <1>basics, <3>1, PassAppended
    <3>3. Len(ran) + 1 \in DOMAIN ran' /\ ran'[Len(ran) + 1] = x
      BY <1>basics, <3>1, RanAppended, RanFacts
    <3> HIDE DEF n
    <3> SUFFICES ASSUME NEW i \in 1..(n + 1)
                 PROVE  \E j \in DOMAIN ran' : ran'[j].mode # "cluster" /\ ran'[j].head = receipt'.passes[i].head
      BY <3>2 DEF PassesRan
    <3>4. CASE i = n + 1
      BY <3>1, <3>2, <3>3, <3>4
    <3>5. CASE i \in 1..n
      <4>1. PICK j \in DOMAIN ran : ran[j].mode # "cluster" /\ ran[j].head = receipt.passes[i].head
        BY <1>basics, <3>2, <3>5 DEF MergeFacts, PassesRan
      <4> QED
        BY <1>kept, <3>2, <3>5, <4>1
    <3> QED
      BY <3>2, <3>4, <3>5
  <2> QED
    BY <1>basics, <2>1, <2>2 DEF PassesMove, PassesStay, Corrects
<1>2. \A h : Seen(h) => \E i \in DOMAIN ran' : ran'[i].mode # "cluster" /\ ChangeOf[ran'[i].head] = ChangeOf[h]
  BY <1>kept DEF Seen
<1>3. ASSUME NEW replayed \in BOOLEAN, AllowMerge(replayed) PROVE bound' = pr /\ landed' = landed /\ Seen(pr)
  <2>1. Covered(receipt.passes, pr, replayed) /\ bound' = pr /\ landed' = landed
    BY <1>3 DEF AllowMerge
  <2>2. receipt.passes # <<>> /\ ChangeOf[Reviewed(receipt.passes).head] = ChangeOf[pr]
    BY <2>1 DEF Covered, Accepts
  <2>3. PICK i \in DOMAIN receipt.passes : Reviewed(receipt.passes) = receipt.passes[i]
    BY <1>basics, <2>2, RanFacts, ReviewedIsLast, PassFacts
  <2>4. PICK j \in DOMAIN ran : ran[j].mode # "cluster" /\ ran[j].head = receipt.passes[i].head
    BY <1>basics DEF MergeFacts, PassesRan
  <2> QED
    BY <2>1, <2>2, <2>3, <2>4 DEF Seen
<1>4. \/ bound' = bound /\ landed' = landed
      \/ bound' = None /\ landed' \in {bound, landed} /\ bound # None
      \/ bound' = pr /\ landed' = landed /\ Seen(pr)
  <2>1. CASE LockedSteps
    BY <2>1 DEF LockedSteps, Plan, CompletePass, StartForce, StartCorrection, ClusterVerdict, Reserve,
       RecordForced, RecordCorrection, ForceGivesUp, PostVerdict, KillStart, Waive, KillEnd, prVars
  <2>2. CASE MergeLands
    BY <2>2 DEF MergeLands
  <2>3. ASSUME NEW replayed \in BOOLEAN, AllowMerge(replayed) PROVE bound' = pr /\ landed' = landed /\ Seen(pr)
    BY <1>3, <2>3
  <2>4. CASE \/ \E mode \in Modes, h \in BranchHeads : HookRead(mode, h)
             \/ HookWrite
             \/ \E r \in Recorders : RecordRead(r) \/ RecordPost(r) \/ RecordFinish(r) \/ RecordDie(r)
             \/ ForceExpires
             \/ \E to \in {"none", "hook", "pending", "recorded"} : WaiverMoves(to)
             \/ \E h \in BranchHeads : PushHead(h)
             \/ UNCHANGED precloseVars
    BY <2>4 DEF HookRead, HookWrite, RecordRead, RecordPost, RecordFinish, RecordDie, ForceExpires, WaiverMoves,
       PushHead, prVars, precloseVars
  <2> QED
    BY <2>1, <2>2, <2>3, <2>4 DEF PrecloseNext, Others
<1>5. (bound' # None => Seen(bound')) /\ (landed' # None => Seen(landed'))
  BY <1>basics, <1>4 DEF MergeFacts
<1> QED
  BY <1>1, <1>2, <1>5 DEF MergeFacts, Seen

\* "A head that moves after this check would merge unreviewed": what was merged is the change
\* of a completed pass, whatever was pushed, planned or typed in between.
THEOREM MergedWasReviewedAlways == PrecloseSpec => []MergedWasReviewed
<1>1. MergeInv => MergedWasReviewed
  BY DEF MergeInv, MergeFacts, Seen, MergedWasReviewed
<1> QED
  BY <1>1, MergeInit, MergeStep, PTL DEF PrecloseSpec

-----------------------------------------------------------------------------
(***************************************************************************)
(* Two unforced passes an epoch.                                           *)
(***************************************************************************)
RanOf(e) == {j \in DOMAIN ran : ran[j].mode # "cluster" /\ ran[j].epoch = e}
PassesOf(e) == {i \in DOMAIN receipt.passes : receipt.passes[i].epoch = e}

\* The receipt counts what was recorded.
SameCount == \A e \in Nat : Cardinality(RanOf(e)) = Cardinality(PassesOf(e))

CapInv == Basics /\ SameCount /\ CapHolds

LEMMA CapInit == PrecloseInit => CapInv
<1> SUFFICES ASSUME PrecloseInit PROVE SameCount /\ CapHolds
  BY BasicsInit DEF CapInv
<1>1. ran = <<>> /\ receipt.passes = <<>>
  BY DEF PrecloseInit
<1>2. \A e \in Nat : RanOf(e) = {} /\ PassesOf(e) = {}
  BY <1>1 DEF RanOf, PassesOf
<1>3. SameCount
  BY <1>2 DEF SameCount
<1>4. CapHolds
  BY <1>1 DEF CapHolds
<1> QED
  BY <1>3, <1>4

\* The set of numbers up to n + 1 that satisfy a condition, by the set up to n.
LEMMA CountOneMore ==
  ASSUME NEW n \in Nat, NEW S, S \subseteq 1..n
  PROVE  /\ IsFiniteSet(S) /\ Cardinality(S) \in Nat
         /\ Cardinality(S \cup {n + 1}) = Cardinality(S) + 1
<1>1. IsFiniteSet(1..n)
  BY FS_Interval
<1>2. IsFiniteSet(S)
  BY <1>1, FS_Subset
<1>3. n + 1 \notin S
  OBVIOUS
<1> QED
  BY <1>2, <1>3, FS_AddElement, FS_CardinalityType

LEMMA CapStep == CapInv /\ [PrecloseNext]_precloseVars => CapInv'
<1> SUFFICES ASSUME CapInv, [PrecloseNext]_precloseVars PROVE SameCount' /\ CapHolds'
  BY BasicsStep DEF CapInv
<1>basics. PrecloseTypes /\ PassesMove /\ SameCount /\ CapHolds
  BY BasicsStep DEF CapInv, Basics
<1>ran. /\ Len(ran) \in Nat /\ DOMAIN ran = 1..Len(ran)
        /\ \A i \in DOMAIN ran : ran[i] \in RanEntries
        /\ receipt.passes \in Seq(Passes) /\ Grows(receipt.passes)
  BY <1>basics, RanFacts
<1> DEFINE Before(h, i) == {j \in 1..(i - 1) : h[j].mode # "cluster" /\ h[j].epoch = h[i].epoch}
<1>1. CASE PassesStay
  <2>1. ran' = ran /\ \A e \in Nat : RanOf(e)' = RanOf(e) /\ PassesOf(e)' = PassesOf(e)
    BY <1>1 DEF PassesStay, RanOf, PassesOf
  <2> QED
    BY <1>basics, <2>1 DEF SameCount, CapHolds
\* An entry that is not an unforced pass adds nothing to what CapHolds counts before others.
<1>old. ASSUME NEW x \in RanEntries, ran' = Append(ran, x),
               x.mode = "no" => Cardinality(RanOf(x.epoch)) < MAX_PASSES
        PROVE  CapHolds'
  <2>1. /\ Len(ran') = Len(ran) + 1 /\ DOMAIN ran' = 1..(Len(ran) + 1)
        /\ \A i \in 1..Len(ran) : ran'[i] = ran[i]
        /\ ran'[Len(ran) + 1] = x
    BY <1>basics, <1>old, RanAppended
  <2> SUFFICES ASSUME NEW i \in 1..(Len(ran) + 1), ran'[i].mode = "no"
               PROVE  Cardinality(Before(ran', i)) < MAX_PASSES
    BY <2>1 DEF CapHolds
  <2>2. CASE i \in 1..Len(ran)
    <3>1. Before(ran', i) = Before(ran, i) /\ ran[i].mode = "no"
      BY <1>ran, <2>1, <2>2
    <3>2. Cardinality(Before(ran, i)) < MAX_PASSES
      BY <1>basics, <1>ran, <2>2, <3>1 DEF CapHolds
    <3> QED
      BY <3>1, <3>2
  <2>3. CASE i = Len(ran) + 1
    <3>1. Before(ran', i) = RanOf(x.epoch) /\ x.mode = "no"
      BY <1>ran, <2>1, <2>3 DEF RanOf
    <3> QED
      BY <1>old, <3>1
  <2> QED
    BY <1>ran, <2>2, <2>3
<1>2. ASSUME NEW x \in RanEntries, Corrects(x) PROVE SameCount' /\ CapHolds'
  <2>1. receipt'.passes = receipt.passes /\ ran' = Append(ran, x) /\ x.mode = "cluster"
    BY <1>2 DEF Corrects
  <2>2. /\ DOMAIN ran' = 1..(Len(ran) + 1)
        /\ \A i \in 1..Len(ran) : ran'[i] = ran[i]
        /\ ran'[Len(ran) + 1] = x
    BY <1>basics, <2>1, RanAppended
  <2>3. \A e \in Nat : RanOf(e)' = RanOf(e) /\ PassesOf(e)' = PassesOf(e)
    BY <1>ran, <2>1, <2>2 DEF RanOf, PassesOf
  <2>4. CapHolds'
    BY <1>old, <2>1
  <2> QED
    BY <1>basics, <2>3, <2>4 DEF SameCount
<1>3. ASSUME NEW p \in Passes, NEW x \in RanEntries, Completes(p, x) PROVE SameCount' /\ CapHolds'
  <2>1. /\ receipt'.passes = Append(receipt.passes, p) /\ ran' = Append(ran, x)
        /\ p.epoch = x.epoch /\ x.mode # "cluster" /\ x.epoch \in Nat
    BY <1>3 DEF Completes, RanEntries
  <2>2. /\ DOMAIN ran' = 1..(Len(ran) + 1)
        /\ \A i \in 1..Len(ran) : ran'[i] = ran[i]
        /\ ran'[Len(ran) + 1] = x
    BY <1>basics, <2>1, RanAppended
  <2> DEFINE n == Len(receipt.passes)
             m == Len(ran)
  <2>3. /\ n \in Nat /\ DOMAIN receipt.passes = 1..n /\ DOMAIN receipt'.passes = 1..(n + 1)
        /\ \A i \in 1..n : receipt'.passes[i] = receipt.passes[i]
        /\ receipt'.passes[n + 1] = p
    BY <1>basics, <2>1, PassAppended
  <2>4. m \in Nat /\ DOMAIN ran = 1..m /\ DOMAIN ran' = 1..(m + 1)
        /\ (\A i \in 1..m : ran'[i] = ran[i]) /\ ran'[m + 1] = x
    BY <1>ran, <2>2
  <2> HIDE DEF n, m
  <2>5. ASSUME NEW e \in Nat PROVE Cardinality(RanOf(e)') = Cardinality(PassesOf(e)')
    <3>1. RanOf(e) \subseteq 1..m /\ PassesOf(e) \subseteq 1..n
      BY <2>3, <2>4 DEF RanOf, PassesOf
    <3>2. Cardinality(RanOf(e)) = Cardinality(PassesOf(e))
      BY <1>basics DEF SameCount
    <3>3. CASE e = x.epoch
      <4>1. RanOf(e)' = RanOf(e) \cup {m + 1}
        BY <2>1, <2>4, <3>3 DEF RanOf
      <4>2. PassesOf(e)' = PassesOf(e) \cup {n + 1}
        BY <2>1, <2>3, <3>3 DEF PassesOf
      <4>3. /\ Cardinality(RanOf(e) \cup {m + 1}) = Cardinality(RanOf(e)) + 1
            /\ Cardinality(PassesOf(e) \cup {n + 1}) = Cardinality(PassesOf(e)) + 1
        BY <2>3, <2>4, <3>1, CountOneMore
      <4> QED
        BY <3>2, <4>1, <4>2, <4>3
    <3>4. CASE e # x.epoch
      <4>1. RanOf(e)' = RanOf(e)
        BY <2>1, <2>4, <3>4 DEF RanOf
      <4>2. PassesOf(e)' = PassesOf(e)
        BY <2>1, <2>3, <3>4 DEF PassesOf
      <4> QED
        BY <3>2, <4>1, <4>2
    <3> QED
      BY <3>3, <3>4
  <2>6. x.mode = "no" => Cardinality(RanOf(x.epoch)) < MAX_PASSES
    <3> SUFFICES ASSUME x.mode = "no" PROVE Cardinality(RanOf(x.epoch)) < MAX_PASSES
      OBVIOUS
    <3>1. Unforced(x)
      <4>1. ~Pays(x)
        BY <1>basics, HolderFacts DEF Pays, PrecloseTypes, Modes
      <4> QED
        BY <1>3, <4>1 DEF Completes
    <3>2. PassesOf(x.epoch) = Current(receipt.passes)
      BY <3>1 DEF Unforced, PassesOf, Current
    <3>3. Cardinality(RanOf(x.epoch)) = Cardinality(PassesOf(x.epoch))
      BY <1>basics, <2>1 DEF SameCount
    <3> QED
      BY <3>1, <3>2, <3>3 DEF Unforced
  <2>7. CapHolds'
    BY <1>old, <2>1, <2>6
  <2> QED
    BY <2>5, <2>7 DEF SameCount
<1> QED
  BY <1>basics, <1>1, <1>2, <1>3 DEF PassesMove

\* "At most two passes per issue": an unforced pass is the first or the second of its epoch,
\* whatever plans, rulings, checks and reforges were written between.
THEOREM CapHoldsAlways == PrecloseSpec => []CapHolds
<1>1. CapInv => CapHolds
  BY DEF CapInv
<1> QED
  BY <1>1, CapInit, CapStep, PTL DEF PrecloseSpec

-----------------------------------------------------------------------------
(***************************************************************************)
(* Every force is on the record, and paid once.                            *)
(***************************************************************************)

\* A spent grant in hand is of the command that holds the lock, and bought nothing yet.
InHand ==
  holder # None /\ holder.op = "spent" =>
    LET g == holder.grant IN
    /\ g \in DOMAIN forces /\ forces[g].status = "consumed"
    /\ forces[g].mode = holder.mode /\ forces[g].head = holder.head
    /\ \A j \in DOMAIN ran : ran[j].grant # g

UnforcedPaysNothing == \A i \in DOMAIN ran : ran[i].mode = "no" => ran[i].grant = 0

ForceInv == Basics /\ InHand /\ UnforcedPaysNothing /\ ForcesOnRecord

LEMMA ForceInit == PrecloseInit => ForceInv
  BY BasicsInit DEF PrecloseInit, ForceInv, InHand, UnforcedPaysNothing, ForcesOnRecord

\* Nothing but Reserve makes a spent grant, and it spends a usable one.
LEMMA HandStep ==
  ASSUME PrecloseTypes, [PrecloseNext]_precloseVars, holder' # None, holder'.op = "spent"
  PROVE  /\ ran' = ran
         /\ holder' = holder \/ Reserve
<1>1. CASE LockedSteps
  <2>1. CASE Reserve
    BY <2>1 DEF Reserve
  <2>2. CASE LockedSteps /\ ~Reserve
    BY <2>2 DEF LockedSteps, Plan, CompletePass, StartForce, StartCorrection, ClusterVerdict,
       RecordForced, RecordCorrection, ForceGivesUp, PostVerdict, KillStart, Waive, KillEnd
  <2> QED
    BY <1>1, <2>1, <2>2
<1>2. CASE Others \/ UNCHANGED precloseVars
  BY <1>2 DEF Others, HookRead, HookWrite, RecordRead, RecordPost, RecordFinish, RecordDie, ForceExpires,
     WaiverMoves, PushHead, AllowMerge, MergeLands, fileVars, precloseVars
<1> QED
  BY <1>1, <1>2 DEF PrecloseNext

LEMMA ForceStep == ForceInv /\ [PrecloseNext]_precloseVars => ForceInv'
<1> SUFFICES ASSUME ForceInv, [PrecloseNext]_precloseVars
             PROVE  InHand' /\ UnforcedPaysNothing' /\ ForcesOnRecord'
  BY BasicsStep DEF ForceInv
<1>basics. PrecloseTypes /\ GrantKnown /\ PassesMove /\ AllAdvance /\ InHand /\ UnforcedPaysNothing /\ ForcesOnRecord
  BY BasicsStep DEF ForceInv, Basics
<1>ran. /\ Len(ran) \in Nat /\ DOMAIN ran = 1..Len(ran)
        /\ \A i \in DOMAIN ran : ran[i] \in RanEntries
  BY <1>basics, RanFacts
<1>grants. /\ forces \in Seq(GrantRecords) /\ DOMAIN forces = 1..Len(forces) /\ Len(forces) \in Nat
           /\ \A g \in DOMAIN forces : forces[g] \in GrantRecords
           /\ 0 \notin DOMAIN forces
  <2>1. forces \in Seq(GrantRecords)
    BY <1>basics DEF PrecloseTypes, GrantTypes
  <2> QED
    BY <2>1, LenProperties, ElementOfSeq
<1>1. InHand'
  <2> SUFFICES ASSUME holder' # None, holder'.op = "spent" PROVE InHand'
    BY DEF InHand
  <2>1. ran' = ran /\ (holder' = holder \/ Reserve)
    BY <1>basics, HandStep
  <2>2. CASE holder' = holder
    BY <1>basics, <2>1, <2>2 DEF InHand, AllAdvance, Advances
  <2>3. CASE Reserve
    <3>1. /\ holder # None /\ holder.op = "force" /\ holder' = [holder EXCEPT !.op = "spent", !.grant = File]
          /\ forces # <<>> /\ forces[File].status = "usable"
          /\ forces[File].mode = holder.mode /\ forces[File].head = holder.head
          /\ forces' = [forces EXCEPT ![File].status = "consumed"]
      BY <2>3 DEF Reserve, Usable
    <3>2. File \in DOMAIN forces
      BY <1>grants, <3>1, EmptySeq DEF File
    <3>3. forces'[File].status = "consumed"
      BY <1>grants, <3>1, <3>2 DEF GrantRecords
    <3>4. forces'[File].mode = holder.mode /\ forces'[File].head = holder.head /\ File \in DOMAIN forces'
      BY <1>basics, <3>1, <3>2 DEF AllAdvance, Advances
    <3>5. holder'.mode = holder.mode /\ holder'.head = holder.head /\ holder'.grant = File
      <4>1. holder \in [op: {"force", "spent"}, mode: Modes, head: BranchHeads, grant: Nat, verdict: {"none", "PATCH", "REFORGE"}]
        BY <1>basics, <3>1 DEF PrecloseTypes, OtherTypes, HolderJobs
      <4> HIDE DEF File
      <4> QED
        BY <3>1, <4>1
    <3>6. ASSUME NEW j \in DOMAIN ran PROVE ran[j].grant # File
      <4>1. CASE ran[j].mode = "no"
        BY <1>basics, <1>grants, <3>2, <4>1 DEF UnforcedPaysNothing
      <4>2. CASE ran[j].mode # "no"
        BY <1>basics, <3>1, <4>2 DEF ForcesOnRecord
      <4> QED
        BY <4>1, <4>2
    <3> HIDE DEF File
    <3> QED
      BY <2>1, <3>3, <3>4, <3>5, <3>6 DEF InHand
  <2> QED
    BY <2>1, <2>2, <2>3
\* What is on record stays on record.
<1>stays. ASSUME NEW i \in DOMAIN ran, ran[i].mode # "no"
          PROVE  LET g == ran[i].grant IN
                 /\ g \in DOMAIN forces /\ g \in DOMAIN forces'
                 /\ forces'[g].posted /\ forces'[g].status = "consumed"
                 /\ forces'[g].mode = ran[i].mode /\ forces'[g].head = ran[i].head
  BY <1>basics, <1>stays DEF ForcesOnRecord, AllAdvance, Advances
<1>2. CASE PassesStay
  <2>1. ran' = ran
    BY <1>2 DEF PassesStay
  <2> QED
    BY <1>basics, <1>1, <1>stays, <2>1 DEF UnforcedPaysNothing, ForcesOnRecord
<1>3. ASSUME NEW x \in RanEntries, ran' = Append(ran, x), forces' = forces, (x.mode = "no" /\ x.grant = 0) \/ Pays(x)
      PROVE  UnforcedPaysNothing' /\ ForcesOnRecord'
  <2>1. /\ DOMAIN ran' = 1..(Len(ran) + 1)
        /\ \A i \in 1..Len(ran) : ran'[i] = ran[i]
        /\ ran'[Len(ran) + 1] = x
    BY <1>basics, <1>3, RanAppended
  <2> DEFINE n == Len(ran)
             g == x.grant
  <2>2. CASE x.mode = "no" /\ g = 0
    <3>1. UnforcedPaysNothing'
      BY <1>basics, <1>ran, <2>1, <2>2 DEF UnforcedPaysNothing
    <3>2. \A j \in 1..(n + 1) : ran'[j].mode # "no" => j \in 1..n
      BY <1>ran, <2>1, <2>2
    <3> SUFFICES ASSUME NEW i \in 1..n, ran[i].mode # "no"
                 PROVE  LET k == ran[i].grant IN
                        /\ k \in DOMAIN forces
                        /\ forces[k].posted /\ forces[k].status = "consumed"
                        /\ forces[k].mode = ran[i].mode /\ forces[k].head = ran[i].head
                        /\ \A j \in 1..(n + 1) \ {i} : ran'[j].grant # k
      BY <1>3, <2>1, <3>1, <3>2 DEF ForcesOnRecord
    <3>3. \A j \in 1..n \ {i} : ran'[j].grant # ran[i].grant
      BY <1>basics, <1>ran, <2>1 DEF ForcesOnRecord
    <3>4. ran'[n + 1].grant # ran[i].grant
      BY <1>grants, <1>ran, <1>stays, <2>1, <2>2
    <3> QED
      BY <1>basics, <1>ran, <3>3, <3>4 DEF ForcesOnRecord
  <2>3. CASE Pays(x)
    <3>1. /\ g \in DOMAIN forces /\ forces[g].status = "consumed"
          /\ forces[g].mode = x.mode /\ forces[g].head = x.head
          /\ \A j \in DOMAIN ran : ran[j].grant # g
      BY <1>basics, <2>3 DEF InHand, Pays
    <3>2. forces[g].posted /\ x.mode # "no"
      <4>1. forces[g].posted
        BY <1>basics, <3>1 DEF GrantKnown, PostedFirst
      <4>2. x.mode \in Modes
        BY <1>grants, <3>1 DEF GrantRecords
      <4> QED
        BY <4>1, <4>2 DEF Modes
    <3>3. UnforcedPaysNothing'
      BY <1>basics, <1>ran, <2>1, <3>2 DEF UnforcedPaysNothing
    <3> HIDE DEF g
    <3>4. ASSUME NEW i \in 1..n, ran[i].mode # "no"
          PROVE  LET k == ran[i].grant IN
                 /\ k \in DOMAIN forces
                 /\ forces[k].posted /\ forces[k].status = "consumed"
                 /\ forces[k].mode = ran[i].mode /\ forces[k].head = ran[i].head
                 /\ \A j \in 1..(n + 1) \ {i} : ran'[j].grant # k
      <4>1. \A j \in 1..n \ {i} : ran'[j].grant # ran[i].grant
        BY <1>basics, <1>ran, <2>1, <3>4 DEF ForcesOnRecord
      <4>2. ran'[n + 1].grant # ran[i].grant
        BY <1>ran, <2>1, <3>1 DEF g
      <4> QED
        BY <1>basics, <1>ran, <3>4, <4>1, <4>2 DEF ForcesOnRecord
    <3>5. \A j \in 1..n : ran'[j].grant # g
      BY <1>ran, <2>1, <3>1
    <3>6. ForcesOnRecord'
      <4> SUFFICES ASSUME NEW i \in 1..(n + 1), ran'[i].mode # "no"
                   PROVE  LET k == ran'[i].grant IN
                          /\ k \in DOMAIN forces
                          /\ forces[k].posted /\ forces[k].status = "consumed"
                          /\ forces[k].mode = ran'[i].mode /\ forces[k].head = ran'[i].head
                          /\ \A j \in 1..(n + 1) \ {i} : ran'[j].grant # k
        BY <1>3, <2>1 DEF ForcesOnRecord
      <4>1. CASE i \in 1..n
        BY <2>1, <3>4, <4>1
      <4>2. CASE i = n + 1
        BY <1>ran, <2>1, <3>1, <3>2, <3>5, <4>2 DEF g
      <4> QED
        BY <1>ran, <4>1, <4>2
    <3> QED
      BY <3>3, <3>6
  <2> QED
    BY <1>3, <2>2, <2>3
<1>4. CASE \E p \in Passes, x \in RanEntries : Completes(p, x)
  BY <1>1, <1>3, <1>4 DEF Completes, Unforced, Pays
<1>5. CASE \E x \in RanEntries : Corrects(x)
  BY <1>1, <1>3, <1>5 DEF Corrects, Pays
<1> QED
  BY <1>basics, <1>1, <1>2, <1>4, <1>5 DEF PassesMove

\* force_grant.py: each forced pass and each corrected ruling has a posted, spent grant of its
\* mode and head, and no two have the same.
THEOREM ForcesOnRecordAlways == PrecloseSpec => []ForcesOnRecord
<1>1. ForceInv => ForcesOnRecord
  BY DEF ForceInv
<1> QED
  BY <1>1, ForceInit, ForceStep, PTL DEF PrecloseSpec

-----------------------------------------------------------------------------
(***************************************************************************)
(* FORCE grants are single-use grants.                                     *)
(***************************************************************************)
GrantNos == 1..MaxGrants

GrantRoom == Len(forces) <= MaxGrants /\ (typing # None => Len(forces) < MaxGrants)

PendingUnopened == \A g \in DOMAIN forces : forces[g].status = "pending" => ~forces[g].opened

ContractInv == ForceInv /\ GrantRoom /\ PendingUnopened

\* The steps that write a grant.
GrantWrites ==
  \/ Reserve \/ HookWrite \/ ForceExpires
  \/ \E r \in Recorders : RecordPost(r) \/ RecordFinish(r)

LEMMA GrantWritesOnly ==
  ASSUME [PrecloseNext]_precloseVars
  PROVE  \/ GrantWrites /\ ran' = ran
         \/ forces' = forces /\ (typing' = typing \/ Len(forces) < MaxGrants)
<1>1. CASE LockedSteps
  <2>1. CASE Reserve
    BY <2>1 DEF Reserve, GrantWrites
  <2>2. CASE LockedSteps /\ ~Reserve
    BY <2>2 DEF LockedSteps, Plan, CompletePass, StartForce, StartCorrection, ClusterVerdict,
       RecordForced, RecordCorrection, ForceGivesUp, PostVerdict, KillStart, Waive, KillEnd, grantVars
  <2> QED
    BY <1>1, <2>1, <2>2
<1>2. CASE GrantWrites /\ ran' = ran
  BY <1>2
<1>3. ASSUME NEW r \in Recorders, RecordPost(r) \/ RecordFinish(r) PROVE GrantWrites /\ ran' = ran
  BY <1>3 DEF RecordPost, RecordFinish, GrantWrites
<1>4. HookWrite \/ ForceExpires => GrantWrites /\ ran' = ran
  BY DEF HookWrite, ForceExpires, GrantWrites
<1>5. CASE \/ \E mode \in Modes, h \in BranchHeads : HookRead(mode, h)
           \/ \E r \in Recorders : RecordRead(r) \/ RecordDie(r)
           \/ \E to \in {"none", "hook", "pending", "recorded"} : WaiverMoves(to)
           \/ \E h \in BranchHeads : PushHead(h)
           \/ \E replayed \in BOOLEAN : AllowMerge(replayed)
           \/ MergeLands
           \/ UNCHANGED precloseVars
  BY <1>5 DEF HookRead, RecordRead, RecordDie, WaiverMoves, PushHead, AllowMerge, MergeLands, File,
     grantVars, precloseVars
<1> QED
  BY <1>1, <1>3, <1>4, <1>5 DEF PrecloseNext, Others

\* The grant numbered i moves from a to b, and no other.
Moves(i, b) ==
  /\ i \in DOMAIN forces /\ DOMAIN forces' = DOMAIN forces /\ Len(forces') = Len(forces)
  /\ forces'[i] = b
  /\ \A j \in DOMAIN forces \ {i} : forces'[j] = forces[j]

MovesOne ==
  \/ \E i \in DOMAIN forces : Moves(i, [forces[i] EXCEPT !.posted = TRUE])
  \/ /\ forces[File].status = "usable" /\ forces[File].live
     /\ Moves(File, [forces[File] EXCEPT !.status = "consumed"])
  \/ /\ forces[File].status = "pending"
     /\ Moves(File, [forces[File] EXCEPT !.status = "usable", !.opened = forces[File].live])
  \/ Moves(File, [forces[File] EXCEPT !.live = FALSE])

LEMMA MovesForm ==
  ASSUME NEW fs \in Seq(GrantRecords), NEW i \in DOMAIN fs, NEW b
  PROVE  LET new == [fs EXCEPT ![i] = b] IN
         /\ DOMAIN new = DOMAIN fs /\ Len(new) = Len(fs) /\ new[i] = b
         /\ \A j \in DOMAIN fs \ {i} : new[j] = fs[j]
<1>1. DOMAIN fs = 1..Len(fs) /\ Len(fs) \in Nat
  BY LenProperties
<1> QED
  BY <1>1

LEMMA MovesOneStep ==
  ASSUME PrecloseTypes, GrantWrites PROVE forces' = forces \/ HookWrite \/ (typing' = typing /\ MovesOne)
<1>seq. /\ forces \in Seq(GrantRecords) /\ DOMAIN forces = 1..Len(forces) /\ Len(forces) \in Nat
        /\ \A g \in DOMAIN forces : forces[g] \in GrantRecords
        /\ forces # <<>> => File \in DOMAIN forces
        /\ File = Len(forces)
  BY LenProperties, ElementOfSeq, EmptySeq DEF PrecloseTypes, GrantTypes, File
<1>1. CASE Reserve
  <2>1. /\ forces[File].status = "usable" /\ forces[File].live /\ typing' = typing
        /\ File \in DOMAIN forces
        /\ forces' = [forces EXCEPT ![File] = [forces[File] EXCEPT !.status = "consumed"]]
    BY <1>1, <1>seq DEF Reserve, Usable
  <2> HIDE DEF File
  <2>2. Moves(File, [forces[File] EXCEPT !.status = "consumed"])
    BY <1>seq, <2>1, MovesForm DEF Moves
  <2> QED
    BY <2>1, <2>2 DEF MovesOne
<1>2. CASE ForceExpires
  <2>1. /\ typing' = typing /\ File \in DOMAIN forces
        /\ forces' = [forces EXCEPT ![File] = [forces[File] EXCEPT !.live = FALSE]]
    BY <1>2, <1>seq DEF ForceExpires
  <2> HIDE DEF File
  <2>2. Moves(File, [forces[File] EXCEPT !.live = FALSE])
    BY <1>seq, <2>1, MovesForm DEF Moves
  <2> QED
    BY <2>1, <2>2 DEF MovesOne
<1>3. ASSUME NEW r \in Recorders, RecordPost(r) PROVE typing' = typing /\ MovesOne
  <2> DEFINE i == rec[r].g
  <2>1. /\ typing' = typing /\ i \in DOMAIN forces
        /\ forces' = [forces EXCEPT ![i] = [forces[i] EXCEPT !.posted = TRUE]]
    BY <1>3 DEF RecordPost, PrecloseTypes, GrantTypes
  <2> HIDE DEF i
  <2>2. Moves(i, [forces[i] EXCEPT !.posted = TRUE])
    BY <1>seq, <2>1, MovesForm DEF Moves
  <2> QED
    BY <2>1, <2>2 DEF MovesOne
<1>4. ASSUME NEW r \in Recorders, RecordFinish(r), forces' # forces PROVE typing' = typing /\ MovesOne
  <2> DEFINE mid == [forces EXCEPT ![File].status = "usable"]
  <2>1. /\ typing' = typing /\ File = rec[r].g /\ forces[File].status = "pending"
        /\ rec[r].pc = "posted"
        /\ forces' = [mid EXCEPT ![File].opened = forces[File].live]
    BY <1>4 DEF RecordFinish
  <2>2. File \in DOMAIN forces
    BY <2>1 DEF PrecloseTypes, GrantTypes
  <2> HIDE DEF File
  <2>3. /\ DOMAIN mid = DOMAIN forces
        /\ mid[File] = [forces[File] EXCEPT !.status = "usable"]
        /\ \A j \in DOMAIN forces \ {File} : mid[j] = forces[j]
        /\ mid = [j \in 1..Len(forces) |-> mid[j]]
    BY <1>seq, <2>2
  <2> HIDE DEF mid
  <2>4. /\ DOMAIN forces' = 1..Len(forces)
        /\ forces'[File] = [mid[File] EXCEPT !.opened = forces[File].live]
        /\ \A j \in DOMAIN forces \ {File} : forces'[j] = forces[j]
    BY <1>seq, <2>1, <2>2, <2>3
  <2>5. forces'[File] = [forces[File] EXCEPT !.status = "usable", !.opened = forces[File].live]
    BY <2>3, <2>4
  <2>6. Len(forces') = Len(forces)
    BY <1>seq, <2>4 , <2>1, <2>3
  <2>7. Moves(File, [forces[File] EXCEPT !.status = "usable", !.opened = forces[File].live])
    BY <1>seq, <2>2, <2>4, <2>5, <2>6 DEF Moves
  <2> QED
    BY <2>1, <2>7 DEF MovesOne
<1> QED
  BY <1>1, <1>2, <1>3, <1>4 DEF GrantWrites

LEMMA GrantRoomStep == PrecloseTypes /\ GrantRoom /\ [PrecloseNext]_precloseVars => GrantRoom'
<1> SUFFICES ASSUME PrecloseTypes, GrantRoom, [PrecloseNext]_precloseVars PROVE GrantRoom'
  OBVIOUS
<1>seq. forces \in Seq(GrantRecords) /\ Len(forces) \in Nat /\ DOMAIN forces = 1..Len(forces)
  BY LenProperties DEF PrecloseTypes, GrantTypes
<1>1. CASE forces' = forces /\ (typing' = typing \/ Len(forces) < MaxGrants)
  BY <1>1 DEF GrantRoom
<1>2. CASE HookWrite
  <2>1. typing # None /\ typing' = None /\ \E e : forces' = Append(forces, e)
    BY <1>2 DEF HookWrite
  <2>2. Len(forces') = Len(forces) + 1
    BY <1>seq, <2>1
  <2> QED
    BY <1>seq, <2>1, <2>2, PrecloseAssumption DEF GrantRoom
<1>3. CASE typing' = typing /\ MovesOne
  <2>1. Len(forces') = Len(forces)
    BY <1>3 DEF MovesOne, Moves
  <2> QED
    BY <1>3, <2>1 DEF GrantRoom
<1>4. CASE forces' = forces /\ GrantWrites /\ ~HookWrite
  <2>1. typing' = typing
    BY <1>4 DEF GrantWrites, Reserve, ForceExpires, RecordPost, RecordFinish
  <2> QED
    BY <1>4, <2>1 DEF GrantRoom
<1> QED
  BY <1>1, <1>2, <1>3, <1>4, GrantWritesOnly, MovesOneStep

LEMMA PendingUnopenedStep ==
  ASSUME PrecloseTypes, PendingUnopened, [PrecloseNext]_precloseVars PROVE PendingUnopened'
<1>seq. /\ forces \in Seq(GrantRecords) /\ DOMAIN forces = 1..Len(forces) /\ Len(forces) \in Nat
        /\ \A g \in DOMAIN forces : forces[g] \in GrantRecords
  BY LenProperties, ElementOfSeq DEF PrecloseTypes, GrantTypes
<1>1. CASE forces' = forces
  BY <1>1 DEF PendingUnopened
<1>2. CASE HookWrite
  <2> DEFINE e == [mode |-> typing.mode, head |-> typing.head, live |-> TRUE,
                   posted |-> FALSE, opened |-> FALSE, status |-> "pending"]
  <2>1. forces' = Append(forces, e) /\ ~e.opened
    BY <1>2 DEF HookWrite
  <2> HIDE DEF e
  <2> QED
    BY <1>seq, <2>1 DEF PendingUnopened
<1>3. CASE MovesOne
  <2>1. PICK i, b :
          /\ i \in DOMAIN forces /\ Moves(i, b)
          /\ b.status = "pending" => forces[i].status = "pending" /\ b.opened = forces[i].opened
    <3>1. ASSUME NEW g \in DOMAIN forces
          PROVE  LET a == forces[g] IN
                 /\ [a EXCEPT !.posted = TRUE].status = a.status
                 /\ [a EXCEPT !.posted = TRUE].opened = a.opened
                 /\ [a EXCEPT !.live = FALSE].status = a.status
                 /\ [a EXCEPT !.live = FALSE].opened = a.opened
                 /\ [a EXCEPT !.status = "consumed"].status = "consumed"
                 /\ [a EXCEPT !.status = "usable", !.opened = a.live].status = "usable"
      BY <1>seq DEF GrantRecords
    <3> DEFINE Good(g, b) == /\ Moves(g, b)
                             /\ b.status = "pending" => forces[g].status = "pending" /\ b.opened = forces[g].opened
    <3>2. \A g, b : Moves(g, b) => g \in DOMAIN forces
      BY DEF Moves
    <3>3. ASSUME NEW g \in DOMAIN forces, Moves(g, [forces[g] EXCEPT !.posted = TRUE])
          PROVE  Good(g, [forces[g] EXCEPT !.posted = TRUE])
      BY <3>1, <3>3
    <3>4. ASSUME Moves(File, [forces[File] EXCEPT !.status = "consumed"])
          PROVE  Good(File, [forces[File] EXCEPT !.status = "consumed"])
      BY <3>1, <3>2, <3>4
    <3>5. ASSUME Moves(File, [forces[File] EXCEPT !.status = "usable", !.opened = forces[File].live])
          PROVE  Good(File, [forces[File] EXCEPT !.status = "usable", !.opened = forces[File].live])
      BY <3>1, <3>2, <3>5
    <3>6. ASSUME Moves(File, [forces[File] EXCEPT !.live = FALSE])
          PROVE  Good(File, [forces[File] EXCEPT !.live = FALSE])
      BY <3>1, <3>2, <3>6
    <3>7. \A g, b : Good(g, b) => g \in DOMAIN forces
      BY <3>2
    <3>8. \E g, b : Good(g, b)
      <4> HIDE DEF Good
      <4> QED
        BY <1>3, <3>3, <3>4, <3>5, <3>6 DEF MovesOne
    <3> QED
      BY <3>7, <3>8
  <2> QED
    BY <1>seq, <2>1 DEF Moves, PendingUnopened
<1> QED
  BY <1>1, <1>2, <1>3, GrantWritesOnly, MovesOneStep

\* Steps that void, or leave alone, what they do not open, spend or run.
LEMMA VoidsShow ==
  ASSUME NEW S \in SUBSET GrantNos, ran' = ran,
         \A g \in S : Standing(g) \in {"unminted", "open"} /\ Standing(g)' = "void",
         \A g \in GrantNos \ S : Standing(g)' = Standing(g),
         \A g \in GrantNos : Opened(g)' = Opened(g)
  PROVE  Contract!Next
<1>1. \A g \in S : AllStandings[g] \in {"unminted", "open"}
  BY DEF AllStandings, GrantNos
<1>2. AllStandings' = [g \in GrantNos |-> IF g \in S THEN "void" ELSE AllStandings[g]]
  BY DEF AllStandings, GrantNos
<1>3. AllOpened' = AllOpened /\ AllRuns' = AllRuns
  BY DEF AllOpened, AllRuns, Runs, GrantNos
<1>4. Contract!Void(S)
  BY <1>1, <1>2, <1>3 DEF Contract!Void, GrantNos
<1> QED
  BY <1>4 DEF Contract!Next, GrantNos

\* One grant moves: the others look as they did.
LEMMA OneMoveShows ==
  ASSUME PrecloseTypes, GrantRoom, NEW i, NEW b, Moves(i, b)
  PROVE  /\ i \in GrantNos /\ File' = File
         /\ \A g \in GrantNos \ {i} : Standing(g)' = Standing(g) /\ Opened(g)' = Opened(g)
         /\ Standing(i)' = (IF b.status = "consumed" THEN "spent"
                            ELSE IF ~b.live \/ i # File THEN "void"
                            ELSE IF b.status = "pending" THEN "unminted" ELSE "open")
         /\ Opened(i)' = (IF b.opened THEN [mode |-> b.mode, head |-> b.head] ELSE None)
<1>seq. DOMAIN forces = 1..Len(forces) /\ Len(forces) \in Nat
  BY LenProperties DEF PrecloseTypes, GrantTypes
<1>1. i \in GrantNos
  BY <1>seq, PrecloseAssumption DEF Moves, GrantRoom, GrantNos
<1>2. File' = File
  BY DEF Moves, File
<1> HIDE DEF File
<1>3. ASSUME NEW g \in GrantNos \ {i} PROVE Standing(g)' = Standing(g) /\ Opened(g)' = Opened(g)
  BY <1>2 DEF Moves, Standing, Opened
<1>4. i \in DOMAIN forces' /\ forces'[i] = b
  BY DEF Moves
<1> QED
  BY <1>1, <1>2, <1>3, <1>4 DEF Standing, Opened

\* A grant spent now was open, and one usable now was unminted: the contract's Spend and Open.
LEMMA WritesShow ==
  ASSUME PrecloseTypes, GrantRoom, PendingUnopened, MovesOne, ran' = ran
  PROVE  [Contract!Next]_(Contract!vars)
<1>seq. /\ forces \in Seq(GrantRecords) /\ DOMAIN forces = 1..Len(forces) /\ Len(forces) \in Nat
        /\ \A g \in DOMAIN forces : forces[g] \in GrantRecords
  BY LenProperties, ElementOfSeq DEF PrecloseTypes, GrantTypes
<1>same. ASSUME \A g \in GrantNos : Standing(g)' = Standing(g) /\ Opened(g)' = Opened(g)
         PROVE  UNCHANGED Contract!vars
  BY <1>same DEF Contract!vars, AllStandings, AllOpened, AllRuns, Runs, GrantNos
<1>known. ASSUME NEW i \in DOMAIN forces
          PROVE  /\ Standing(i) = (IF forces[i].status = "consumed" THEN "spent"
                                   ELSE IF ~forces[i].live \/ i # File THEN "void"
                                   ELSE IF forces[i].status = "pending" THEN "unminted" ELSE "open")
                 /\ Opened(i) = (IF forces[i].opened
                                 THEN [mode |-> forces[i].mode, head |-> forces[i].head] ELSE None)
  BY <1>known DEF Standing, Opened
<1>in. \A i, b : Moves(i, b) => i \in DOMAIN forces
  BY DEF Moves
<1>f. PICK f : f = File
  OBVIOUS
<1>1. ASSUME NEW i \in DOMAIN forces, Moves(i, [forces[i] EXCEPT !.posted = TRUE])
      PROVE  UNCHANGED Contract!vars
  <2> DEFINE b == [forces[i] EXCEPT !.posted = TRUE]
  <2>1. /\ b.status = forces[i].status /\ b.live = forces[i].live /\ b.opened = forces[i].opened
        /\ b.mode = forces[i].mode /\ b.head = forces[i].head
    BY <1>seq DEF GrantRecords
  <2>2. Moves(i, b)
    BY <1>1
  <2> HIDE DEF b
  <2>3. Standing(i)' = Standing(i) /\ Opened(i)' = Opened(i)
    BY <1>known, <2>1, <2>2, OneMoveShows
  <2>4. \A g \in GrantNos \ {i} : Standing(g)' = Standing(g) /\ Opened(g)' = Opened(g)
    BY <2>2, OneMoveShows
  <2> QED
    BY <1>same, <2>3, <2>4
<1>2. ASSUME forces[f].status = "usable", forces[f].live,
             Moves(f, [forces[f] EXCEPT !.status = "consumed"])
      PROVE  Contract!Next
  <2> DEFINE b == [forces[f] EXCEPT !.status = "consumed"]
  <2>0. f \in DOMAIN forces
    BY <1>in, <1>2
  <2>1. b.status = "consumed" /\ b.opened = forces[f].opened /\ b.mode = forces[f].mode
        /\ b.head = forces[f].head
    BY <1>seq, <2>0 DEF GrantRecords
  <2>2. Moves(f, b)
    BY <1>2
  <2> HIDE DEF b
  <2>3. /\ f \in GrantNos /\ Standing(f) = "open" /\ Standing(f)' = "spent"
        /\ Opened(f)' = Opened(f)
    BY <1>2, <1>known, <2>0, <2>1, <2>2, <1>f, OneMoveShows
  <2>4. \A g \in GrantNos \ {f} : Standing(g)' = Standing(g) /\ Opened(g)' = Opened(g)
    BY <2>2, <1>f, OneMoveShows
  <2>5. AllStandings[f] = "open" /\ AllStandings' = [AllStandings EXCEPT ![f] = "spent"]
    BY <2>3, <2>4 DEF AllStandings, GrantNos
  <2>6. AllOpened' = AllOpened /\ AllRuns' = AllRuns
    BY <2>3, <2>4 DEF AllOpened, AllRuns, Runs, GrantNos
  <2>7. Contract!Spend(f)
    BY <2>5, <2>6 DEF Contract!Spend
  <2> QED
    BY <2>3, <2>7 DEF Contract!Next, GrantNos
<1>3. ASSUME forces[f].status = "pending",
             Moves(f, [forces[f] EXCEPT !.status = "usable", !.opened = forces[f].live])
      PROVE  [Contract!Next]_(Contract!vars)
  <2> DEFINE b == [forces[f] EXCEPT !.status = "usable", !.opened = forces[f].live]
  <2>0. f \in DOMAIN forces
    BY <1>in, <1>3
  <2>1. /\ b.status = "usable" /\ b.opened = forces[f].live /\ b.live = forces[f].live
        /\ b.mode = forces[f].mode /\ b.head = forces[f].head
        /\ forces[f].mode \in Modes /\ forces[f].head \in BranchHeads
        /\ ~forces[f].opened
    BY <1>seq, <1>3, <2>0 DEF GrantRecords, PendingUnopened
  <2>2. Moves(f, b)
    BY <1>3
  <2> DEFINE a == [mode |-> forces[f].mode, head |-> forces[f].head]
  <2>3. a \in [mode: Modes, head: BranchHeads]
    BY <2>1
  <2>4. \A g \in GrantNos \ {f} : /\ Standing(g)' = Standing(g) /\ Opened(g)' = Opened(g)
                                     /\ Standing(g) # "open"
    <3>1. \A g \in GrantNos \ {f} : Standing(g)' = Standing(g) /\ Opened(g)' = Opened(g)
      BY <2>2, <1>f, OneMoveShows
    <3>2. \A g \in GrantNos \ {f} : Standing(g) # "open"
      BY <1>f DEF Standing
    <3> QED
      BY <3>1, <3>2
  <2> HIDE DEF b
  <2>5. CASE ~forces[f].live
    <3>1. Standing(f)' = Standing(f) /\ Opened(f)' = Opened(f)
      BY <1>known, <1>3, <2>0, <2>1, <2>2, <2>5, OneMoveShows
    <3> QED
      BY <1>same, <2>4, <3>1
  <2>6. CASE forces[f].live
    <3>1. /\ f \in GrantNos /\ Standing(f) = "unminted" /\ Standing(f)' = "open"
          /\ Opened(f)' = a
      <4>1. /\ f \in GrantNos
            /\ Standing(f)' = (IF b.status = "consumed" THEN "spent"
                               ELSE IF ~b.live \/ f # File THEN "void"
                               ELSE IF b.status = "pending" THEN "unminted" ELSE "open")
            /\ Opened(f)' = (IF b.opened THEN [mode |-> b.mode, head |-> b.head] ELSE None)
        BY <2>2, OneMoveShows
      <4>2. Standing(f) = "unminted"
        BY <1>known, <1>3, <1>f, <2>0, <2>6
      <4>3. Standing(f)' = "open" /\ Opened(f)' = a
        BY <1>f, <2>1, <2>6, <4>1
      <4> QED
        BY <4>1, <4>2, <4>3
    <3> HIDE DEF a
    <3>2. AllStandings[f] = "unminted" /\ AllStandings' = [AllStandings EXCEPT ![f] = "open"]
      BY <2>4, <3>1 DEF AllStandings, GrantNos
    <3>3. AllOpened' = [AllOpened EXCEPT ![f] = a] /\ AllRuns' = AllRuns
      BY <2>4, <3>1 DEF AllOpened, AllRuns, Runs, GrantNos
    <3>4. \A o \in GrantNos : AllStandings[o] # "open"
      BY <2>4, <3>1 DEF AllStandings, GrantNos
    <3>5. Contract!Open(f, a)
      BY <3>2, <3>3, <3>4 DEF Contract!Open, GrantNos
    <3> QED
      BY <2>3, <3>1, <3>5 DEF Contract!Next, GrantNos
  <2> QED
    BY <2>5, <2>6
<1>4. ASSUME Moves(f, [forces[f] EXCEPT !.live = FALSE])
      PROVE  [Contract!Next]_(Contract!vars)
  <2> DEFINE b == [forces[f] EXCEPT !.live = FALSE]
  <2>0. f \in DOMAIN forces
    BY <1>in, <1>4
  <2>1. /\ b.status = forces[f].status /\ ~b.live /\ b.opened = forces[f].opened
        /\ b.mode = forces[f].mode /\ b.head = forces[f].head
    BY <1>seq, <2>0 DEF GrantRecords
  <2>2. Moves(f, b)
    BY <1>4
  <2> HIDE DEF b
  <2>3. /\ f \in GrantNos /\ Opened(f)' = Opened(f)
        /\ Standing(f)' = IF Standing(f) = "spent" THEN "spent" ELSE "void"
        /\ Standing(f) \in {"spent", "void", "unminted", "open"}
    BY <1>known, <2>0, <2>1, <2>2, <1>f, OneMoveShows
  <2>4. \A g \in GrantNos \ {f} : Standing(g)' = Standing(g) /\ Opened(g)' = Opened(g)
    BY <2>2, <1>f, OneMoveShows
  <2>5. CASE Standing(f) \in {"spent", "void"}
    BY <1>same, <2>3, <2>4, <2>5
  <2>6. CASE Standing(f) \in {"unminted", "open"}
    <3>1. {f} \in SUBSET GrantNos
      BY <2>3
    <3> QED
      BY <2>3, <2>4, <2>6, <3>1, VoidsShow
  <2> QED
    BY <2>3, <2>5, <2>6
<1> QED
  BY <1>1, <1>2, <1>3, <1>4, <1>f DEF MovesOne

\* A line typed replaces the grant of the line before, which opens no more.
LEMMA LineShows ==
  ASSUME PrecloseTypes, HookWrite, ran' = ran PROVE Contract!Next
<1>seq. /\ forces \in Seq(GrantRecords) /\ DOMAIN forces = 1..Len(forces) /\ Len(forces) \in Nat
        /\ \A g \in DOMAIN forces : forces[g] \in GrantRecords
  BY LenProperties, ElementOfSeq DEF PrecloseTypes, GrantTypes
<1> DEFINE e == [mode |-> typing.mode, head |-> typing.head, live |-> TRUE,
                 posted |-> FALSE, opened |-> FALSE, status |-> "pending"]
           n == Len(forces)
           S == {g \in GrantNos : g = n /\ Standing(g) \in {"unminted", "open"}}
<1>1. forces' = Append(forces, e) /\ e.live /\ ~e.opened /\ e.status = "pending"
  BY DEF HookWrite
<1> HIDE DEF e
<1>2. /\ n \in Nat /\ DOMAIN forces = 1..n /\ DOMAIN forces' = 1..(n + 1) /\ File = n /\ File' = n + 1
      /\ \A g \in 1..n : forces'[g] = forces[g]
      /\ forces'[n + 1] = e
  BY <1>seq, <1>1 DEF File
<1> HIDE DEF n, File
<1>3. ASSUME NEW g \in GrantNos
      PROVE  /\ Opened(g)' = Opened(g)
             /\ g \in S => Standing(g) \in {"unminted", "open"} /\ Standing(g)' = "void"
             /\ g \notin S => Standing(g)' = Standing(g)
  <2>1. g \in Nat
    BY PrecloseAssumption DEF GrantNos
  <2>2. CASE g \in 1..n
    <3>1. g # n + 1 /\ g \in DOMAIN forces /\ g \in DOMAIN forces' /\ forces'[g] = forces[g]
      BY <1>2, <2>2
    <3> QED
      BY <1>2, <3>1 DEF Standing, Opened
  <2>3. CASE g = n + 1
    <3>1. g \notin DOMAIN forces /\ g \in DOMAIN forces' /\ forces'[g] = e /\ g # n
      BY <1>2, <2>3
    <3> QED
      BY <1>1, <1>2, <2>3, <3>1 DEF Standing, Opened
  <2>4. CASE g \notin 1..(n + 1)
    <3>1. g # n
      BY <1>2, <2>1, <2>4, PrecloseAssumption DEF GrantNos
    <3>2. g \notin DOMAIN forces /\ g \notin DOMAIN forces'
      BY <1>2, <2>4
    <3> QED
      BY <3>1, <3>2 DEF Standing, Opened
  <2> QED
    BY <1>2, <2>1, <2>2, <2>3, <2>4
<1>4. S \in SUBSET GrantNos
  OBVIOUS
<1> HIDE DEF S
<1> QED
  BY <1>3, <1>4, VoidsShow

\* A forced record is the one run of the grant it spent; an unforced one is no grant's.
LEMMA RecordShows ==
  ASSUME ForceInv, ForceInv', GrantRoom, NEW x \in RanEntries, ran' = Append(ran, x), forces' = forces,
         Unforced(x) \/ Pays(x)
  PROVE  [Contract!Next]_(Contract!vars)
<1>ran. /\ Len(ran) \in Nat /\ DOMAIN ran = 1..Len(ran)
        /\ Len(ran') = Len(ran) + 1 /\ DOMAIN ran' = 1..(Len(ran) + 1)
        /\ \A i \in 1..Len(ran) : ran'[i] = ran[i]
        /\ ran'[Len(ran) + 1] = x
  BY RanFacts, RanAppended DEF ForceInv, Basics
<1>grants. DOMAIN forces = 1..Len(forces) /\ Len(forces) \in Nat
  BY LenProperties DEF ForceInv, Basics, PrecloseTypes, GrantTypes
<1> DEFINE Paid(h, g) == {i \in DOMAIN h : h[i].grant = g}
<1>1. ASSUME NEW g, g # x.grant PROVE Paid(ran', g) = Paid(ran, g)
  BY <1>ran, <1>1
<1>2. AllStandings' = AllStandings /\ AllOpened' = AllOpened
  BY DEF AllStandings, AllOpened, Standing, Opened, File
<1>3. CASE Unforced(x)
  <2>1. \A g \in GrantNos : Paid(ran', g) = Paid(ran, g)
    BY <1>1, <1>3, PrecloseAssumption DEF Unforced, GrantNos
  <2>2. AllRuns' = AllRuns
    BY <2>1 DEF AllRuns, Runs, GrantNos
  <2> QED
    BY <1>2, <2>2 DEF Contract!vars
<1>4. CASE Pays(x)
  <2> DEFINE g == x.grant
  <2>1. /\ g \in DOMAIN forces /\ forces[g].status = "consumed"
        /\ \A j \in DOMAIN ran : ran[j].grant # g
    BY <1>4 DEF ForceInv, InHand, Pays
  <2>2. g \in GrantNos
    BY <1>grants, <2>1, PrecloseAssumption DEF GrantRoom, GrantNos
  <2>3. Paid(ran, g) = {} /\ Paid(ran', g) = {Len(ran) + 1}
    BY <1>ran, <2>1
  <2>4. \A o \in GrantNos \ {g} : Paid(ran', o) = Paid(ran, o)
    BY <1>1
  <2> HIDE DEF g
  <2>5. Runs(g) = 0 /\ Runs(g)' = 1 /\ \A o \in GrantNos \ {g} : Runs(o)' = Runs(o)
    BY <2>3, <2>4, FS_EmptySet, FS_Singleton DEF Runs
  <2>6. AllRuns[g] = 0 /\ AllRuns' = [AllRuns EXCEPT ![g] = 1]
    BY <2>2, <2>5 DEF AllRuns, GrantNos
  <2>7. AllStandings[g] = "spent"
    BY <2>1, <2>2 DEF AllStandings, Standing, GrantNos
  <2>8. Contract!Run(g)
    BY <1>2, <2>6, <2>7 DEF Contract!Run
  <2> QED
    BY <2>2, <2>8 DEF Contract!Next, GrantNos
<1> QED
  BY <1>3, <1>4

LEMMA ContractInit == PrecloseInit => ContractInv /\ Contract!Init
<1> SUFFICES ASSUME PrecloseInit PROVE GrantRoom /\ PendingUnopened /\ Contract!Init
  BY ForceInit DEF ContractInv
<1>1. forces = <<>> /\ ran = <<>> /\ typing = None
  BY DEF PrecloseInit
<1>2. \A g \in GrantNos : Standing(g) = "unminted" /\ Opened(g) = None
  BY <1>1 DEF Standing, Opened
<1>3. \A g \in GrantNos : Runs(g) = 0
  BY <1>1, FS_EmptySet DEF Runs
<1> QED
  BY <1>1, <1>2, <1>3, PrecloseAssumption
  DEF GrantRoom, PendingUnopened, Contract!Init, AllStandings, AllOpened, AllRuns, GrantNos

LEMMA ContractStep ==
  ContractInv /\ [PrecloseNext]_precloseVars => ContractInv' /\ [Contract!Next]_(Contract!vars)
<1> SUFFICES ASSUME ContractInv, [PrecloseNext]_precloseVars
             PROVE  ContractInv' /\ [Contract!Next]_(Contract!vars)
  OBVIOUS
<1>1. ForceInv /\ GrantRoom /\ PendingUnopened /\ PrecloseTypes /\ PassesMove
  BY BasicsStep DEF ContractInv, ForceInv, Basics
<1>2. ForceInv'
  BY <1>1, ForceStep
<1>3. ContractInv'
  BY <1>1, <1>2, GrantRoomStep, PendingUnopenedStep DEF ContractInv
<1>4. ASSUME ran' = ran PROVE [Contract!Next]_(Contract!vars)
  <2>1. CASE forces' = forces
    <3>1. AllStandings' = AllStandings
      BY <2>1 DEF AllStandings, Standing, File
    <3>2. AllOpened' = AllOpened /\ AllRuns' = AllRuns
      BY <1>4, <2>1 DEF AllOpened, AllRuns, Opened, Runs
    <3> QED
      BY <3>1, <3>2 DEF Contract!vars
  <2>2. CASE HookWrite
    BY <1>1, <1>4, <2>2, LineShows
  <2>3. CASE MovesOne
    BY <1>1, <1>4, <2>3, WritesShow
  <2> QED
    BY <1>1, <2>1, <2>2, <2>3, GrantWritesOnly, MovesOneStep
<1>5. ASSUME NEW x \in RanEntries, ran' = Append(ran, x), Unforced(x) \/ Pays(x)
      PROVE  [Contract!Next]_(Contract!vars)
  <2>1. forces' = forces
    BY <1>5 DEF Unforced, Pays
  <2> QED
    BY <1>1, <1>2, <1>5, <2>1, RecordShows
<1> QED
  BY <1>1, <1>3, <1>4, <1>5 DEF PassesMove, PassesStay, Completes, Corrects

\* The FORCE grants implement SingleUseGrant: each opens once, for one mode and head, while no
\* other is open, and a spent one buys at most one forced record.
THEOREM ForceContractAlways == PrecloseSpec => ForceContract
<1>1. [PrecloseNext]_precloseVars /\ ContractInv
        => [<<forces, ran>>' # <<forces, ran>> => Contract!Next]_(Contract!vars)
  BY ContractStep
<1>2. ContractInv /\ [PrecloseNext]_precloseVars => ContractInv'
  BY ContractStep
<1> QED
  BY <1>1, <1>2, ContractInit, PTL DEF PrecloseSpec, ForceContract
=============================================================================
