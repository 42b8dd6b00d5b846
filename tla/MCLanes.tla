------------------------------- MODULE MCLanes -------------------------------
(* What may merge a lane's work, on small instances: BATCH, the pre-close review  *)
(* and the IMC waiver.  A behaviour takes steps of one of them (`side`); what one *)
(* learns of another is among its own variables.                                  *)
EXTENDS MCBatchAuth, Preclose, ImcWaiver

CONSTANTS h1, h2, h3, s1, s2, e1, e2, r1

VARIABLE side

\* The whole review is too large; a behaviour keeps to one of these parts of it.
ReviewSides == {"merges", "grants", "epochs", "waived", "kills"}

\* Preclose: h3 is h1 rebased, h2 is another change.
MCBranchHeads == {h1, h2, h3}
MCChangeOf    == [h \in MCBranchHeads |-> IF h = h3 THEN h1 ELSE h]

LanesInit ==
  /\ side \in {"gate", "waiver"} \cup ReviewSides
  /\ Init /\ PrecloseInit /\ ImcInit
  /\ side \notin ReviewSides => pr = h1

LanesTypeOK == TypeOK /\ PrecloseTypeOK /\ ImcTypeOK

-----------------------------------------------------------------------------
OnGate == side = "gate" /\ UNCHANGED <<side, precloseVars, imcVars>>

GateNext ==
  \/ \E a \in Sessions, c \in Commands : OnGate /\ Decide(a, c)
  \/ \E a \in Sessions : OnGate /\ Judge(a)
  \/ \E a \in Sessions : OnGate /\ Answer(a)
  \/ \E a \in Sessions : OnGate /\ Merge(a)
  \/ \E a \in Sessions : OnGate /\ MergeFails(a)
  \/ \E a \in Sessions : OnGate /\ Match(a)
  \/ \E a \in Sessions : OnGate /\ Confirm(a)
  \/ \E a \in Sessions, k \in Keys : OnGate /\ Ask(a, "batch", k)
  \/ \E a \in Terminals, k \in Keys, op \in {"topup", "authorize", "revoke"} : OnGate /\ Ask(a, op, k)
  \/ \E a \in Terminals, k \in Keys, p \in Prs : OnGate /\ AskLink(a, k, p)
  \/ \E a \in Actors : OnGate /\ Lock(a)
  \/ \E a \in Actors : OnGate /\ GiveUp(a)
  \/ \E a \in Actors : OnGate /\ Mint(a)
  \/ \E a \in Actors : OnGate /\ Extend(a)
  \/ \E a \in Actors : OnGate /\ Change(a)
  \/ \E a \in Actors : OnGate /\ Prune(a)
  \/ \E a \in Actors : OnGate /\ Kill(a)
  \/ \E k \in Keys : OnGate /\ Expire(k)
  \/ \E p \in Prs : OnGate /\ Push(p)

-----------------------------------------------------------------------------
Quiet == pr = h1 /\ bound = None

Only(S) ==
  /\ \A i \in DOMAIN receipt.passes : receipt.passes[i].head \in S
  /\ \A g \in DOMAIN forces : forces[g].head \in S
  /\ receipt.reviewed \in S \cup {None}
  /\ typing # None => typing.head \in S
  /\ holder # None => holder.head \in S
  /\ receipt.check # None => receipt.check.head \in S

TwoHeads == Only({h1, h2})

KillQuiet == kill \in {None, [head |-> h1, is |-> "waived"]}

\* Unforced passes, clusters and merges, with a rebase.
MergePart ==
  KillQuiet /\ imc = "none" /\ forces = <<>> /\ typing = None /\ (holder # None => holder.op # "kill")

\* Two grants and what they are spent on.
GrantPart == Quiet /\ TwoHeads /\ kill = None /\ imc = "none" /\ Len(ran) <= 2
               /\ \A i \in DOMAIN ran : ran[i].mode # "no"

\* One grant after, or between, the passes of an epoch.
EpochPart == Quiet /\ TwoHeads /\ kill = None /\ imc = "none" /\ Len(forces) <= 1
               /\ \A g \in DOMAIN forces : forces[g].live

\* The waiver and the kill check.
WaiverPart == Quiet /\ Only({h1}) /\ KillQuiet /\ Len(ran) <= 1 /\ Len(forces) <= 1
KillPart == Quiet /\ Len(ran) <= 1 /\ forces = <<>> /\ typing = None

ReviewScope ==
  /\ side = "merges" => MergePart
  /\ side = "grants" => GrantPart
  /\ side = "epochs" => EpochPart
  /\ side = "waived" => WaiverPart
  /\ side = "kills" => KillPart

OnReview == side \in ReviewSides /\ UNCHANGED <<side, vars, imcVars>>

ReviewNext ==
  \/ \E md \in {"no", "plain", "reforge"}, h \in BranchHeads, replayed \in BOOLEAN :
       OnReview /\ Plan(md, h, replayed) /\ ReviewScope'
  \/ \E h \in BranchHeads, surviving, clustered, replayed \in BOOLEAN :
       OnReview /\ CompletePass(h, surviving, clustered, replayed) /\ ReviewScope'
  \/ \E md \in Modes, h \in BranchHeads, replayed \in BOOLEAN : OnReview /\ StartForce(md, h, replayed) /\ ReviewScope'
  \/ \E verdict \in {"PATCH", "REFORGE"} : OnReview /\ StartCorrection(verdict) /\ ReviewScope'
  \/ \E verdict \in {"PATCH", "REFORGE"} : OnReview /\ ClusterVerdict(verdict) /\ ReviewScope'
  \/ OnReview /\ Reserve /\ ReviewScope'
  \/ \E surviving, clustered \in BOOLEAN : OnReview /\ RecordForced(surviving, clustered) /\ ReviewScope'
  \/ OnReview /\ RecordCorrection /\ ReviewScope'
  \/ OnReview /\ ForceGivesUp /\ ReviewScope'
  \/ \E base, h \in BranchHeads, replayed \in BOOLEAN : OnReview /\ PostVerdict(base, h, replayed) /\ ReviewScope'
  \/ \E h \in BranchHeads : OnReview /\ KillStart(h) /\ ReviewScope'
  \/ \E h \in BranchHeads : OnReview /\ Waive(h) /\ ReviewScope'
  \/ \E is \in {"pass", "fail"} : OnReview /\ KillEnd(is) /\ ReviewScope'
  \/ \E md \in Modes, h \in BranchHeads : OnReview /\ HookRead(md, h) /\ ReviewScope'
  \/ OnReview /\ HookWrite /\ ReviewScope'
  \/ \E r \in Recorders : OnReview /\ RecordRead(r) /\ ReviewScope'
  \/ \E r \in Recorders : OnReview /\ RecordPost(r) /\ ReviewScope'
  \/ \E r \in Recorders : OnReview /\ RecordFinish(r) /\ ReviewScope'
  \/ \E r \in Recorders : OnReview /\ RecordDie(r) /\ ReviewScope'
  \/ OnReview /\ ForceExpires /\ ReviewScope'
  \/ \E to \in {"none", "hook", "pending", "recorded"} : OnReview /\ WaiverMoves(to) /\ ReviewScope'
  \/ \E h \in BranchHeads : OnReview /\ PushHead(h) /\ ReviewScope'
  \/ \E replayed \in BOOLEAN : OnReview /\ AllowMerge(replayed) /\ ReviewScope'
  \/ OnReview /\ MergeLands /\ ReviewScope'

\* Two epochs in which every pass leaves findings and no grant expires.
Findings ==
  /\ Quiet /\ TwoHeads /\ kill = None /\ imc = "none" /\ receipt.cluster = None
  /\ \A i \in DOMAIN receipt.passes : receipt.passes[i].surviving
  /\ \A g \in DOMAIN forces : forces[g].live /\ forces[g].mode # "cluster"
  /\ Len(forces) = 2 => forces[1].status = "consumed"

FindingsInit == PrecloseInit /\ Init /\ ImcInit /\ side = "epochs"
FindingsSpec == FindingsInit /\ [][OnReview /\ PrecloseNext /\ Findings']_<<side, vars, precloseVars, imcVars>>

-----------------------------------------------------------------------------
\* Two records of two lines; an end under two records of a line, or under one record of
\* either line; two ends; one of each while the closed issue is retired.
Resting(S) == \A q \in S : step[q] = "idle"

WaiverScope ==
  \/ Resting({e1, e2, r1}) /\ ~closed /\ ends = 0
  \/ Resting({e2, r1}) /\ ~closed /\ lines <= 1
  \/ Resting({s2, e2, r1}) /\ ~closed /\ ends <= 1
  \/ Resting({s2, r1}) /\ ~closed /\ lines <= 1
  \/ Resting({s2, e2}) /\ lines <= 1

OnWaiver == side = "waiver" /\ UNCHANGED <<side, vars, precloseVars>>

WaiverNext ==
  \/ OnWaiver /\ TypeLine /\ WaiverScope'
  \/ OnWaiver /\ LineExpires /\ WaiverScope'
  \/ OnWaiver /\ GrantGoes /\ WaiverScope'
  \/ OnWaiver /\ StopMoves /\ WaiverScope'
  \/ OnWaiver /\ CloseIssue /\ WaiverScope'
  \/ \E q \in Scribes : OnWaiver /\ RecordChecks(q) /\ WaiverScope'
  \/ \E q \in Scribes : OnWaiver /\ RecordPends(q) /\ WaiverScope'
  \/ \E q \in Scribes : OnWaiver /\ RecordPosts(q) /\ WaiverScope'
  \/ \E q \in Scribes : OnWaiver /\ RecordConfirms(q) /\ WaiverScope'
  \/ \E q \in Enders : OnWaiver /\ EndLocks(q) /\ WaiverScope'
  \/ \E q \in Enders : OnWaiver /\ EndReads(q) /\ WaiverScope'
  \/ \E q \in Enders : OnWaiver /\ EndRevokes(q) /\ WaiverScope'
  \/ \E q \in Enders : OnWaiver /\ EndUnhooks(q) /\ WaiverScope'
  \/ \E q \in Enders : OnWaiver /\ EndFinds(q) /\ WaiverScope'
  \/ \E q \in Enders : OnWaiver /\ EndPosts(q) /\ WaiverScope'
  \/ \E q \in Enders : OnWaiver /\ EndFiles(q) /\ WaiverScope'
  \/ \E q \in Enders : OnWaiver /\ EndUnlinks(q) /\ WaiverScope'
  \/ \E q \in Retirers : OnWaiver /\ RetireLocks(q) /\ WaiverScope'
  \/ \E q \in Retirers : OnWaiver /\ RetireMovesHook(q) /\ WaiverScope'
  \/ \E q \in Retirers : OnWaiver /\ RetireLooks(q) /\ WaiverScope'
  \/ \E q \in Retirers : OnWaiver /\ RetireStamps(q) /\ WaiverScope'
  \/ \E q \in Retirers : OnWaiver /\ RetireMovesReceipt(q) /\ WaiverScope'
  \/ \E q \in Processes : OnWaiver /\ Dies(q) /\ WaiverScope'

-----------------------------------------------------------------------------
LanesNext == GateNext \/ ReviewNext \/ WaiverNext

LanesSpec == LanesInit /\ [][LanesNext]_<<side, vars, precloseVars, imcVars>>
=============================================================================
