------------------------------- MODULE TeRunner -------------------------------
(***************************************************************************)
(* The unattended te-runner: its queue file (tools/runner/te_queue.py,     *)
(* tools/lane/queue_state.py), the serial driver that works it (te_run.py),*)
(* the verdict on each item (verdict.py) and the report of each run        *)
(* (report.py).                                                            *)
(*                                                                         *)
(* The queue is one file.  A run loads it once, keeps it in memory and     *)
(* saves the whole of it after each change, holding the queue's lock for   *)
(* its whole length.  It may be killed between any two steps.  GitHub, the *)
(* runner's fork, Lane 1 and the operator are its environment.             *)
(*                                                                         *)
(* Runs are numbered, and so are the attempts at an item: a pushed head,   *)
(* its branch and its pull request go by the number of the attempt.        *)
(***************************************************************************)
EXTENDS Naturals, Sequences, FiniteSets

CONSTANTS Count,       \* issues, numbered in the order they are queued
          MaxRuns,     \* bound on the runs
          MaxSteps,    \* --max-steps
          MaxChanges   \* bound on the versions of what an item depends on

ASSUME ConstantsAssumption ==
  /\ Count \in Nat \ {0} /\ MaxRuns \in Nat \ {0}
  /\ MaxSteps \in Nat \ {0} /\ MaxChanges \in Nat

VARIABLES
  queue,     \* [Items -> Entries], the queue file
  lastRun,   \* the run_id and invocation_id of the queue file
  mem,       \* [Items -> Entries], what the run believes the file holds
  pc,        \* where the run stands
  run,       \* number of the latest invocation of the unit
  cur,       \* the item being worked
  passed,    \* SUBSET Items, passed_over
  steps,     \* items worked by this run
  loaded,    \* version of tools/runner the run's own code is from
  snap,      \* what cur depended on before the work
  inputs,    \* [Items -> Inputs], what Lane 1 and the runner's tree hold now
  fork,      \* [Items -> SUBSET Attempts], branches on the runner's fork
  prs,       \* [Items -> SUBSET Attempts], open pull requests of the runner
  tries,     \* [Items -> 0..MaxRuns], attempts begun
  \* History.
  asked,     \* [Items -> 0..MaxRuns], times the operator re-queued the item
  used,      \* [Items -> Inputs], what the latest attempt worked from
  judged,    \* [Items -> Inputs], the same of the attempt last set aside
  outrun,    \* SUBSET Items, those whose last set-aside recorded a newer tree
             \* than the code that judged it
  clean,     \* [Items -> SUBSET Attempts], attempts every clause passed for
  greens,    \* the <<item, run, attempt>> that ended green
  proposed   \* the <<item, run, attempt>> a report proposed for merge

driver == <<mem, pc, cur, passed, steps, loaded, snap>>
github == <<fork, prs>>
past   == <<asked, used, judged, outrun, clean, greens, proposed>>
vars   == <<queue, lastRun, driver, run, inputs, github, tries, past>>

-----------------------------------------------------------------------------
(***************************************************************************)
(* verdict.py: the clauses, in the order they are tried, and what re-arms  *)
(* an item each of them set aside.                                         *)
(***************************************************************************)
Precedence == <<"ineligible", "deny-path", "tool-refusal", "budget", "self-flag",
                "check-fail", "kill-check-fail">>

Reasons == {Precedence[n] : n \in DOMAIN Precedence}

\* A clause passes, hits, or misses the fact it reads.
Facts == [Reasons -> {"pass", "hit", "gap"}]

ReduceOpen(f) ==   \* a mutant: a missing fact does not set the item aside
  IF \A r \in Reasons : f[r] # "hit" THEN "green"
  ELSE Precedence[CHOOSE n \in DOMAIN Precedence :
                    /\ f[Precedence[n]] = "hit"
                    /\ \A m \in 1..(n - 1) : f[Precedence[m]] # "hit"]

\* The first clause that does not pass names the reason; a gap ends the walk.
Reduce(f) ==
  IF \A r \in Reasons : f[r] = "pass" THEN "green"
  ELSE Precedence[CHOOSE n \in DOMAIN Precedence :
                    /\ f[Precedence[n]] # "pass"
                    /\ \A m \in 1..(n - 1) : f[Precedence[m]] = "pass"]

\* What the checks of one attempt can come to.
Judgements ==
  {[clean |-> \A r \in Reasons : f[r] = "pass", verdict |-> Reduce(f)] : f \in Facts}

\* The marker of the newest Lane 1 post, the kill bundle's digest, tools/runner.
Deps == {"marker", "digest", "tree"}
Inputs == [Deps -> 0..MaxChanges]

\* REARMED_BY: a reason no dependency is listed for never keeps an item waiting.
Watched(reason) ==
  CASE reason \in {"check-fail", "kill-check-fail", "self-flag"} -> {"marker", "digest"}
    [] reason = "tool-refusal" -> {"marker", "tree"}
    [] reason = "budget" -> {"tree"}
    [] OTHER -> {}

-----------------------------------------------------------------------------
(***************************************************************************)
(* The queue file.                                                         *)
(***************************************************************************)
Items == 1..Count
Attempts == 1..MaxRuns
Blank == [d \in Deps |-> 0]

Entries ==
  [status: {"absent", "pending", "in_progress", "done", "blocked"},
   note: {"plain", "reconciled", "recovery"},
   run: 0..MaxRuns,      \* the run that last touched it
   pushed: 0..MaxRuns,   \* pushed_sha
   pr: 0..MaxRuns,
   green: BOOLEAN,       \* the verdict
   last: Reasons \cup {"none"}, seen: Inputs]   \* last_outcome

Absent == [status |-> "absent", note |-> "plain", run |-> 0, pushed |-> 0, pr |-> 0,
           green |-> FALSE, last |-> "none", seen |-> Blank]

\* Nothing that could change an item's last set-aside has changed.
Unchanged(i, e) ==
  /\ e.status = "pending"
  /\ Watched(e.last) # {}
  /\ \A d \in Watched(e.last) : e.seen[d] = inputs[i][d]

PushedAlone(e) ==   \* a mutant: only what was killed, not what failed
  e.status = "in_progress" /\ e.pushed # 0 /\ e.pr = 0 /\ e.note # "reconciled"

\* pushed_sha without pr: the branch may be on the fork, and nobody was told.
PushedUnseen(e) ==
  /\ e.status \in {"blocked", "in_progress"}
  /\ e.pushed # 0 /\ e.pr = 0
  /\ e.note # "reconciled"

RecoverAgain(e) ==   \* a mutant: work that was under way is taken up again
  IF e.status = "in_progress" THEN [e EXCEPT !.status = "pending"] ELSE e

\* queue_state.recover
Recover(e) ==
  IF e.status = "in_progress"
  THEN [e EXCEPT !.status = "blocked", !.note = "recovery"] ELSE e

Reconcile(e) ==
  Recover(IF PushedUnseen(e)
          THEN [e EXCEPT !.status = "blocked", !.note = "reconciled"] ELSE e)

\* The file as a starting run saves it: what it changed carries its id.
Restarted(r) ==
  [i \in Items |->
     LET e == Reconcile(queue[i])
     IN  IF e.status # queue[i].status \/ e.note # queue[i].note
         THEN [e EXCEPT !.run = r] ELSE e]

\* Everything in memory replaces the file.
Save(m) == mem' = m /\ queue' = m
SaveEntry(e) == Save([mem EXCEPT ![cur] = e])

-----------------------------------------------------------------------------
TypeOK ==
  /\ queue \in [Items -> Entries]
  /\ mem \in [Items -> Entries]
  /\ lastRun \in 0..MaxRuns
  /\ pc \in {"idle", "ready", "next", "begun", "agent", "push", "pr", "live", "ended"}
  /\ run \in 0..MaxRuns
  /\ cur \in Items
  /\ passed \subseteq Items
  /\ steps \in 0..MaxSteps
  /\ loaded \in 0..MaxChanges
  /\ snap \in Inputs
  /\ inputs \in [Items -> Inputs]
  /\ fork \in [Items -> SUBSET Attempts]
  /\ prs \in [Items -> SUBSET Attempts]
  /\ tries \in [Items -> 0..MaxRuns]
  /\ asked \in [Items -> 0..MaxRuns]
  /\ used \in [Items -> Inputs]
  /\ judged \in [Items -> Inputs]
  /\ outrun \subseteq Items
  /\ clean \in [Items -> SUBSET Attempts]
  /\ greens \subseteq Items \X Attempts \X Attempts
  /\ proposed \subseteq Items \X Attempts \X (0..MaxRuns)

Init ==
  /\ queue = [i \in Items |-> Absent]
  /\ mem = queue
  /\ lastRun = 0 /\ run = 0
  /\ pc = "idle" /\ cur = 1 /\ passed = {} /\ steps = 0 /\ loaded = 0 /\ snap = Blank
  /\ inputs = [i \in Items |-> Blank]
  /\ fork = [i \in Items |-> {}]
  /\ prs = [i \in Items |-> {}]
  /\ tries = [i \in Items |-> 0]
  /\ asked = [i \in Items |-> 0]
  /\ used = [i \in Items |-> Blank]
  /\ judged = [i \in Items |-> Blank]
  /\ outrun = {}
  /\ clean = [i \in Items |-> {}]
  /\ greens = {} /\ proposed = {}

-----------------------------------------------------------------------------
(***************************************************************************)
(* A run, from the unit's start to its report.                             *)
(***************************************************************************)
Quiet == pc \in {"idle", "ended"}   \* no run holds the queue's lock

\* A run that ends before it has saved its id: no budget, an unreadable
\* queue, a lock held by a manual run.
FailToStart ==
  /\ pc = "idle" /\ run < MaxRuns
  /\ pc' = "ended"
  /\ run' = run + 1
  /\ UNCHANGED <<queue, lastRun, mem, cur, passed, steps, loaded, snap, inputs, github, tries,
                 past>>

\* A process with the modules of the checkout as it is now.  Under the lock: load, take a
\* new id, reconcile, recover, save.
Start ==
  /\ pc = "idle" /\ run < MaxRuns
  /\ pc' = "ready"
  /\ run' = run + 1
  /\ lastRun' = run'
  /\ Save(Restarted(run'))
  /\ passed' = {} /\ steps' = 0
  /\ loaded' = inputs[1].tree
  /\ UNCHANGED <<cur, snap, inputs, github, tries, past>>

\* The boundary, the token, the probe or the preflight refuses the run.
Refuse ==
  /\ pc = "ready"
  /\ pc' = "ended"
  /\ UNCHANGED <<queue, lastRun, mem, run, cur, passed, steps, loaded, snap, inputs, github,
                 tries, past>>

\* Pending items are passed over while nothing they were set aside for changed,
\* and when that cannot be read.
Survey ==
  /\ pc = "ready"
  /\ pc' = "next"
  /\ \E unread \in SUBSET {i \in Items : mem[i].status = "pending" /\ Watched(mem[i].last) # {}} :
       passed' = unread \cup {i \in Items : Unchanged(i, mem[i])}
  /\ UNCHANGED <<queue, lastRun, mem, run, cur, steps, loaded, snap, inputs, github, tries, past>>

MayWorkOneMore == steps <= MaxSteps   \* a mutant: off by one

\* A passed-over item uses no step.
MayWork == steps < MaxSteps

Ready == {i \in Items : mem[i].status = "pending" /\ i \notin passed}
First(i) == i \in Ready /\ \A j \in Ready : i <= j

\* What the item depends on cannot be read: it is passed over, still pending.
PassOver(i) ==
  /\ pc = "next" /\ MayWork /\ First(i)
  /\ passed' = passed \cup {i}
  /\ UNCHANGED <<queue, lastRun, mem, pc, run, cur, steps, loaded, snap, inputs, github, tries,
                 past>>

\* The dependencies are read first, the tree from the checkout's HEAD; then the item is in
\* progress.
Pick(i) ==
  /\ pc = "next" /\ MayWork /\ First(i)
  /\ pc' = "begun"
  /\ cur' = i
  /\ snap' = inputs[i]
  /\ steps' = steps + 1
  /\ Save([mem EXCEPT ![i].status = "in_progress", ![i].run = run])
  /\ UNCHANGED <<lastRun, run, passed, loaded, inputs, github, tries, past>>

EndRun ==
  /\ pc = "next"
  /\ ~MayWork \/ Ready = {}
  /\ pc' = "ended"
  /\ UNCHANGED <<queue, lastRun, mem, run, cur, passed, steps, loaded, snap, inputs, github,
                 tries, past>>

ProposalsOfAnyRun == {i \in Items : queue[i].status = "done" /\ queue[i].green}   \* a mutant

\* report.py, when the unit has stopped: of the run that stopped, if it got as far
\* as its id, the green items that carry that id.
Proposals == {i \in Items : queue[i].status = "done" /\ queue[i].green /\ queue[i].run = lastRun}

Report ==
  /\ pc = "ended"
  /\ pc' = "idle"
  /\ proposed' = IF lastRun = run
                 THEN proposed \cup {<<i, run, queue[i].pr>> : i \in Proposals}
                 ELSE proposed
  /\ UNCHANGED <<queue, lastRun, mem, run, cur, passed, steps, loaded, snap, inputs, github, tries,
                 asked, used, judged, outrun, clean, greens>>

\* The process is killed (the unit reports), or the machine stops (it does not).
Crash ==
  /\ pc # "idle"
  /\ pc' \in {"ended", "idle"}
  /\ mem' = queue
  /\ UNCHANGED <<queue, lastRun, run, cur, passed, steps, loaded, snap, inputs, github, tries,
                 past>>

-----------------------------------------------------------------------------
(***************************************************************************)
(* work_item, and what becomes of the item it worked.                      *)
(***************************************************************************)

RecordedAfter == inputs[cur]   \* a mutant: the dependencies are read after the work

\* What a set-aside records of the item's dependencies: outcome_record, taken before.
Recorded == snap

\* Set aside: the run goes on.  Fields of earlier attempts stay.  The checkout may have
\* moved on since this process loaded its code, and its tree is the one recorded.
SetAside(e, reason) ==
  /\ SaveEntry([e EXCEPT !.status = "done", !.note = "plain", !.run = run, !.green = FALSE,
                         !.last = reason, !.seen = Recorded])
  /\ pc' = "next"
  /\ judged' = [judged EXCEPT ![cur] = used[cur]]
  /\ outrun' = IF snap.tree = loaded THEN outrun \ {cur} ELSE outrun \cup {cur}
  /\ UNCHANGED <<lastRun, run, cur, passed, steps, loaded, snap, inputs, tries, asked, used,
                 proposed>>

Block(e, next) ==
  /\ SaveEntry([e EXCEPT !.status = "blocked", !.note = "plain", !.run = run])
  /\ pc' = next
  /\ UNCHANGED <<lastRun, run, cur, passed, steps, loaded, snap, inputs, tries, past>>

\* First of all, the G1 conditions: an ineligible item is never checked out.
SetAsideEarly ==
  /\ pc = "begun"
  /\ \E reason \in {"ineligible", "deny-path"} : SetAside(mem[cur], reason)
  /\ UNCHANGED <<github, clean, greens>>

\* A guard of the item, a git or gh command, or the bundle's pin refuses: the run
\* goes on with the next item.  Anything else unexpected ends the run.
BlockItem ==
  /\ pc \in {"begun", "agent"}
  /\ Block(mem[cur], "next")
  /\ UNCHANGED github

AbortRun ==
  /\ pc \in {"begun", "agent", "live"}
  /\ Block(mem[cur], "ended")
  /\ UNCHANGED github

MayBeginAnyway == TRUE   \* a mutant: no guard on open pull requests

\* An open runner PR is work under review.
MayBegin == prs[cur] = {}

\* Earlier traces are archived, a fresh branch is checked out, the handoff and the
\* bundle are read as they are now, and the code that was loaded starts the agent.
Begin ==
  /\ pc = "begun"
  /\ MayBegin
  /\ pc' = "agent"
  /\ tries' = [tries EXCEPT ![cur] = @ + 1]
  /\ used' = [used EXCEPT ![cur] = [inputs[cur] EXCEPT !.tree = loaded]]
  /\ UNCHANGED <<queue, lastRun, mem, run, cur, passed, steps, loaded, snap, inputs, github,
                 asked, judged, outrun, clean, greens, proposed>>

PushedLater == mem[cur].pushed   \* a mutant: pushed_sha is not saved before the push

\* The pushed_sha saved before the push.
PushedBefore == tries[cur]

\* The agent has ended or was killed at its time limit, and its head was checked.
\* Green is recorded as pushed, before the push.
Judge ==
  /\ pc = "agent"
  /\ \E j \in Judgements :
       /\ clean' = [clean EXCEPT ![cur] = IF j.clean THEN @ \cup {tries[cur]} ELSE @]
       /\ \/ /\ j.verdict = "green"
             /\ SaveEntry([mem[cur] EXCEPT !.pushed = PushedBefore])
             /\ pc' = "push"
             /\ UNCHANGED <<lastRun, run, cur, passed, steps, loaded, snap, inputs, tries,
                            asked, used, judged, outrun, proposed>>
          \/ j.verdict # "green" /\ SetAside(mem[cur], j.verdict)
  /\ UNCHANGED <<github, greens>>

\* A failed git push or gh pr create may have done its work all the same.
Push ==
  /\ pc = "push"
  /\ \/ /\ fork' = [fork EXCEPT ![cur] = @ \cup {tries[cur]}]
        /\ pc' = "pr"
        /\ UNCHANGED <<queue, lastRun, mem, run, cur, passed, steps, loaded, snap, inputs, tries,
                       past>>
     \/ /\ \/ fork' = fork
           \/ fork' = [fork EXCEPT ![cur] = @ \cup {tries[cur]}]
        /\ Block(mem[cur], "next")
  /\ UNCHANGED prs

CreatePr ==
  /\ pc = "pr"
  /\ \/ /\ prs' = [prs EXCEPT ![cur] = @ \cup {tries[cur]}]
        /\ pc' = "live"
        /\ UNCHANGED <<queue, lastRun, mem, run, cur, passed, steps, loaded, snap, inputs, tries,
                       past>>
     \/ /\ \/ prs' = prs
           \/ prs' = [prs EXCEPT ![cur] = @ \cup {tries[cur]}]
        /\ Block(mem[cur], "next")
  /\ UNCHANGED fork

\* The PR and its CI are read from GitHub: green, or set aside with its PR recorded
\* (the PR is not there, has another head, or its CI is red).
ReadLive ==
  /\ pc = "live"
  /\ \/ /\ SaveEntry([mem[cur] EXCEPT !.status = "done", !.note = "plain", !.run = run,
                                      !.pr = tries[cur], !.green = TRUE, !.last = "none",
                                      !.seen = Blank])
        /\ pc' = "next"
        /\ greens' = greens \cup {<<cur, run, tries[cur]>>}
        /\ UNCHANGED <<lastRun, run, cur, passed, steps, loaded, snap, inputs, tries,
                       asked, used, judged, outrun, proposed>>
     \/ /\ SetAside([mem[cur] EXCEPT !.pr = tries[cur]], "check-fail")
        /\ UNCHANGED greens
  /\ UNCHANGED <<github, clean>>

-----------------------------------------------------------------------------
(***************************************************************************)
(* The operator, Lane 1 and GitHub.                                        *)
(***************************************************************************)
MayAddAnyway == TRUE   \* a mutant: te_queue.py add does not take the lock

\* te_queue.py add, under the queue's lock.
MayAdd == Quiet

Add(i) ==
  /\ MayAdd
  /\ queue[i].status = "absent"
  /\ \A j \in Items : j < i => queue[j].status # "absent"
  /\ queue' = [queue EXCEPT ![i].status = "pending"]
  /\ mem' = IF Quiet THEN queue' ELSE mem
  /\ UNCHANGED <<lastRun, pc, run, cur, passed, steps, loaded, snap, inputs, github, tries, past>>

\* The operator sets a worked item's status back by hand, between two runs.
Requeue(i) ==
  /\ Quiet
  /\ queue[i].status \in {"done", "blocked"}
  /\ asked[i] < MaxRuns
  /\ queue' = [queue EXCEPT ![i].status = "pending"]
  /\ mem' = queue'
  /\ asked' = [asked EXCEPT ![i] = @ + 1]
  /\ UNCHANGED <<lastRun, pc, run, cur, passed, steps, loaded, snap, inputs, github, tries,
                 used, judged, outrun, clean, greens, proposed>>

\* A Lane 1 post, or a changed bundle; a commit to tools/runner concerns every item.
LaneOneChanges(i) ==
  /\ \E d \in {"marker", "digest"} :
       inputs[i][d] < MaxChanges /\ inputs' = [inputs EXCEPT ![i][d] = @ + 1]
  /\ UNCHANGED <<queue, lastRun, driver, run, github, tries, past>>

RunnerChanges ==
  /\ \A i \in Items : inputs[i].tree < MaxChanges
  /\ inputs' = [i \in Items |-> [inputs[i] EXCEPT !.tree = @ + 1]]
  /\ UNCHANGED <<queue, lastRun, driver, run, github, tries, past>>

ClosePr(i) ==   \* merged or closed by the operator
  /\ \E a \in prs[i] : prs' = [prs EXCEPT ![i] = @ \ {a}]
  /\ UNCHANGED <<queue, lastRun, driver, run, inputs, fork, tries, past>>

-----------------------------------------------------------------------------
Next ==
  \/ FailToStart \/ Start \/ Refuse \/ Survey \/ EndRun \/ Report \/ Crash
  \/ SetAsideEarly \/ BlockItem \/ AbortRun \/ Begin \/ Judge \/ Push \/ CreatePr \/ ReadLive
  \/ RunnerChanges
  \/ \E i \in Items : \/ PassOver(i) \/ Pick(i)
                      \/ Add(i) \/ Requeue(i) \/ ClosePr(i) \/ LaneOneChanges(i)

Spec == Init /\ [][Next]_vars

-----------------------------------------------------------------------------
(***************************************************************************)
(* What must hold.                                                         *)
(***************************************************************************)

\* pushed_sha is "saved before the push": whatever was killed, no branch is on the
\* fork that the queue file does not know of.
PushRecorded == \A i \in Items : \A a \in fork[i] : a <= queue[i].pushed

\* "Turn crash-ambiguous work into an operator-visible blocker": however often the
\* runner is killed, an item is attempted again only when the operator asked.
NotRedoneUnasked == \A i \in Items : tries[i] <= 1 + asked[i]

\* "An open runner PR is work under review: a new attempt never competes with it."
OneOpenPr == \A i \in Items : Cardinality(prs[i]) <= 1

\* "Only green is pushed": each branch on the fork passed every clause.
OnlyGreenPushed == \A i \in Items : fork[i] \subseteq clean[i]

\* An item is skipped as unchanged only if its last set-aside was reached from what
\* Lane 1 holds now, with the code the runner has now: a post or a commit that landed
\* during the work re-arms it.  Left out is the tree of an item picked by a process whose
\* code was already older than the checkout: the newer tree was recorded for it.
SkippedWasJudged ==
  \A i \in Items :
    Unchanged(i, queue[i]) =>
      \A d \in Watched(queue[i].last) :
        judged[i][d] = inputs[i][d] \/ (d = "tree" /\ i \in outrun)

\* "No stale whole-file save drops an item": what was queued stays queued.
QueuedStays ==
  [][\A i \in Items : queue[i].status # "absent" => queue'[i].status # "absent"]_vars

\* "An earlier run's green item is never proposed again", and what a report proposes
\* was judged green by the run it is about, with the PR of that very attempt.
ProposedWasGreen == proposed \subseteq greens

\* "A kill between push and save leaves pushed_sha without pr: make the pushed branch
\* visible": once a run has started, a stopped item whose last attempt is on the fork
\* without a recorded PR says so.
PushedBranchVisible ==
  pc = "ready" =>
    \A i \in Items :
      queue[i].status = "blocked" /\ tries[i] \in fork[i] /\ queue[i].pr # tries[i]
        => queue[i].note = "reconciled"

\* The same, of items the operator has not put back.
FirstPushVisible ==
  pc = "ready" =>
    \A i \in Items :
      asked[i] = 0 /\ queue[i].status = "blocked" /\ tries[i] \in fork[i] /\ queue[i].pr # tries[i]
        => queue[i].note = "reconciled"

-----------------------------------------------------------------------------
(***************************************************************************)
(* Why it holds: the parts of the inductive invariants.                    *)
(***************************************************************************)
Working == pc \in {"begun", "agent", "push", "pr", "live"}
Attempting == pc \in {"agent", "push", "pr", "live"}

\* The lock keeps the run's memory and the file the same; the item being worked, and
\* only it, is in progress while a run goes on.
MemoryIsFile ==
  /\ mem = queue
  /\ Working => queue[cur].status = "in_progress"

\* A run tries an item once: one that it may still try, it has not tried.
OncePerRun ==
  /\ pc # "idle" => run >= 1
  /\ Attempting => tries[cur] >= 1
  /\ \A i \in Items :
       /\ tries[i] <= run
       /\ ~Quiet /\ queue[i].status = "pending" => tries[i] < run
       /\ pc = "begun" /\ i = cur => tries[i] < run

\* A pending item has a request of the operator's left.
RequestLeft ==
  \A i \in Items :
    /\ tries[i] <= 1 + asked[i]
    /\ queue[i].status \in {"absent", "pending"} => tries[i] <= asked[i]
    /\ pc = "begun" /\ i = cur => tries[i] <= asked[i]

\* The branch being pushed is the one recorded, and it passed every clause.
PushKnown ==
  /\ \A i \in Items : queue[i].pushed <= tries[i]
  /\ pc \in {"push", "pr", "live"} =>
       queue[cur].pushed = tries[cur] /\ tries[cur] \in clean[cur]
  /\ PushRecorded
  /\ OnlyGreenPushed

\* A green entry is the record of a green attempt.
GreenKnown ==
  /\ \A i \in Items : queue[i].status = "done" /\ queue[i].green
                         => <<i, queue[i].run, queue[i].pr>> \in greens
  /\ ProposedWasGreen

\* An attempt begins only when no pull request is open.
PrKnown ==
  /\ pc \in {"agent", "push", "pr"} => prs[cur] = {}
  /\ \A i \in Items : \E a \in Attempts : prs[i] \subseteq {a}

\* Versions only grow: recorded before the work, read by the work, current.  The code was
\* loaded before anything was recorded, and judged what it recorded unless it was outrun.
SeenBeforeJudged ==
  /\ \A i \in Items : inputs[i].tree = inputs[1].tree
  /\ loaded <= inputs[1].tree
  /\ Working => \A d \in Deps : snap[d] <= inputs[cur][d]
  /\ Attempting => /\ \A d \in Deps \ {"tree"} : snap[d] <= used[cur][d]
                   /\ used[cur].tree = loaded
  /\ \A i \in Items, d \in Deps :
       /\ used[i][d] <= inputs[i][d]
       /\ judged[i][d] <= inputs[i][d]
       /\ d \in Watched(queue[i].last) /\ ~(d = "tree" /\ i \in outrun)
            => queue[i].seen[d] <= judged[i][d]
=============================================================================
