# TLA+ models of harmonic-forge

harmonic-forge is the tooling one operator uses to run several coding agents ("lanes") on several
repositories: command-line tools, hooks that a coding agent's host calls before and after a command,
queues, and small state files shared by all of them. There is no server. Almost every component is a
short-lived Python process that reads a file or GitHub, decides, and writes a file or GitHub, and many
of them run at once. What can go wrong is what goes wrong in such systems: two processes between whose
steps a third one moved, a process killed between two writes, a decision made from a reading that is no
longer true.

This directory models the parts where that matters most, checks the models with TLC and proves the
main results with TLAPS. `PROJECT.json` lists components, runs, hazards, findings and theorems, and maps
every modelling definition to the lines of the source it stands for.

## 1. The system

| Part | State | Operations | Interacts through |
|---|---|---|---|
| Grant broker (`tools/gate`) | `grants/`, `receipts/`, a mint lock | mint, grant-from-ae, prune, consume | files; the runner starts it as a child |
| Heavy-job admission (`tools/lane/heavy_slot.py`) | ticket and holder files, a guard lock | enqueue, decide, hold, sweep, nest | files with a flock each; `/proc` readings |
| te-runner (`tools/runner`) | one queue file, git clones, the fork | add, run, judge, push, open a PR, report, recover | whole-file saves under a queue lock; git, `gh` |
| te-runner archive (`te_run.py`) | `archive/<N>`, refs, the clone | archive the last attempt, clone, pin, push | directories and refs of one repository |
| BATCH authorization (`tools/hooks/batch_*.py`) | one grant file | mint, extend, re-arm, link, revoke, decide, consume, prune | two hooks around each merge; GitHub |
| Pre-close review (`tools/gh/preclose_*.py`, `kill_check.py`) | a receipt and a kill receipt per issue | plan, complete, rule, post-verdict check, kill check | a lock per issue; the merge hook reads it |
| FORCE grant (`tools/gh/force_grant.py`) | one grant file per issue | the operator's line, record, require, consume | the review's commands; an issue comment |
| IMC waiver (`tools/gh/imc_waiver.py`) | a hook record, a receipt, an archive | the operator's line, record, end, retire | a lock per key; issue comments |
| Board cache (`tools/gh/item_list_cache.py`) | rows, a stamp | get, fetch, invalidate | two files without a lock; a probe of GitHub |
| Belt, posts (`watch_lane_posts.py`, `belt_mechanics.py`) | watermarks, a seen-set | poll, classify, deliver, promote | GitHub comments, the lane's session |
| Belt, offers (the same files) | an offer file | arm, poll, tell, save | GitHub issues, the lane's session |
| Belt, candidates (`belt_candidates.py`) | a file per issue, a lock | record, read, mark closed, prune | posting tools write, belts read and mark |
| Lane posting (`l1_post`, `l2_post`, ...) | GitHub comments | validate, post, refetch | REST |
| Gate readiness (`check_lane3_ready`, `gate_ci`) | none | decide over a thread and check runs | REST |
| Routing (`tools/routing`) | a route store | evaluate gates, append | files |
| Worktrees (`lanes_reap`, `worktree_gc`, ...) | worktree markers | look for live processes, remove | process tables |
| Hooks on prose and permissions (`tools/hooks`) | mostly none | text of one call to allow, ask or deny | the host's hook protocol |
| Onboarding, renderers, telemetry, templates | generated files | render, compare | none |

What makes each modelled part correct, and hard (the full list, with the line of code at which each
bites and the properties about it, is `hazards` in `PROJECT.json`):

- broker: consumers of a grant take no lock, only the atomicity of `rename` keeps a grant single-use; a
  mint may fail after it created its file, and its answer must not invite a second mint;
- admission: readings are taken before the lock is held and do not show a young job; waiters are ordered
  by names made outside the lock, and any of them can die with its file left behind;
- te-runner: it saves the whole queue from memory and can be killed between a push and its record; what an
  attempt was judged on can change while it runs; its archive deletes what it copies, trace by trace;
- BATCH: a target is chosen outside the lock it is spent under, by a hook that also fires for failures;
  CI is read for one head, the merge happens later;
- review: every command rewrites the whole receipt, forces are posted outside the lock that guards it,
  and the merge hook reads without it;
- waiver: `record` takes no lock, and `end` is four writes of which any prefix may be all that happened;
- board cache: rows and stamp are two files, written at two moments by sessions that do not know of each other;
- belts: a line printed, its record and the watermark are three writes, and a belt is killed every half hour;
  a tick decides about a candidate from what it read before the last post came.

## 2. The modules

| Module | Models | Proofs |
|---|---|---|
| `SingleUseGrant` | abstract: what a single-use grant promises | – |
| `GrantStore` | `hrse_gate_broker.py`, `hrse_gate_run.py` | `GrantStore_proofs` |
| `HeavySlot` | `heavy_slot.py` | `Machine_proofs` |
| `TeRunner` | `te_run.py`, `te_queue.py`, `queue_state.py`, `verdict.py`, `report.py` | `TeRunner_proofs` |
| `TeArchive` | `te_run.py`: `archive_previous_attempt`, `work_item` on the clone | `TeArchive_proofs` |
| `BatchAuth` | `batch_auth.py`, `batch_gate.py`, `batch_consume.py` | `BatchAuth_proofs` |
| `Preclose` | `preclose_check.py`, `preclose_passes.py`, `kill_check.py`, `force_grant.py`, the merge hook | `Preclose_proofs` |
| `ImcWaiver` | `imc_waiver.py` and the hook that writes its record | `Lanes_proofs` |
| `BoardCache` | `item_list_cache.py` | `Machine_proofs` |
| `BeltPosts` | `watch_lane_posts.py`: comments; `belt_mechanics.py`: `Watermarks`, `SeenSet` | `Unattended_proofs` |
| `BeltQueue` | `watch_lane_posts.py`: queue; `belt_mechanics.py`: `OfferState` | `Unattended_proofs` |
| `BeltCandidates` | `belt_candidates.py`; `watch_lane_posts.py`: the tick's reads of an issue's state | `Machine_proofs` |
| `MC*` | values, symmetry, views and bounds for TLC; parts side by side | `Machine_proofs`, `Unattended_proofs`, `Lanes_proofs` |

How they compose. Inside a module: minters and consumers over one store, wrappers and the commands inside
them, the driver with the operator, Lane 1 and the fork, two hooks around one merge, the commands of the
review with the operator's lines and the merge. `Preclose` takes of `ImcWaiver` what it reads, the state
of the waiver's receipt, as a variable the other party moves (`WaiverMoves`), and `ImcWaiver` of `Preclose`
whether the passes say stop (`StopMoves`). `TeRunner!Begin` does in one step what `TeArchive` does in
fourteen. The rest share no state. Three MC modules therefore put parts side by side and let a behaviour
take steps of one of them (`side`): `MCMachine` (slots, board, candidates), `MCUnattended` (driver, archive, posts,
offers), `MCLanes` (BATCH, review, waiver). That such a behaviour is, for each part, a behaviour of the part's
own specification is proved; the theorems about a part assume no scope.

In every module a process is a program counter and the locals that live across its steps; a step ends where
the code could be preempted in a way the others see (a file read or written, a lock taken, a child
started). A kill is an action enabled at every such point; it loses the locals, and gives a flock back,
as the kernel does. Names, times of day, text and JSON are left out.

Operators whose comment says "a mutant" are wrong versions of a definition, kept beside it. The
models do not use them: each replaces its definition in one experiment that shows that a
property would notice (`mutants` in `PROJECT.json`).

### GrantStore

`file`, `key`, `expires` are the store: a nonce is absent, an empty file, a written record, a receipt or
pruned. `Acquire`/`GiveUp` are `_store_lock` (a bounded wait), `Prune`, `CheckDuplicate`, `Create`,
`Write` are the steps of `_mint`, `Report` and `FinishMint` the exit codes of `_grant_from_ae` and `main`.
`StartConsume`, `Inspect`, `Claim`, `Refuse`, `PrintConsumed` are `consume`, from the listing of the
directory, over the loop, to the rename; `Exec` is the runner becoming the gate script. `ChildDies` covers a
kill and the runner's 60-second timeout. History variables: `mmade`, what a mint really created; `cowed`,
the grants a consumer was entitled to when it listed the store.

`SingleUseGrant` is the contract: a grant is opened once, spent once, and buys one run.
`GrantStore!ContractSpec` is that specification under the refinement mapping `AbstractState`,
`AbstractApproval`; it is both model-checked and proved.

### HeavySlot

A job is a wrapper and its command. `Arrive` names the ticket after the clock, outside the guard;
`Enqueue` creates it under the guard; `Read` is `read_system`; `Decide` is `_admit` and `decide`; `Start`
removes the ticket; `Sweep` is what any look at the directory does to dead owners' files. `use` is what each
command uses, which `Allocate` changes in either direction, up to the reservation; `shown` is what all of
them used when the reading was taken, as `MemAvailable` tells it: nothing of reservations, so an old job
that uses less than it reserved leaves room for another. `calm` stands for cores, load and pressure, which
may keep saying no for ever. `FailOpen` is every path on which admission gives up and the command runs
anyway; `Die` the death of the wrapper, with or without its command. History: `ahead`, and `grown`, the jobs in
slots whose command took more memory again when it was older than `Ramp`.

The code has constants for these delays and no statement of how they must relate; the assumption
`Ramp + ReadGap <= Recent` says it: `recent_seconds` has to cover both the time a command takes to grow and
the age a reading may reach before it is used. The rest of the assumption is what a machine has: finitely many
jobs, none larger than its memory, and steps that start no steps. The model also takes from the code's idea of
a reservation that a command never uses more than its own, and that what other programs use does not change.

### TeRunner and TeArchive

One queue file, one run at a time. `Start` is the head of `_run_queue` (load, new id, `reconcile`,
`recover`, save); `Survey`, `Pick`, `PassOver`, `EndRun` its loop; `Begin` the checks and the clone of
`work_item`; `Judge` the reduction of the clauses (`Reduce`, over all combinations of pass, hit and
missing fact); `Push`, `CreatePr`, `ReadLive` the publication, where a command that failed may have worked all
the same; `Report` is `report.py`, run by the unit after the driver stopped. `Crash` is a kill or a power
cut anywhere. `Add`, `Requeue`, `ClosePr`, `LaneOneChanges`, `RunnerChanges` are the environment: the
operator, Lane 1's posts, and edits of the runner's tree. A driver is one process: `Start` loads the modules
of the checkout as it is then (`loaded`) and works every item of the run with them, while `Pick` records the
tree of the checkout's HEAD (`snap`, from `outcome_record` and `runner_tree`). `used` is what an attempt
worked from: the posts and the bundle at `Begin`, the code of `loaded`. Of the runner's files that are read or
started later (the agent's settings, the scripts run as processes), `loaded` is the oldest version that can be
involved. History: `asked`, `used`, `judged`, `outrun` (an item whose last set-aside recorded a newer tree than
the code that judged it), `clean`, `greens`, `proposed`.

`TeArchive` follows one issue over its attempts. `FinishStale`, `StartArchive`, ..., `Rename` are
`archive_previous_attempt` write by write: the `.tmp` directory, the patches, the reference of the old
head, the removal of the live ref, of an older runner's branch and of the clone (a step that can be cut in
two), and the rename that completes it. `PickNumber` to `PushHead` are what `work_item` does to the clone.
`did` is the work each attempt left; a patch holds commits and edits, not untracked files.

### BatchAuth

The file is `[Keys -> Entries]`; an entry has targets (`slots`), each linked to a pull request or not, and free,
revoked, or spent by a command. A merge goes through `Decide` (the lockless read), `Judge` (head and CI read
from GitHub, then the pin compared), `Merge` or `MergeFails`, `Match` and `Confirm` (the consuming hook before
it locks), then `Lock` and `Change`. A prompt the gate answers with "ask" goes through `Answer`. Writers are
`Mint` (`authorize`, and `top_up` of a key not live or revoked as a whole), `Extend`, `Change` (`link_pr`,
`revoke`, `consume`) and `Prune`; `GiveUp` is `StateLockTimeout`. `Relocated` is `_relocate_target`. `Derived`
says which key a pull request's branch and title name. History: `judged` and `auto` (what gates read as green,
and what was merged without asking), `typed` (whose BATCH a grant goes back to), `archive`.

### Preclose and ImcWaiver

`receipt` is the receipt of one issue: its passes by epoch, the plan, the last ruling, the reviewed head,
the post-verdict check. `holder` is the command that has the issue's lock and what it holds across the
grant it spends: `StartForce`, `StartCorrection` take it, `Reserve` spends, `RecordForced`,
`RecordCorrection` write, `ForceGivesUp` dies with the grant spent. Commands that spend nothing are
one step each: `Plan`, `CompletePass`, `ClusterVerdict`, `PostVerdict`, and `KillStart`, `KillEnd`, `Waive`
of the kill check. `HookRead`, `HookWrite` are the FORCE line; `RecordRead`, `RecordPost`,
`RecordFinish` are `record`, whose comment is posted between a read and a write of the grant file without a
lock. `AllowMerge` is the merge hook with `--match-head-commit`, `MergeLands` the merge, `PushHead` a push
or a rebase (`ChangeOf`: a rebased head is the same change). History: `ran`, the passes with the grant each
spent, `landed`. `ForceContract` is `SingleUseGrant` again, for FORCE grants: a line on record opens a grant, a
newer line voids it, a reserved pass or correction spends it and its record is the one run it buys. It is
model-checked and proved as well.

`ImcWaiver` takes the waiver's files one write at a time. `RecordChecks`, `RecordPends`, `RecordPosts`,
`RecordConfirms` are `record`; `EndLocks` to `EndUnlinks` are `end`, with the receipt as its journal and
the question whether an interrupted end had posted (`EndFinds`); `RetireLocks` to `RetireMovesReceipt`
retire the files of a closed issue. `Dies` kills any process between any two of them. `crossed` marks a
`record` that wrote under a running `end` or `retire`.

### BoardCache

`rows` and `stamp` are the two files, each absent, opened (empty) or whole, with the version of the board
they show. `GetReads` to `GetStamps` are `get_board_items`: read both, probe, compare, age, scan, write
rows, probe again, write the stamp; `FullReads` to `FullFills` are `fetch_full_board`, which writes rows
only. `ReaderFails` is a kill or an error at any step, `EditBoard` an edit by anyone. `overlap` marks that
an edit or a second writer fell between a scan and its stamp.

### BeltPosts and BeltQueue

`thread` holds the posts with GitHub's timestamps, `mark` the watermarks, `seen` the seen-set. `Arm` starts a
belt, `Fetch` reads the posts of one issue since `QuerySince`, at most a page of them; `Classify` primes or
records a post as pending; `TargetDone`, `OpenMark`, `FillMark` advance the watermark of an issue that had none
(a file rewritten in place); `PrintLine`, `PrintPrimed`, `Flushed`, `Promote`, `AdvanceLater` are the delivery,
in the order that makes a kill safe. `skew` is how far this machine's clock is ahead of GitHub's. `old` and
`missed` mark what the code gives up and says so: posts older than the watermark's horizon, posts beyond the
page.

In `BeltQueue`, `owed` is what awaits the lane at GitHub (the marker of the comment that queues each
issue), `offers` the offer file, `watcher` the running belt. `Poll` is one `queue_cycle`: what it could
check, what is marked closed or superseded, are inputs; `Tell` prints one line; `SaveOffers` writes the
file, or fails. `knows` is what each lane session was told.

### BeltCandidates

`entry` is the file of one issue: the post last recorded, its stamp in whole seconds, the lane that owes an
answer, the closed mark. `StampPost`, `WritePost` are `record_candidate`, on either side of the wait for the
store's lock. A belt's tick goes through `TickBegins` (`drop_closed_targets`, which may read and remember the
state of the issue), `NoteTime` (`store_read_at`), `ReadStore` (`read_candidates`, without the lock),
`PruneReads` to `PruneUnlinks` for an entry too old, `CheckIssue` (`discover_queue` asks for the state), and
`RetireReads`, `RetireMarks` (`retire_candidate`, under the lock). `newest` and `kept` are history: the post
last written, and the posts in the archive; `seenAt` in a mark is when the issue was read as closed, and `is`
whether that was read in its turn or remembered from before the store was read.

## 3. What is checked

Deadlock is not checked because every one of these systems may stop: bounds on nonces, runs or commands
run out, and all jobs end. Every property of a passing run was seen to fail on its instance with a
plausible mistake put in the code's place.

| Run | Instance | Shows |
|---|---|---|
| `grants` | 2 terminals, 2 runners, 2 actions, 2 commits, 2 nonces, clock 0..1 | one live grant per approval; a refused mint left no file; a grant is spent once, leaves the store only by being spent, and no refusal while an owed grant is live; the store implements `SingleUseGrant` |
| `machine` | slots: 3 jobs that reserve 2 units each, 4 units. board: 2 readers, 2 edits. candidates: 2 posts, 1 belt, 1 close or reopening, clock 0..4 | what the commands in slots use, the recent ones counted at their reservation, is never more than there is; while anyone waits a living job is the head of the queue; first come, first served; overdue starts one at a time; rows are never older than their stamp, unless an edit or a second writer fell in between; the newest post stays recorded until archived, and unhidden unless its issue was seen closed later |
| `unattended` | driver: 2 items, 3 runs. archive: 3 attempts. posts: 2 issues, 2 posts, 1 kill. offers: 2 issues, 2 markers, 2 sessions, 2 kills | pushes recorded and green; one attempt per request; one open PR; no skip on a stale judgement, unless the checkout had outrun the run; a first push made visible; no item dropped by a whole-file save; every attempt kept; every post announced or still to be read; an offer told to the session it is held for |
| `heavy_waits` | a job, its step, a stranger, of 1 unit each, 2 units; commands that take all they reserved at once | every wait ends |
| `lanes` | BATCH: 2 sessions, 1 terminal, 1 key, 2 PRs, 2 heads, 3 commands. review: 3 heads, 4 passes, 2 grants. waiver: 2 records, 2 ends, 1 retirement, 2 lines | nothing merges unasked unless judged; a target is spent only by a merge; no writer undoes another; merged means reviewed; the cap on passes holds; a force is on record and used once; a waiver is enforced until it ends, and ends once and for good |
| `heavy_wedge`, `te_hidden_push`, `batch_false_spend`, `preclose_stale_check`, `board_stale`, `te_work_lost`, `belt_page` | as the passing runs of the same modules, or smaller | **violations**: see findings |

Why these bounds are enough to be interesting. Two minters and two nonces are what a duplicate needs, two
consumers and one file what a double spend needs, and one tick is what an expiry between two steps needs. Three
jobs of two units over four leave one job waiting while two run, let it in when the two use less than they
reserved, and allow a waiter to die in the middle of the queue. Three runs are an attempt, a retry and a start
that recovers the retry; one change is what makes a record stale, or the checkout newer than the run's code;
three attempts an archive of an archive. Two sessions and a terminal over one key give every pair of writers;
three commands are a mint, a merge and anything in between; two heads are one push, the third a rebase. Four
passes are two epochs of two. Two ends are an interrupted one and its retry. Two stamps to a second and two
posts let a mark meet a post of its own second; one belt is enough there, since what a second belt does to the
file is under the same lock. Two posts and one kill are a post told, a kill, and a post that must not be lost or
told again.

Where the whole product is too large, the MC module says which parts of it are explored, and each part
keeps the cases that its properties are about: `DriverScope` (one item with a change of one dependency, or two
items with none; one reason of those that watch the same dependencies), `BeltScope` (one issue with kills, or
two with failing polls), `OfferScope` (one issue under two sessions, or two handed over once), `WaiverScope`
(which processes run together), and the parts of the review: `MergePart` (passes, clusters and merges with a
rebase), `GrantPart` (two grants and what they are spent on), `EpochPart` (a grant after or between the passes
of an epoch), `WaiverPart`, `KillPart`.

`Machine.cfg` uses a VIEW that forgets fields of jobs that will not be read again, and `Grants.cfg` one that
forgets what the two terminals no longer hold; `grants`, `machine` and `lanes` use symmetry over processes
and names. The liveness run uses neither.

### Fairness

`HeavySlot!Fairness` asks that time passes, that a waiting wrapper polls (the code polls on a timer), and that
each command ends in the end. The last is an assumption on the users' commands, without which no queue can
promise anything; a busy machine (`calm` false for ever) and deaths are not excluded. It is the only fairness
assumed. Nothing else here is promised to happen: a person types, an agent merges, a timer may be off. The two
runs about waiting use `SteadySpec`, in which a command takes all the memory it reserved before anything else
happens and keeps it to its end, so that those behind it wait longest; commands that take less, or give some
back, are left to the safety run.

## 4. Findings

1. `heavy_wedge`. "It never stops work" has an exception: the memory floor has no bound, and a step of a
   command whose wrapper was killed (or failed open) no longer finds the live holder that would exempt it. It
   queues for memory its own command holds; neither goes on, and the queue waits behind it.
2. `te_hidden_push`. `reconcile` makes a push without a recorded PR visible for a first attempt only: fields of
   an earlier attempt survive a re-queue and hide the second one.
3. `batch_false_spend`. A consumption matched before the lock may, under the lock, fall on the first free
   target of the key, even one that is now linked to another pull request, which is then recorded as merged.
4. `preclose_stale_check`. A plain `--force` asks for a refuter's check of the head it forces, and accepts one
   made in an earlier epoch, before the passes whose findings it is meant to have read.
5. `board_stale`. The stamp of the rows is probed after the scan. An edit in between is in the stamp and not in
   the rows, which are then served as "provably current" until the next edit.
6. `te_work_lost`. The patches of an archived attempt hold commits and edits; a new, untracked file beside
   them is lost with the clone, since the check that the archive is not empty sees the other two.
7. `belt_page`. The comments of an issue are read in one page of thirty and the watermark is advanced to the
   time of the poll: posts beyond the page are older than the next window and never read.

## 5. What is proved

The theorems hold for every value of the constants that satisfies the assumption the module names: any number of
processes, files, jobs, items, runs and pull requests. TLC evaluates the assumptions in every run. Each proof
has the same shape: types first (`TypeCorrect` and its like), then an inductive invariant made of named parts,
one step per action, then the property.

- **GrantStore.** `MintInv` adds to the properties what a mint knows between its steps (`MintFacts`): it holds
  the lock from prune to write, there is no duplicate from its check until it has written, and the file it
  fills is its own and still empty. One grant per approval does not follow from itself: a second minter's
  check could be true before the first one's write; it follows from the lock, which makes the first one's
  finding last. `ConsumeInv` adds `ConsumeFacts`: the file a consumer chose names its key whoever moved, and an
  owed live grant is still on its list. The two action properties and the refinement follow from these.
- **HeavySlot.** `SlotInv`: whoever was queued when a job came sorts before it (`AheadSortsBefore`), and a
  command starts in the moment its job is admitted in (`StartsAtOnce`); from these `FirstComeFirstServed` and
  `OverdueOneAtATime`. `NoOvercommit` counts a recent job at its reservation and an older one at what its
  command uses. It is inductive only with `ReadingCovers`: what the commands use that had grown by the time of a
  reading is at most what it showed, for as long as it waits for the guard, since they only give memory back (or
  are in `grown`). At a decision a job in a slot is either one of those, and shown, or, by the assumption, still
  recent, and subtracted; so what is compared with the memory is at least what is counted. Between decisions a
  count only falls: a reservation becomes what is used of it, commands shrink and end. The sums are of a number
  for each job of a finite set (`Total`), a fold, and so a recursive function, to which the library's induction
  theorems cannot be applied; each lemma about them (`TotalStep`, `TotalType`, `TotalWithout`, `TotalOfFewer`,
  `TotalOfUnion`, `TotalOfLess`) takes a smallest set for which it would fail instead (`SmallestSubset`, from
  the well-foundedness of strict inclusion). `NamesInOrder` (any set of jobs has one whose name nobody's of the
  set sorts before, and no name sorts after one not yet given) gives `SomeoneIsNext`: the names are taken
  outside the guard and seen in part, and still no ring of waiters can form. It also gives `NobodyJoinsAhead`: a
  head may be overtaken by a ticket made late, but the jobs to be let go first only grow fewer.
- **TeRunner.** `Basic` (memory is the file, one item in progress, an item is tried once per run), with
  `RequestLeft` gives `NotRedoneUnasked`, and alone `QueuedStays`; `PushKnown` gives `PushRecorded` and
  `OnlyGreenPushed`, `GreenKnown` `ProposedWasGreen`, `PrKnown` `OneOpenPr`, and `SeenBeforeJudged`
  `SkippedWasJudged`: what is recorded was read before the work, versions only grow, all items share one
  checkout, and an attempt's code is the one its process loaded. What an item is skipped on is then no newer
  than what it was judged from, which is no newer than what holds now; if the first and the last agree, so does
  the judgement. The tree is part of this only while the recorded one is the loaded one, that is, while the item
  is not in `outrun`. `Unnoted` (an item never put back has no note before it is blocked and no pull request on
  record before it is done), with `PushKnown`, gives `FirstPushVisible`. `GreenOnlyWhenAllPass` says of `Reduce`
  that green means every clause passed, for every order of clauses.
- **BatchAuth.** `GrantInv` adds two parts. `LockFacts`: one process is under the lock, and its copy is the
  file, so that a writer that replaces the whole file changes only its own entry (`Writes`). `Knows`: what a
  process learned before it waits stays so: a consumption was confirmed merged, and merges are final; an
  allowed command is pinned to a judged head, and judgements are not withdrawn. Each writer's effect on one entry
  (`Wrote`) is then shown to keep its targets (`Stands`), its links and its sessions, entry by entry
  (`RevokedEntry`, `LinkToEntry`, `SpentEntry`, ...).

- **Preclose.** `Grows`: epochs only grow along the receipt, so the last pass is the reviewed one and the
  current passes are the last ones; `PassesRan`: every pass of the receipt is in the history. From these
  `MergedWasReviewed`. `SameCount`: receipt and history count the same passes of each epoch, hence `CapHolds`.
  `GrantKnown`, `InHand` (the grant a command spent is consumed for what it forces, and bought nothing yet) and
  `UnforcedPaysNothing` give `ForcesOnRecord`. With `GrantRoom` and `PendingUnopened` (a line that is
  not yet recorded has opened no grant), each step is a step of `SingleUseGrant` or a stutter: `ForceContract`.
- **TeArchive.** `Control` ties the `.tmp` directory, the references and the clone to the step the run is at;
  `SavedIsPinned` and `PinsKept` say that what was saved has a reference that stays; `WorkKeptInv`: each
  attempt's work is settled in the archive or still at hand in the clone or the `.tmp`. Together
  `AttemptsKept`. One trace is deleted only when the next holds it, and a kill keeps either. `NumberIsNew` gives
  `PushesNewBranch`; that there is a number to pick (`FreshNumber`) is the pigeonhole principle on the fork's
  finitely many branches, and part of `ArchiveTypeCorrect`.
- **ImcWaiver.** `OneInside` (one process under the lock of a key) and `FoundStays` (a posted end that a retry
  found stays posted) give `EndedOnce`; `UnhookedStays` and `HookIsLater` (a hook record that comes back is a
  newer line) `EndedStaysEnded`; `SameReceipt` and `AllCovered` `WaiverEnforced`.
- **BoardCache.** `HeldIsBoard` (between scan and stamp a process holds the board's rows unless something
  fell in between) and `PastOnly` (nothing read is newer than the board) give `RowsAsStamped`.
- **BeltCandidates.** `FileIsNewest` (the file is of the post last written), `LockHeld` and `Decided` (what a
  belt under the lock decided on is still the file) keep a post from being overwritten or unlinked.
  `ReadInOrder` (the time is noted, then the store is read, then the issue) keeps it from being hidden:
  `RetireReads` goes on only if the file's stamp is before the noted second, so, rounding being monotone
  (`Stamps`), the post was made before the noted time, and so before the issue was read. Together
  `FreshPostKept`, for any number of belts.
- **BeltPosts.** `Reached` says that a watermark is never past a post that was not printed. It holds because
  `Caught`: what a poll has read of an issue is printed, in hand or as young as the poll, until the watermark
  moves to the poll's time. `Followed` (an issue once read keeps a watermark) rules out priming a later
  post, and `Counted` (what is still in hand or to be read again was never recorded) bounds the repeats by
  the kills. `Phases` says what a belt has in hand at each step. Together `PostsDelivered`.
- **BeltQueue.** `CopyTold`: an offer a belt holds for its session, of a marker that could be found queued
  again (`Live`), was told or has its line to come; `FileTold`, the same of the file that the next belt loads.
  Both need that markers only grow (`Ordered`): an offer the file still holds under an older marker cannot
  suppress anything. With `QueueTold` and `LinesFit`, `OffersTold`.

- **The parts together.** `MachineSpec`, `UnattendedSpec` and `LanesSpec` imply the specification of each of
  their parts (`SlotsPart`, `BoardPart`, `CandidatesPart`, `DriverPart`, `ArchivePart`, `PostsPart`,
  `OffersPart`, `GatePart`, `ReviewPart`, `WaiverSide`): every step is a step of the one or leaves its
  variables alone. With the theorems of the parts, this proves all that the three composed runs check:
  `MachineTypesCorrect` and `MachineSafe`, `UnattendedTypesCorrect` and `UnattendedSafe`, `LanesTypesCorrect`
  and `LanesSafe`.

Every invariant and every action property of a passing run is proved. Model-checked only: liveness
(`EveryWaitEnds`, out of the prover's reach; its safety core is `SomeoneIsNext` and `NobodyJoinsAhead`: there is
always a living head to let in, and each waiting job comes nearer to being it) and the seven violations.

## 6. What is not modelled

- Recognising commands and prompts (shell grammar, provenance of a typed line), JSON and text formats. An
  unreadable file enters as a state where the code treats it as one.
- In `BatchAuth`, several merges in one command (the gate always asks for those), the carrier cache, and the
  case of two sessions' gates that read one free target and both let a merge through.
- In `Preclose`, the sizing of panels and the evidence that a refuter was of another family (text), the
  stop-rule shadow, enrolment, sticky and pitch receipts.
- In `HeavySlot`, the arithmetic of load and pressure, which can only delay, and a wall clock set back.
- In `TeRunner`, hand edits of the queue file under a running run, and the lag of GitHub's search index behind
  `gh pr list`; the agent's boundary, the base-check cache and the notification.
- In `BeltPosts`, which comments are the lane's (text), lines about branches, discovery of worktrees; in
  `BeltQueue`, the discovery of what awaits the lane, an input (`BeltCandidates` shares no state with it). In
  `BeltCandidates`, files that cannot be read, which the code skips, and two posts of one issue written in the
  reverse order of their stamps, of which the last written counts.
- Seven windows the properties leave out by a history flag, each a case where the code does not hold what it
  promises, or says itself that it does not: a kill inside the removal of a clone (`torn`: the next run drops a
  complete archive and redoes it from what is left), a kill while a watermark is rewritten in place (`tornMark`:
  the code reports the empty file), a kill between the line that an item left the queue and the save
  (`halfLeft`: the old offer then suppresses the same post if it stands again), a `record` that writes while an
  `end` or a `retire` runs (`crossed`: `record` takes no lock), and a tick that remembers an issue as closed
  from before it read the store (marks that are `remembered`: a post between the two, on an issue reopened for
  it, is hidden until the mark is checked again, after `CLOSED_RECHECK`), and the two that follow.
- `grown`: a command that, older than `Ramp`, takes more memory than it used when a reading was taken. A slot
  may since have been given away in the room it left, and all commands together then use more than there
  is. The code trusts in that ("a reading already shows what an older job uses") and reserves more
  than was measured of a kind; `NoOvercommit` does not count such a command, and without that exemption it fails on
  the instance of `machine`. In particular the slots do reserve more than there is, and no property says otherwise.
- `outrun`: the checkout of the runner changes between the start of a run and the pick of an item. `outcome_record`
  then records the newer tree for an attempt that the older code judges, and later runs pass the item over
  as "unchanged", though the runner they would work it with never did. The comment at `SOURCE` in `te_queue.py`
  has set-aside and check "compare the same checkout by construction", which holds; that it is also the code that
  worked does not. `SkippedWasJudged` says nothing of the tree of such an item (of its posts and its bundle it
  does), and without that exemption it fails on the instance of `unattended`. A change after the pick is
  caught: the older tree is the one recorded.
- The runner's answer that no grant was spent, when its broker child was killed after the rename: the child
  has spent the grant and cannot say so. It errs on the safe side.
- Hooks that are functions of one call's text, renderers, onboarding, posting, routing, telemetry, worktrees and
  launchers. Each is listed in `PROJECT.json` with its reason. They are most of the repository's lines, and
  the reason the map covers a small share of them: what they compute is text from text, with no state
  between calls for a specification to speak of.

## 7. What could come next

1. `select_ae`, `sha_is_head` and `has_spent_dry_run` as the inputs of `GrantStore!StartMint`, with the head
   moving in between.
2. The order of the writes of `gh_issue.py` (an issue, its labels, its place on the board) and what a retry
   after a failure in the middle repeats.
3. `BeltQueue` over the store of `BeltCandidates`, in place of its input of what can be checked.
4. The routing gates against a reference definition over small inputs.
5. `TeRunner!Begin` refined by `TeArchive`, so that both use one set of attempts.
