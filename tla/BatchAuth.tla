------------------------------- MODULE BatchAuth -------------------------------
(***************************************************************************)
(* BATCH authorization: tools/hooks/batch_auth.py and its two hooks,       *)
(* batch_gate.py (before a command) and batch_consume.py (after it).       *)
(*                                                                         *)
(* An operator's "BATCH <key>" grants merge targets for an issue in one    *)
(* state file.  The gate reads the file without a lock and lets a merge    *)
(* through or asks; when the merge has landed, the other hook marks a      *)
(* target consumed.  Everything that writes the file loads it, changes it  *)
(* and saves the whole of it under the file's lock, or gives the lock up.  *)
(*                                                                         *)
(* BATCH is typed, and merges are run, in the lanes' sessions; the other   *)
(* commands are the operator's, in a terminal.  A pull request is linked   *)
(* to a key by link-pr, or names it by its branch and title (Derived).     *)
(***************************************************************************)
EXTENDS Naturals, Sequences, FiniteSets

CONSTANTS Sessions, Terminals, Keys, Prs,
          Derived,    \* [Prs -> Keys \cup {NoKey}], derive_issue_key
          NoKey, NoPr,
          MaxOps,     \* bound on the prompts and commands
          MaxHeads    \* bound on the heads pushed to a pull request

ASSUME ConstantsAssumption ==
  /\ NoKey \notin Keys /\ NoPr \notin Prs
  /\ Derived \in [Prs -> Keys \cup {NoKey}]
  /\ IsFiniteSet(Prs)
  /\ MaxOps \in Nat /\ MaxHeads \in Nat \ {0}

VARIABLES
  grants,    \* [Keys -> Entries], the state file
  age,       \* [Keys -> Ages], how the entry's expires_at compares with now
  pc, job,   \* [Actors -> ...], where each process stands, and with what
  copy,      \* [Actors -> [Keys -> Entries]], the state loaded under the lock
  ops,       \* prompts and commands so far
  head,      \* [Prs -> 1..MaxHeads], the head of the pull request
  merged,    \* [Prs -> 0..MaxHeads], the head that was merged
  \* History.
  mints,     \* Nat, grants written
  judged,    \* the <<pull request, head>> a gate read as green, and let through
  auto,      \* the <<pull request, head>> merged without asking
  typed,     \* [Keys -> SUBSET Sessions], whose BATCH the grant goes back to
  archive    \* the <<key, mint>> the telemetry archive holds

files   == <<grants, age, mints, typed, archive>>
github  == <<head, merged>>
history == <<judged, auto>>
process == <<pc, job, copy, ops>>
vars    == <<files, process, github, history>>

-----------------------------------------------------------------------------
(***************************************************************************)
(* The state file.                                                         *)
(***************************************************************************)
Actors == Sessions \cup Terminals
Heads == 1..MaxHeads

\* A merge command as the gate sees it: in the one bound form, pinned to a head, or
\* (0) in any other.
Commands == [pr: Prs \cup {NoPr}, pin: 0..MaxHeads]
NoCommand == [pr |-> NoPr, pin |-> 0]

\* One target: its pull request, and whether it is consumed: revoked, or spent by a
\* command, whose retry it still lets through.
Slots ==
       [pr: Prs \cup {NoPr}, is: {"free", "revoked"}, by: {NoCommand}]
  \cup [pr: Prs \cup {NoPr}, is: {"spent"}, by: {c \in Commands : c.pr # NoPr}]
FreeSlot == [pr |-> NoPr, is |-> "free", by |-> NoCommand]

\* mint stands for authorized_at.  No owners: no session_ids, every session's.
Entries == [mint: Nat, slots: Seq(Slots), owners: SUBSET Sessions]
Absent == [mint |-> 0, slots |-> <<>>, owners |-> {}]

Ages == {"live", "expired", "stale"}   \* stale: beyond PRUNE_GRACE_HOURS

\* What a process is at: a merge command, or one of the writers.
Jobs == [op: {"none", "batch", "topup", "authorize", "revoke", "link", "merge", "consume",
                "prune"},
         key: Keys \cup {NoKey}, cmd: Commands]

Present(e) == e.mint # 0
Places(e) == DOMAIN e.slots
Free(e) == {n \in Places(e) : e.slots[n].is = "free"}
Linked(e, p) == {n \in Places(e) : e.slots[n].pr = p}
Unlinked(e) == Free(e) \cap Linked(e, NoPr)
Least(S) == CHOOSE n \in S : \A m \in S : n <= m

Live(k) == age[k] = "live"
LiveIn(g, k) == Present(g[k]) /\ Live(k)

\* _match_pr_merge: a free slot linked to the pull request, else a spent one, else
\* the first free unlinked slot of the key it derives to.  (link-pr may name one pull
\* request under two keys: the file's order decides.)
Matches(g, p) ==
  LET linked == UNION {{k} \X Linked(g[k], p) : k \in Keys}
      free   == {m \in linked : g[m[1]].slots[m[2]].is = "free"}
      spare  == IF Derived[p] = NoKey THEN {} ELSE Unlinked(g[Derived[p]])
  IN  IF free # {} THEN free
      ELSE IF linked # {} THEN linked
      ELSE IF spare # {} THEN {<<Derived[p], Least(spare)>>}
      ELSE {}

-----------------------------------------------------------------------------
(***************************************************************************)
(* What each writer makes of the state it has loaded.                      *)
(***************************************************************************)
Fresh(actions, owners) ==
  [mint |-> mints + 1, slots |-> [n \in 1..actions |-> FreeSlot], owners |-> owners]

\* Every target was revoked.
AllRevoked(e) == e.slots # <<>> /\ \A n \in Places(e) : e.slots[n].is = "revoked"

ExtendedAlone(e, s) == [e EXCEPT !.owners = {s}]   \* a mutant: the newest session only

\* A live grant named again: its session joins, if it is scoped to sessions at all.
Extended(e, s) == IF e.owners = {} THEN e ELSE [e EXCEPT !.owners = @ \cup {s}]

Revoked(e) ==
  [e EXCEPT !.slots = [n \in DOMAIN @ |-> IF @[n].is = "free"
                                          THEN [@[n] EXCEPT !.is = "revoked"] ELSE @[n]]]

LinkAgain(e, p) == FALSE   \* a mutant: a linked pull request takes a slot again

\* "At most one merge target per distinct pair", spent or not.
AlreadyLinked(e, p) == Linked(e, p) # {}

\* link_pr: the first free unlinked slot, or one more.
LinkTo(e, p) ==
  IF AlreadyLinked(e, p) THEN e
  ELSE IF Unlinked(e) # {} THEN [e EXCEPT !.slots[Least(Unlinked(e))].pr = p]
  ELSE [e EXCEPT !.slots = Append(@, [FreeSlot EXCEPT !.pr = p])]

\* _relocate_target: the free slot linked to the pull request, else the first free one.
Relocated(e, p) ==
  LET own == Free(e) \cap Linked(e, p)
  IN  IF own # {} THEN {Least(own)} ELSE IF Free(e) # {} THEN {Least(Free(e))} ELSE {}

SpentUnsigned(e, c) ==   \* a mutant: consumed, without the command's hash
  [e EXCEPT !.slots = [n \in DOMAIN @ |->
     IF n \in Relocated(e, c.pr) THEN [@[n] EXCEPT !.is = "spent"] ELSE @[n]]]

Spent(e, c) ==
  [e EXCEPT !.slots = [n \in DOMAIN @ |->
     IF n \in Relocated(e, c.pr)
     THEN [pr |-> IF @[n].pr = NoPr THEN c.pr ELSE @[n].pr, is |-> "spent", by |-> c]
     ELSE @[n]]]

\* _prune: stale entries, unless the archive does not take them.
Stale(g) == {k \in Keys : Present(g[k]) /\ age[k] = "stale"}
Pruned(g, gone) == [k \in Keys |-> IF k \in gone THEN Absent ELSE g[k]]

-----------------------------------------------------------------------------
TypeOK ==
  /\ grants \in [Keys -> Entries]
  /\ age \in [Keys -> Ages]
  /\ pc \in [Actors -> {"idle", "ask", "judge", "allowed", "approved", "ran", "confirm",
                          "want", "locked"}]
  /\ ops \in 0..MaxOps
  /\ job \in [Actors -> Jobs]
  /\ copy \in [Actors -> [Keys -> Entries]]
  /\ head \in [Prs -> Heads]
  /\ merged \in [Prs -> 0..MaxHeads]
  /\ mints \in Nat
  /\ judged \subseteq Prs \X Heads
  /\ auto \subseteq Prs \X Heads
  /\ typed \in [Keys -> SUBSET Sessions]
  /\ archive \subseteq Keys \X Nat

Idle == [op |-> "none", key |-> NoKey, cmd |-> NoCommand]
Unread == [k \in Keys |-> Absent]

Init ==
  /\ grants = Unread
  /\ age = [k \in Keys |-> "live"]
  /\ pc = [s \in Actors |-> "idle"]
  /\ job = [s \in Actors |-> Idle]
  /\ copy = [s \in Actors |-> Unread]
  /\ ops = 0
  /\ head = [p \in Prs |-> 1]
  /\ merged = [p \in Prs |-> 0]
  /\ mints = 0
  /\ judged = {} /\ auto = {}
  /\ typed = [k \in Keys |-> {}]
  /\ archive = {}

Goes(s, to) == pc' = [pc EXCEPT ![s] = to]

Rest(s) ==
  /\ Goes(s, "idle")
  /\ job' = [job EXCEPT ![s] = Idle]

-----------------------------------------------------------------------------
(***************************************************************************)
(* A merge command: the gate, the command, and the hook after it.          *)
(***************************************************************************)

Begins(s) ==
  /\ pc[s] = "idle"
  /\ ops < MaxOps /\ ops' = ops + 1

\* decide, its lockless read of the file.
Decide(s, c) ==
  /\ Begins(s)
  /\ c.pr # NoPr /\ c.pin <= head[c.pr]
  /\ job' = [job EXCEPT ![s] = [op |-> "merge", key |-> NoKey, cmd |-> c]]
  /\ \/ /\ \E m \in Matches(grants, c.pr) :
             LET slot == grants[m[1]].slots[m[2]]
             IN  Live(m[1]) /\ (slot.is = "free" \/ (slot.is = "spent" /\ slot.by = c))
        /\ Goes(s, "judge")
     \/ /\ \/ Matches(grants, c.pr) = {}
           \/ \E m \in Matches(grants, c.pr) :
                LET slot == grants[m[1]].slots[m[2]]
                IN  ~Live(m[1]) \/ slot.is = "revoked" \/ (slot.is = "spent" /\ slot.by # c)
        /\ Goes(s, "ask")
  /\ UNCHANGED <<files, copy, github, history>>

PinnedAnyhow(c, h) == TRUE   \* a mutant: a green head lets any merge through

\* "The merged SHA is the one judged."
Pinned(c, h) == c.pin = h

\* merge_ci_state: the head, and the CI of that head.
Judge(s) ==
  LET c == job[s].cmd
  IN  /\ pc[s] = "judge"
      /\ \/ /\ Pinned(c, head[c.pr])   \* and CI is green
            /\ judged' = judged \cup {<<c.pr, head[c.pr]>>}
            /\ Goes(s, "allowed")
         \/ Goes(s, "ask") /\ UNCHANGED judged
      /\ UNCHANGED <<files, job, copy, ops, github, auto>>

\* The operator answers the prompt.
Answer(s) ==
  /\ pc[s] = "ask"
  /\ \/ Goes(s, "approved") /\ UNCHANGED job
     \/ Rest(s)
  /\ UNCHANGED <<files, copy, ops, github, history>>

\* gh pr merge lands, if the head is still the one it is pinned to.
Merge(s) ==
  LET c == job[s].cmd
  IN  /\ pc[s] \in {"allowed", "approved"}
      /\ merged[c.pr] = 0
      /\ c.pin \in {0, head[c.pr]}
      /\ merged' = [merged EXCEPT ![c.pr] = head[c.pr]]
      /\ auto' = IF pc[s] = "allowed" THEN auto \cup {<<c.pr, head[c.pr]>>} ELSE auto
      /\ Goes(s, "ran")
      /\ UNCHANGED <<files, job, copy, ops, head, judged>>

\* It fails, or the pull request is merged already: the hook runs all the same.
MergeFails(s) ==
  /\ pc[s] \in {"allowed", "approved"}
  /\ Goes(s, "ran")
  /\ UNCHANGED <<files, job, copy, ops, github, history>>

Wants(s, op, k) ==
  /\ Goes(s, "want")
  /\ job' = [job EXCEPT ![s].op = op, ![s].key = k]

\* consume, before its lock: which target the command was authorized against.  With
\* none, the hook goes on to prune.
Match(s) ==
  /\ pc[s] = "ran"
  /\ \/ \E m \in Matches(grants, job[s].cmd.pr) :
          IF Live(m[1]) /\ grants[m[1]].slots[m[2]].is = "free"
          THEN Goes(s, "confirm") /\ job' = [job EXCEPT ![s].key = m[1]]
          ELSE Wants(s, "prune", NoKey)
     \/ Matches(grants, job[s].cmd.pr) = {} /\ Wants(s, "prune", NoKey)
  /\ UNCHANGED <<files, copy, ops, github, history>>

LandedAssumed(p) == TRUE   \* a mutant: the command ran, so the merge happened

\* action_landed
Landed(p) == merged[p] # 0

\* The pull request is read from GitHub, or cannot be.
Confirm(s) ==
  /\ pc[s] = "confirm"
  /\ \/ Landed(job[s].cmd.pr) /\ Wants(s, "consume", job[s].key)
     \/ Wants(s, "prune", NoKey)
  /\ UNCHANGED <<files, copy, ops, github, history>>

-----------------------------------------------------------------------------
(***************************************************************************)
(* The writers: a BATCH prompt, the operator's commands, and the hook.     *)
(***************************************************************************)
Ask(s, op, k) ==
  /\ Begins(s)
  /\ Wants(s, op, k)
  /\ UNCHANGED <<files, copy, github, history>>

AskLink(s, k, p) ==
  /\ Begins(s)
  /\ Goes(s, "want")
  /\ job' = [job EXCEPT ![s] = [op |-> "link", key |-> k, cmd |-> [NoCommand EXCEPT !.pr = p]]]
  /\ UNCHANGED <<files, copy, github, history>>

LockIgnored == TRUE   \* a mutant

\* _locked_state, on the file's .lock sibling.
LockFree == \A t \in Actors : pc[t] # "locked"

Lock(s) ==
  /\ pc[s] = "want"
  /\ LockFree
  /\ Goes(s, "locked")
  /\ copy' = [copy EXCEPT ![s] = grants]
  /\ UNCHANGED <<files, job, ops, github, history>>

\* What the hook still has to do when its consumption is done or was given up.
Done(s) ==
  IF job[s].op = "consume" THEN Wants(s, "prune", NoKey) ELSE Rest(s)

\* StateLockTimeout: nothing is written.
GiveUp(s) ==
  /\ pc[s] = "want"
  /\ \E t \in Actors \ {s} : pc[t] = "locked"
  /\ Done(s)
  /\ UNCHANGED <<files, copy, ops, github, history>>

Unlock(s) ==
  /\ copy' = [copy EXCEPT ![s] = Unread]
  /\ Done(s)
  /\ UNCHANGED <<ops, github, history>>

\* The file is replaced; gone are the entries that were pruned first.
Save(k, e, g, gone) ==
  /\ grants' = [Pruned(g, gone) EXCEPT ![k] = e]
  /\ archive' = archive \cup {<<j, g[j].mint>> : j \in gone}

\* authorize, and top_up of a key that is not live or whose every target was revoked.
Mint(s) ==
  LET k == job[s].key  g == copy[s]  op == job[s].op
  IN  /\ pc[s] = "locked"
      /\ \/ op = "authorize"
         \/ op = "topup" /\ ~LiveIn(g, k)
         \/ op = "batch" /\ (~LiveIn(g, k) \/ AllRevoked(g[k]))
      /\ mints' = mints + 1
      /\ \E gone \in {{}, Stale(g)} :
           Save(k, IF op = "batch"
                   THEN Fresh(2, IF LiveIn(g, k) THEN g[k].owners \cup {s} ELSE {s})
                   ELSE Fresh(1, {}), g, gone)
      /\ age' = [age EXCEPT ![k] = "live"]
      /\ typed' = [typed EXCEPT ![k] =
                     IF op = "batch"
                     THEN IF LiveIn(g, k) /\ g[k].owners # {} THEN @ \cup {s} ELSE {s}
                     ELSE {}]
      /\ Unlock(s)

\* top_up of a live key: its expiry, and its sessions.
Extend(s) ==
  LET k == job[s].key  g == copy[s]  op == job[s].op
  IN  /\ pc[s] = "locked"
      /\ op \in {"batch", "topup"} /\ LiveIn(g, k)
      /\ ~(op = "batch" /\ AllRevoked(g[k]))
      /\ \E gone \in {{}, Stale(g)} :
           Save(k, IF op = "batch" THEN Extended(g[k], s) ELSE g[k], g, gone)
      /\ typed' = [typed EXCEPT ![k] = IF op = "batch" THEN @ \cup {s} ELSE @]
      /\ UNCHANGED <<age, mints>>
      /\ Unlock(s)

\* revoke, link_pr and consume: one entry is changed, and only if it is there.
Change(s) ==
  LET k == job[s].key  g == copy[s]  op == job[s].op
  IN  /\ pc[s] = "locked"
      /\ op \in {"revoke", "link", "consume"}
      /\ grants' = IF ~Present(g[k]) THEN g
                   ELSE [g EXCEPT ![k] =
                           CASE op = "revoke" -> Revoked(@)
                             [] op = "link" -> LinkTo(@, job[s].cmd.pr)
                             [] op = "consume" -> IF Live(k) THEN Spent(@, job[s].cmd) ELSE @]
      /\ UNCHANGED <<age, mints, typed, archive>>
      /\ Unlock(s)

\* prune_now, after every merge command.
Prune(s) ==
  /\ pc[s] = "locked"
  /\ job[s].op = "prune"
  /\ \E gone \in {{}, Stale(copy[s])} :
       /\ grants' = Pruned(copy[s], gone)
       /\ archive' = archive \cup {<<j, copy[s][j].mint>> : j \in gone}
  /\ UNCHANGED <<age, mints, typed>>
  /\ Unlock(s)

\* A session is killed: its lock goes with it, and nothing is half written.
Kill(s) ==
  /\ pc[s] # "idle"
  /\ Rest(s)
  /\ copy' = [copy EXCEPT ![s] = Unread]
  /\ UNCHANGED <<files, ops, github, history>>

-----------------------------------------------------------------------------
\* A grant expires, and is long expired.
Expire(k) ==
  /\ Present(grants[k])
  /\ \/ age[k] = "live" /\ age' = [age EXCEPT ![k] = "expired"]
     \/ age[k] = "expired" /\ age' = [age EXCEPT ![k] = "stale"]
  /\ UNCHANGED <<grants, mints, typed, archive, process, github, history>>

Push(p) ==
  /\ merged[p] = 0 /\ head[p] < MaxHeads
  /\ head' = [head EXCEPT ![p] = @ + 1]
  /\ UNCHANGED <<files, process, merged, history>>

Next ==
  \/ \E s \in Sessions :
       \/ \E c \in Commands : Decide(s, c)
       \/ Judge(s) \/ Answer(s) \/ Merge(s) \/ MergeFails(s) \/ Match(s) \/ Confirm(s)
       \/ \E k \in Keys : Ask(s, "batch", k)
  \/ \E t \in Terminals, k \in Keys :
       \/ \E op \in {"topup", "authorize", "revoke"} : Ask(t, op, k)
       \/ \E p \in Prs : AskLink(t, k, p)
  \/ \E a \in Actors :
       Lock(a) \/ GiveUp(a) \/ Mint(a) \/ Extend(a) \/ Change(a) \/ Prune(a) \/ Kill(a)
  \/ \E k \in Keys : Expire(k)
  \/ \E p \in Prs : Push(p)

Spec == Init /\ [][Next]_vars

-----------------------------------------------------------------------------
(***************************************************************************)
(* What must hold.                                                         *)
(***************************************************************************)

\* decide: what was merged without a prompt is a head whose CI a gate read as green,
\* whatever was pushed since it was read.
MergedAsJudged == auto \subseteq judged

\* batch_consume.py: a target is spent only on a merge that happened.
SpentOnMerge ==
  \A k \in Keys : \A n \in Places(grants[k]) :
    grants[k].slots[n].is = "spent" => merged[grants[k].slots[n].by.pr] # 0

\* "Concurrent consumption could lose a flag and make a one-shot grant reusable": of a
\* grant nobody minted anew, no target is freed, unlinked or dropped; and it goes only
\* when it is long expired and the archive holds it.
GrantsStand ==
  [][\A k \in Keys :
       LET e == grants[k]  f == grants'[k]
       IN  \/ ~Present(e)
           \/ f.mint > e.mint
           \/ /\ ~Present(f)
              /\ age[k] = "stale" /\ <<k, e.mint>> \in archive'
           \/ /\ f.mint = e.mint
              /\ \A n \in Places(e) :
                   /\ n \in Places(f)
                   /\ e.slots[n].is # "free" => f.slots[n].is = e.slots[n].is
                   /\ e.slots[n].pr # NoPr => f.slots[n].pr = e.slots[n].pr]_vars

\* "Two near-simultaneous mints replace each other, dropping the first session": every
\* session whose BATCH a scoped grant goes back to is held to it.
SessionsKept == \A k \in Keys : Present(grants[k]) /\ grants[k].owners # {} => typed[k] \subseteq grants[k].owners

\* link_pr, "at most one merge target per distinct pair": a pull request that can still
\* be merged on its link has no other target of that key, so no second merge either.
LinkedOnce ==
  \A k \in Keys : \A n \in Free(grants[k]) : \A m \in Places(grants[k]) \ {n} :
    grants[k].slots[n].pr # NoPr => grants[k].slots[m].pr # grants[k].slots[n].pr

\* "`consumed` means the merge HAPPENED": a linked target that is spent, its pull
\* request is merged.
ConsumedMeansMerged ==
  \A k \in Keys : \A n \in Places(grants[k]) :
    LET slot == grants[k].slots[n]
    IN  slot.is = "spent" /\ slot.pr # NoPr => merged[slot.pr] # 0

-----------------------------------------------------------------------------
(***************************************************************************)
(* Why it holds: the parts of the inductive invariant.                     *)
(***************************************************************************)

\* One process is under the lock, and what it loaded is still what the file holds.
LockFacts ==
  /\ \A s, t \in Actors : pc[s] = "locked" /\ pc[t] = "locked" => s = t
  /\ \A s \in Actors : pc[s] = "locked" => copy[s] = grants

\* What a process knows between its steps, whoever moves.
Knows(s) ==
  /\ job[s].op = "batch" => s \in Sessions
  /\ job[s].op \notin {"none", "merge", "prune"} \/ pc[s] = "confirm" => job[s].key \in Keys
  /\ job[s].op \in {"link", "merge", "consume"} => job[s].cmd.pr \in Prs
  /\ pc[s] \in {"judge", "ask", "allowed", "approved", "ran", "confirm"} => job[s].op = "merge"
  /\ job[s].op = "consume" => merged[job[s].cmd.pr] # 0
  /\ pc[s] = "allowed" => <<job[s].cmd.pr, job[s].cmd.pin>> \in judged

JobFacts ==
  /\ \A s \in Actors : Knows(s)
  /\ \A k \in Keys : grants[k].mint <= mints

GrantInv ==
  LockFacts /\ JobFacts /\ MergedAsJudged /\ SpentOnMerge /\ SessionsKept /\ LinkedOnce
=============================================================================
