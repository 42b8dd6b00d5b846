------------------------------- MODULE BeltPosts -------------------------------
(***************************************************************************)
(* A lane's belt (watch_lane_posts.py) and the comments it announces.      *)
(* comment_watch_cycle reads each watched issue from a watermark, primes a *)
(* new belt or records each post as pending, and deliver_comment_lines     *)
(* prints the lines, promotes what is pending and only then advances the   *)
(* watermarks of the issues that had posts (belt_mechanics.py: Watermarks, *)
(* query_since, SeenSet).  A belt lives for half an hour and is armed      *)
(* again; it may be killed between any two steps.  One belt at a time: its *)
(* flock.  A post stands for a comment this lane is owed.                  *)
(***************************************************************************)
EXTENDS Naturals, Sequences, FiniteSets

CONSTANTS Targets,   \* the issues this belt watches
          MaxPosts,  \* bound on the posts
          MaxClock,  \* bound on time
          MaxKills,  \* bound on the belts killed
          Overlap,   \* _OVERLAP_MINUTES
          Horizon,   \* _WATERMARK_STALE_HOURS
          MaxSkew,   \* how far this machine's clock may be ahead of GitHub's
          Page       \* posts one answer of GitHub holds (30 comments)

ASSUME BeltPostsAssumption ==
  /\ MaxPosts \in Nat /\ MaxClock \in Nat \ {0} /\ MaxKills \in Nat
  /\ Overlap \in Nat /\ Horizon \in Nat /\ Overlap <= Horizon
  /\ MaxSkew \in Nat /\ Page \in Nat \ {0}

Posts == 1..MaxPosts    \* comment ids, in the order of the thread
Times == 0..MaxClock

VARIABLES
  clock,   \* this machine's clock
  thread,  \* the posts made: [on, stamp], the stamp being GitHub's
  mark,    \* [Targets -> Times], the watermark files (0: absent or empty)
  seen,    \* [Posts -> ...], the seen-set file
  belt,    \* the running belt
  told,    \* [Posts -> Nat], history: lines printed about a post
  named,   \* history: posts printed as suppressed by priming
  due,     \* history: posts made once their issue had been read
  old,     \* history: posts older than the horizon, which the belt said it skips
  missed,  \* history: posts stamped early, or beyond the page
  cut,     \* [Posts -> Nat], history: kills between its line and its record
  kills, tornMark   \* history: kills, and whether one emptied a watermark

beltFiles == <<mark, seen>>
beltHistory == <<told, named, due, old, missed, cut, kills, tornMark>>
beltVars == <<clock, thread, beltFiles, belt, beltHistory>>

-----------------------------------------------------------------------------
\* What a belt knows: `fresh` (priming is allowed), the targets it primed, and of this
\* cycle its time, the targets to read, the posts fetched, the lines to print, its own
\* pending posts and the watermarks to advance after delivery.
NoBelt == [at |-> "off", fresh |-> FALSE, primed |-> {}, now |-> 0, todo |-> {}, on |-> {},
           priming |-> FALSE, batch |-> {}, lines |-> {}, names |-> {}, own |-> {}, later |-> {}]

BeltTypeOK ==
  /\ clock \in Times \ {0}
  /\ thread \in Seq([on: Targets, stamp: Times]) /\ Len(thread) <= MaxPosts
  /\ mark \in [Targets -> Times]
  /\ seen \in [Posts -> {"new", "pending", "emitted", "primed"}]
  /\ belt \in [at: {"off", "cycle", "classify", "open", "fill", "deliver", "promote", "advance"},
               fresh: BOOLEAN, primed: SUBSET Targets, now: Times, todo: SUBSET Targets,
               on: SUBSET Targets, priming: BOOLEAN, batch: SUBSET Posts, lines: SUBSET Posts,
               names: SUBSET Posts, own: SUBSET Posts, later: SUBSET Targets]
  /\ Cardinality(belt.on) <= 1
  /\ told \in [Posts -> Nat] /\ cut \in [Posts -> Nat]
  /\ named \subseteq Posts /\ due \subseteq Posts /\ old \subseteq Posts /\ missed \subseteq Posts
  /\ kills \in Nat /\ tornMark \in BOOLEAN

BeltInit ==
  /\ clock = 1 /\ thread = <<>>
  /\ mark = [t \in Targets |-> 0]
  /\ seen = [p \in Posts |-> "new"]
  /\ belt = NoBelt
  /\ told = [p \in Posts |-> 0] /\ cut = [p \in Posts |-> 0]
  /\ named = {} /\ due = {} /\ old = {} /\ missed = {}
  /\ kills = 0 /\ tornMark = FALSE

Settled(p) == seen[p] \in {"emitted", "primed"}
On(t) == {p \in DOMAIN thread : thread[p].on = t}

-----------------------------------------------------------------------------
BeltTick ==
  /\ clock < MaxClock /\ clock' = clock + 1
  /\ UNCHANGED <<thread, beltFiles, belt, beltHistory>>

\* Another lane posts; GitHub stamps it by its own clock.
LanePosts(t, skew) ==
  LET p == Len(thread) + 1 IN
  /\ p \in Posts /\ skew < clock
  /\ thread' = Append(thread, [on |-> t, stamp |-> clock - skew])
  /\ due' = IF mark[t] # 0 THEN due \cup {p} ELSE due
  /\ missed' = IF skew > 0 THEN missed \cup {p} ELSE missed
  /\ UNCHANGED <<clock, beltFiles, belt, told, named, old, cut, kills, tornMark>>

-----------------------------------------------------------------------------
\* _main: only an empty seen-set allows priming.
Arm ==
  /\ belt.at = "off"
  /\ belt' = [NoBelt EXCEPT !.at = "cycle", !.fresh = \A p \in Posts : seen[p] = "new"]
  /\ UNCHANGED <<clock, thread, beltFiles, beltHistory>>

\* A poll begins: `now` is read before anything is fetched.
StartCycle ==
  /\ belt.at = "cycle" /\ belt.now = 0
  /\ belt' = [belt EXCEPT !.now = clock, !.todo = Targets]
  /\ UNCHANGED <<clock, thread, beltFiles, beltHistory>>

\* The horizon first, then query_since.
Before(t, now) == IF mark[t] # 0 /\ mark[t] + Horizon < now THEN now - Horizon ELSE mark[t]
Later(a, b) == IF a < b THEN b ELSE a

QuerySince(m, now) ==
  LET floor == IF now > Overlap THEN now - Overlap ELSE 0
  IN  IF m = 0 \/ floor < m THEN floor ELSE m

Window(t, now) == {p \in On(t) : thread[p].stamp >= QuerySince(Before(t, now), now)}
FirstPage(W) == {p \in W : Cardinality({q \in W : q < p}) < Page}

\* One page of the issue, oldest first; what is settled is skipped at once.
Fetch(t) ==
  /\ belt.at = "cycle" /\ t \in belt.todo
  /\ LET window == Window(t, belt.now)
         page == FirstPage(window)
     IN  /\ belt' = [belt EXCEPT !.at = "classify", !.on = {t}, !.todo = @ \ {t},
                       !.priming = belt.fresh /\ mark[t] = 0 /\ t \notin belt.primed,
                       !.batch = {p \in page : ~Settled(p)}]
         /\ missed' = missed \cup (window \ page)
         /\ old' = IF mark[t] + Horizon < belt.now THEN old \cup (On(t) \ window) ELSE old
  /\ UNCHANGED <<clock, thread, beltFiles, told, named, due, cut, kills, tornMark>>

\* A failure is not an empty answer: the watermark stays.
FetchFails(t) ==
  /\ belt.at = "cycle" /\ t \in belt.todo
  /\ belt' = [belt EXCEPT !.todo = @ \ {t}]
  /\ UNCHANGED <<clock, thread, beltFiles, beltHistory>>

\* The next comment of the page: primed, or recorded as pending and its line kept.
Classify(p) ==
  /\ belt.at = "classify" /\ p \in belt.batch /\ \A q \in belt.batch : p <= q
  /\ seen' = [seen EXCEPT ![p] = IF belt.priming THEN "primed" ELSE "pending"]
  /\ belt' = [belt EXCEPT !.batch = @ \ {p},
                !.names = IF belt.priming THEN @ \cup {p} ELSE @,
                !.lines = IF belt.priming THEN @ ELSE @ \cup {p},
                !.own = IF belt.priming THEN @ ELSE @ \cup {p}]
  /\ UNCHANGED <<clock, thread, mark, beltHistory>>

\* A mutant: every issue advances at once.
TargetDoneAtOnce ==
  /\ belt.at = "classify" /\ belt.batch = {}
  /\ belt' = [belt EXCEPT !.primed = IF belt.priming THEN @ \cup belt.on ELSE @,
                 !.priming = FALSE, !.at = "open"]
  /\ UNCHANGED <<clock, thread, beltFiles, beltHistory>>

\* An issue that emitted waits for the delivery; a quiet one advances now.
TargetDone ==
  /\ belt.at = "classify" /\ belt.batch = {}
  /\ \E t \in belt.on :
       LET emitted == \E p \in belt.lines : thread[p].on = t
       IN  belt' = [belt EXCEPT !.primed = IF belt.priming THEN @ \cup {t} ELSE @,
                      !.priming = FALSE,
                      !.at = IF emitted THEN "cycle" ELSE "open",
                      !.on = IF emitted THEN {} ELSE @,
                      !.later = IF emitted THEN @ \cup {t} ELSE @]
  /\ UNCHANGED <<clock, thread, beltFiles, beltHistory>>

\* Watermarks.advance: write_text opens, which empties the file, and fills it.
OpenMark ==
  /\ belt.at = "open"
  /\ mark' = [t \in Targets |-> IF t \in belt.on THEN 0 ELSE mark[t]]
  /\ belt' = [belt EXCEPT !.at = "fill"]
  /\ UNCHANGED <<clock, thread, seen, beltHistory>>

FillMark ==
  /\ belt.at = "fill"
  /\ mark' = [t \in Targets |-> IF t \in belt.on THEN belt.now ELSE mark[t]]
  /\ belt' = [belt EXCEPT !.on = {},
                !.at = IF belt.on \subseteq belt.later THEN "advance" ELSE "cycle",
                !.later = @ \ belt.on]
  /\ UNCHANGED <<clock, thread, seen, beltHistory>>

-----------------------------------------------------------------------------
\* deliver_comment_lines: every line, then promote, then advance.
Deliver ==
  /\ belt.at = "cycle" /\ belt.now # 0 /\ belt.todo = {}
  /\ belt' = [belt EXCEPT !.at = "deliver"]
  /\ UNCHANGED <<clock, thread, beltFiles, beltHistory>>

PrintLine(p) ==
  /\ belt.at = "deliver" /\ p \in belt.lines
  /\ told' = [told EXCEPT ![p] = @ + 1]
  /\ belt' = [belt EXCEPT !.lines = @ \ {p}]
  /\ UNCHANGED <<clock, thread, beltFiles, named, due, old, missed, cut, kills, tornMark>>

\* One line names what was suppressed on an issue.
PrintPrimed(t) ==
  /\ belt.at = "deliver" /\ belt.names \cap On(t) # {}
  /\ named' = named \cup (belt.names \cap On(t))
  /\ belt' = [belt EXCEPT !.names = @ \ On(t)]
  /\ UNCHANGED <<clock, thread, beltFiles, told, due, old, missed, cut, kills, tornMark>>

Flushed ==
  /\ belt.at = "deliver" /\ belt.lines = {} /\ belt.names = {}
  /\ belt' = [belt EXCEPT !.at = "promote"]
  /\ UNCHANGED <<clock, thread, beltFiles, beltHistory>>

\* promote_pending: this belt's own pending posts, one line of the file each.
Promote(p) ==
  /\ belt.at = "promote" /\ p \in belt.own
  /\ seen' = [seen EXCEPT ![p] = "emitted"]
  /\ belt' = [belt EXCEPT !.own = @ \ {p}]
  /\ UNCHANGED <<clock, thread, mark, beltHistory>>

AdvanceNext ==
  \/ /\ belt.at = "promote" /\ belt.own = {}
     /\ belt' = [belt EXCEPT !.at = "advance"]
  \/ /\ belt.at = "advance"
     /\ \E t \in belt.later : belt' = [belt EXCEPT !.at = "open", !.on = {t}]

AdvanceLater == AdvanceNext /\ UNCHANGED <<clock, thread, beltFiles, beltHistory>>

CycleEnds ==
  /\ belt.at = "advance" /\ belt.later = {}
  /\ belt' = [NoBelt EXCEPT !.at = "cycle", !.fresh = belt.fresh, !.primed = belt.primed]
  /\ UNCHANGED <<clock, thread, beltFiles, beltHistory>>

\* Its window is over, between two polls.
WindowEnds ==
  /\ belt.at = "cycle" /\ belt.now = 0
  /\ belt' = NoBelt
  /\ UNCHANGED <<clock, thread, beltFiles, beltHistory>>

KillBelt ==
  /\ belt.at # "off" /\ kills < MaxKills
  /\ belt' = NoBelt
  /\ kills' = kills + 1
  /\ tornMark' = (tornMark \/ belt.at = "fill")
  /\ cut' = [p \in Posts |-> IF p \in belt.own \ belt.lines /\ belt.at \in {"deliver", "promote"}
                             THEN cut[p] + 1 ELSE cut[p]]
  /\ UNCHANGED <<clock, thread, beltFiles, told, named, due, old, missed>>

-----------------------------------------------------------------------------
BeltNext ==
  \/ BeltTick
  \/ \E t \in Targets, skew \in 0..MaxSkew : LanePosts(t, skew)
  \/ Arm \/ StartCycle \/ TargetDone \/ OpenMark \/ FillMark \/ Deliver \/ Flushed
  \/ AdvanceLater \/ CycleEnds \/ WindowEnds \/ KillBelt
  \/ \E t \in Targets : Fetch(t) \/ FetchFails(t) \/ PrintPrimed(t)
  \/ \E p \in Posts : Classify(p) \/ PrintLine(p) \/ Promote(p)

BeltSpec == BeltInit /\ [][BeltNext]_beltVars

-----------------------------------------------------------------------------
(***************************************************************************)
(* What must hold.                                                         *)
(***************************************************************************)

\* A post is printed, or the next query of its issue starts at it or before it.
InReach(p) ==
  \/ told[p] > 0
  \/ LET m == mark[thread[p].on]
     IN  ~Settled(p) /\ (m = 0 \/ thread[p].stamp >= QuerySince(m, clock))

\* deliver_comment_lines, "a process killed before this returns leaves the entries PENDING
\* and the watermark behind them": however often belts fail, are killed and armed again, a
\* post of an issue that was read before is announced or still to be read; it is announced
\* twice only if a kill fell between its line and its record; and "what priming suppressed
\* is named, not counted", if no kill falls before its line.
PostsDelivered ==
  /\ ~tornMark => \A p \in due \ (old \cup missed) : InReach(p)
  /\ \A p \in Posts : told[p] <= 1 + cut[p]
  /\ kills = 0 => \A p \in Posts : seen[p] = "primed" => p \in named \cup belt.names

\* "Overlap covers the seam a watermark structurally cannot", and Watermarks: no window is
\* "lost permanently and silently"; a page of thirty and a clock ahead of GitHub's included.
PostsReachLane == ~tornMark => \A p \in due \ old : InReach(p)
=============================================================================
