----------------------------- MODULE Unattended_proofs --------------------------
(***************************************************************************)
(* Proofs about a lane's belt: the posts it announces and the queue it     *)
(* offers, for any issues, posts, sessions and kills; and, at the end,     *)
(* about the belt, the te-runner driver and its archive together.          *)
(***************************************************************************)
EXTENDS MCUnattended, TeRunner_proofs, TeArchive_proofs

-----------------------------------------------------------------------------
(***************************************************************************)
(* BeltPosts.  The watermark of an issue moves to the time its poll began, *)
(* so every post from before that must have been printed by then; a kill   *)
(* before it moves leaves the post within the next query.                  *)
(***************************************************************************)

Belts ==
  [at: {"off", "cycle", "classify", "open", "fill", "deliver", "promote", "advance"},
   fresh: BOOLEAN, primed: SUBSET Targets, now: Times, todo: SUBSET Targets,
   on: SUBSET Targets, priming: BOOLEAN, batch: SUBSET Posts, lines: SUBSET Posts,
   names: SUBSET Posts, own: SUBSET Posts, later: SUBSET Targets]

LEMMA BeltTypes ==
  BeltTypeOK <=>
    /\ clock \in Times \ {0}
    /\ thread \in Seq([on: Targets, stamp: Times]) /\ Len(thread) <= MaxPosts
    /\ mark \in [Targets -> Times]
    /\ seen \in [Posts -> {"new", "pending", "emitted", "primed"}]
    /\ belt \in Belts /\ Cardinality(belt.on) <= 1
    /\ told \in [Posts -> Nat] /\ cut \in [Posts -> Nat]
    /\ named \subseteq Posts /\ due \subseteq Posts /\ old \subseteq Posts /\ missed \subseteq Posts
    /\ kills \in Nat /\ tornMark \in BOOLEAN
  BY DEF BeltTypeOK, Belts

LEMMA NoBeltTyped == NoBelt \in Belts /\ Cardinality(NoBelt.on) <= 1
<1>1. NoBelt \in Belts
  BY BeltPostsAssumption DEF NoBelt, Belts, Times
<1>2. Cardinality({}) = 0
  BY FS_EmptySet
<1> QED
  BY <1>1, <1>2 DEF NoBelt

LEMMA BeltTypeInit == BeltInit => BeltTypeOK
<1> SUFFICES ASSUME BeltInit PROVE BeltTypeOK
  OBVIOUS
<1>1. clock \in Times \ {0} /\ mark \in [Targets -> Times]
  BY BeltPostsAssumption DEF BeltInit, Times
<1>2. thread \in Seq([on: Targets, stamp: Times]) /\ Len(thread) <= MaxPosts
  BY BeltPostsAssumption DEF BeltInit
<1> QED
  BY <1>1, <1>2, NoBeltTyped, BeltTypes DEF BeltInit

LEMMA SmallOn == \A t \in Targets : Cardinality({t}) <= 1
<1> SUFFICES ASSUME NEW t \in Targets PROVE Cardinality({t}) <= 1
  OBVIOUS
<1>1. Cardinality({t}) = 1
  BY FS_Singleton
<1> QED
  BY <1>1

LEMMA BeltTypeStep == BeltTypeOK /\ [BeltNext]_beltVars => BeltTypeOK'
<1> SUFFICES ASSUME BeltTypeOK, [BeltNext]_beltVars PROVE BeltTypeOK'
  OBVIOUS
<1> USE BeltPostsAssumption
<1>1. /\ clock \in Times \ {0}
      /\ thread \in Seq([on: Targets, stamp: Times]) /\ Len(thread) <= MaxPosts
      /\ mark \in [Targets -> Times]
      /\ seen \in [Posts -> {"new", "pending", "emitted", "primed"}]
      /\ belt \in Belts /\ Cardinality(belt.on) <= 1
      /\ told \in [Posts -> Nat] /\ cut \in [Posts -> Nat]
      /\ named \subseteq Posts /\ due \subseteq Posts /\ old \subseteq Posts /\ missed \subseteq Posts
      /\ kills \in Nat /\ tornMark \in BOOLEAN
  BY BeltTypes
<1>2. SUFFICES
      /\ clock' \in Times \ {0}
      /\ thread' \in Seq([on: Targets, stamp: Times]) /\ Len(thread') <= MaxPosts
      /\ mark' \in [Targets -> Times]
      /\ seen' \in [Posts -> {"new", "pending", "emitted", "primed"}]
      /\ belt' \in Belts /\ Cardinality(belt'.on) <= 1
      /\ told' \in [Posts -> Nat] /\ cut' \in [Posts -> Nat]
      /\ named' \subseteq Posts /\ due' \subseteq Posts /\ old' \subseteq Posts /\ missed' \subseteq Posts
      /\ kills' \in Nat /\ tornMark' \in BOOLEAN
  BY DEF BeltTypeOK, Belts
<1>3. \A p \in DOMAIN thread : p \in Posts
  BY <1>1 DEF Posts
<1>4. Cardinality({}) <= 1 /\ \A t \in Targets : Cardinality({t}) <= 1
  BY FS_EmptySet, SmallOn
<1> DEFINE BeltKept == /\ belt' \in Belts /\ Cardinality(belt'.on) <= 1
<1>5. CASE BeltTick
  BY <1>1, <1>5 DEF BeltTick, beltFiles, beltHistory, Times
<1>6. ASSUME NEW t \in Targets, NEW skew \in 0..MaxSkew, LanePosts(t, skew)
      PROVE  /\ thread' \in Seq([on: Targets, stamp: Times]) /\ Len(thread') <= MaxPosts
             /\ due' \subseteq Posts /\ missed' \subseteq Posts
  <2>1. Len(thread) + 1 \in Posts /\ clock - skew \in Times
    BY <1>1, <1>6 DEF LanePosts, Times
  <2>2. thread' = Append(thread, [on |-> t, stamp |-> clock - skew])
    BY <1>6 DEF LanePosts
  <2>3. [on |-> t, stamp |-> clock - skew] \in [on: Targets, stamp: Times]
    BY <2>1
  <2>4. thread' \in Seq([on: Targets, stamp: Times]) /\ Len(thread') = Len(thread) + 1
    BY <1>1, <2>2, <2>3
  <2> QED
    <3>1. Len(thread') <= MaxPosts
      BY <2>1, <2>4 DEF Posts
    <3>2. due' \subseteq Posts /\ missed' \subseteq Posts
      BY <1>1, <1>6, <2>1 DEF LanePosts
    <3> QED
      BY <2>4, <3>1, <3>2
<1>7. CASE Arm
  BY <1>1, <1>4, <1>7, NoBeltTyped DEF Arm, beltFiles, beltHistory, Belts, NoBelt
<1>8. CASE StartCycle
  BY <1>1, <1>8 DEF StartCycle, beltFiles, beltHistory, Belts
<1>9. ASSUME NEW t \in Targets, Fetch(t)
      PROVE  BeltKept /\ missed' \subseteq Posts /\ old' \subseteq Posts
  <2> DEFINE window == Window(t, belt.now)
             page == FirstPage(window)
  <2>1. On(t) \subseteq Posts /\ window \subseteq On(t) /\ page \subseteq window
    BY <1>3 DEF On, Window, FirstPage
  <2>2. belt' = [belt EXCEPT !.at = "classify", !.on = {t}, !.todo = belt.todo \ {t},
                    !.priming = belt.fresh /\ mark[t] = 0 /\ t \notin belt.primed,
                    !.batch = {p \in page : ~Settled(p)}]
    BY <1>9 DEF Fetch
  <2>3. {p \in page : ~Settled(p)} \subseteq Posts
    BY <2>1
  <2>4. (belt.fresh /\ mark[t] = 0 /\ t \notin belt.primed) \in BOOLEAN
    OBVIOUS
  <2>5. missed' = missed \cup (window \ page) /\ old' \subseteq old \cup (On(t) \ window)
    BY <1>9 DEF Fetch
  <2> HIDE DEF window, page
  <2>6. belt' \in Belts /\ belt'.on = {t}
    BY <1>1, <2>2, <2>3, <2>4 DEF Belts
  <2> QED
    BY <1>1, <1>4, <2>1, <2>5, <2>6
<1>10. ASSUME NEW t \in Targets, FetchFails(t)
       PROVE  BeltKept
  BY <1>1, <1>10 DEF FetchFails, Belts
<1>11. ASSUME NEW p \in Posts, Classify(p)
       PROVE  BeltKept /\ seen' \in [Posts -> {"new", "pending", "emitted", "primed"}]
  <2>1. seen' \in [Posts -> {"new", "pending", "emitted", "primed"}]
    BY <1>1, <1>11 DEF Classify
  <2>2. belt' = [belt EXCEPT !.batch = belt.batch \ {p},
                !.names = IF belt.priming THEN belt.names \cup {p} ELSE belt.names,
                !.lines = IF belt.priming THEN belt.lines ELSE belt.lines \cup {p},
                !.own = IF belt.priming THEN belt.own ELSE belt.own \cup {p}]
    BY <1>11 DEF Classify
  <2>3. belt' \in Belts /\ belt'.on = belt.on
    BY <1>1, <2>2 DEF Belts
  <2> QED
    BY <1>1, <2>1, <2>3
<1>12. ASSUME TargetDone PROVE BeltKept
  <2>1. PICK t \in belt.on :
       LET emitted == \E p \in belt.lines : thread[p].on = t
       IN  belt' = [belt EXCEPT !.primed = IF belt.priming THEN belt.primed \cup {t} ELSE belt.primed,
                      !.priming = FALSE,
                      !.at = IF emitted THEN "cycle" ELSE "open",
                      !.on = IF emitted THEN {} ELSE belt.on,
                      !.later = IF emitted THEN belt.later \cup {t} ELSE belt.later]
    BY <1>12 DEF TargetDone
  <2>2. t \in Targets
    BY <1>1 DEF Belts
  <2>3. belt' \in Belts /\ (belt'.on = {} \/ belt'.on = belt.on)
    BY <1>1, <2>1, <2>2 DEF Belts
  <2> QED
    BY <1>1, <1>4, <2>3
<1>13. CASE OpenMark
  <2>1. BeltKept
    BY <1>1, <1>13 DEF OpenMark, Belts
  <2>2. mark' \in [Targets -> Times]
    BY <1>1, <1>13 DEF OpenMark, Times
  <2> QED
    BY <1>1, <1>13, <2>1, <2>2 DEF OpenMark, beltHistory
<1>14. ASSUME FillMark
       PROVE  BeltKept /\ mark' \in [Targets -> Times]
  <2>1. belt' = [belt EXCEPT !.on = {},
                !.at = IF belt.on \subseteq belt.later THEN "advance" ELSE "cycle",
                !.later = belt.later \ belt.on]
    BY <1>14 DEF FillMark
  <2>2. belt' \in Belts /\ belt'.on = {}
    BY <1>1, <2>1 DEF Belts
  <2>3. mark' \in [Targets -> Times]
    BY <1>1, <1>14 DEF FillMark, Belts
  <2> QED
    BY <1>4, <2>2, <2>3
<1>15. CASE Deliver \/ Flushed \/ AdvanceLater
  <2>1. CASE Deliver
    BY <1>1, <2>1 DEF Deliver, beltFiles, beltHistory, Belts
  <2>2. CASE Flushed
    BY <1>1, <2>2 DEF Flushed, beltFiles, beltHistory, Belts
  <2>3. CASE AdvanceLater
    <3>1. BeltKept
      <4>1. CASE \E t \in belt.later : belt' = [belt EXCEPT !.at = "open", !.on = {t}]
        <5> PICK t \in belt.later : belt' = [belt EXCEPT !.at = "open", !.on = {t}]
          BY <4>1
        <5>1. t \in Targets
          BY <1>1 DEF Belts
        <5>2. belt' \in Belts /\ belt'.on = {t}
          BY <1>1, <5>1 DEF Belts
        <5> QED
          BY <1>4, <5>1, <5>2
      <4>2. CASE belt' = [belt EXCEPT !.at = "advance"]
        BY <1>1, <4>2 DEF Belts
      <4> QED
        BY <2>3, <4>1, <4>2 DEF AdvanceLater, AdvanceNext
    <3> QED
      BY <1>1, <2>3, <3>1 DEF AdvanceLater, beltFiles, beltHistory
  <2> QED
    BY <1>15, <2>1, <2>2, <2>3
<1>16. ASSUME NEW p \in Posts, PrintLine(p) PROVE BeltKept /\ told' \in [Posts -> Nat]
  <2>1. belt' = [belt EXCEPT !.lines = belt.lines \ {p}] /\ told' = [told EXCEPT ![p] = told[p] + 1]
    BY <1>16 DEF PrintLine
  <2>2. belt' \in Belts /\ belt'.on = belt.on
    BY <1>1, <2>1 DEF Belts
  <2>3. told' \in [Posts -> Nat]
    BY <1>1, <2>1
  <2> QED
    BY <1>1, <2>2, <2>3
<1>17. ASSUME NEW t \in Targets, PrintPrimed(t) PROVE BeltKept /\ named' \subseteq Posts
  BY <1>1, <1>17 DEF PrintPrimed, Belts
<1>18. ASSUME NEW p \in Posts, Promote(p)
       PROVE  BeltKept /\ seen' \in [Posts -> {"new", "pending", "emitted", "primed"}]
  BY <1>1, <1>18 DEF Promote, Belts
<1>19. CASE CycleEnds \/ WindowEnds
  <2>1. CASE CycleEnds
    BY <1>1, <1>4, <2>1, NoBeltTyped DEF CycleEnds, beltFiles, beltHistory, Belts, NoBelt
  <2>2. CASE WindowEnds
    BY <1>1, <2>2, NoBeltTyped DEF WindowEnds, beltFiles, beltHistory
  <2> QED
    BY <1>19, <2>1, <2>2
<1>20. CASE KillBelt
  BY <1>1, <1>20, NoBeltTyped DEF KillBelt, beltFiles
<1>21. CASE UNCHANGED beltVars
  BY <1>1, <1>21 DEF beltVars, beltFiles, beltHistory
<1>22. CASE \E t \in Targets, skew \in 0..MaxSkew : LanePosts(t, skew)
  BY <1>1, <1>6, <1>22 DEF LanePosts, beltFiles
<1>23. CASE \E t \in Targets : Fetch(t) \/ FetchFails(t) \/ PrintPrimed(t)
  <2> PICK t \in Targets : Fetch(t) \/ FetchFails(t) \/ PrintPrimed(t)
    BY <1>23
  <2>1. CASE Fetch(t)
    BY <1>1, <1>9, <2>1 DEF Fetch, beltFiles
  <2>2. CASE FetchFails(t)
    BY <1>1, <1>10, <2>2 DEF FetchFails, beltFiles, beltHistory
  <2>3. CASE PrintPrimed(t)
    BY <1>1, <1>17, <2>3 DEF PrintPrimed, beltFiles
  <2> QED
    BY <2>1, <2>2, <2>3
<1>24. CASE \E p \in Posts : Classify(p) \/ PrintLine(p) \/ Promote(p)
  <2> PICK p \in Posts : Classify(p) \/ PrintLine(p) \/ Promote(p)
    BY <1>24
  <2>1. CASE Classify(p)
    BY <1>1, <1>11, <2>1 DEF Classify, beltHistory
  <2>2. CASE PrintLine(p)
    BY <1>1, <1>16, <2>2 DEF PrintLine, beltFiles
  <2>3. CASE Promote(p)
    BY <1>1, <1>18, <2>3 DEF Promote, beltHistory
  <2> QED
    BY <2>1, <2>2, <2>3
<1>25. CASE TargetDone
  BY <1>1, <1>12, <1>25 DEF TargetDone, beltFiles, beltHistory
<1>26. CASE FillMark
  BY <1>1, <1>14, <1>26 DEF FillMark, beltHistory
<1> QED
  BY <1>5, <1>7, <1>8, <1>13, <1>15, <1>19, <1>20, <1>21, <1>22, <1>23, <1>24, <1>25, <1>26
     DEF BeltNext

-----------------------------------------------------------------------------
\* Where a belt is in its cycle, and what it then has in hand.
Phases ==
  /\ belt.at \in {"classify", "open", "fill"} =>
       /\ \E t \in Targets : belt.on = {t}
       /\ belt.on \cap belt.todo = {}
  /\ belt.at \notin {"classify", "open", "fill"} => belt.on = {}
  /\ belt.at = "off" => belt.now = 0
  /\ belt.at # "classify" => belt.batch = {}
  /\ belt.at = "classify" => belt.on \cap belt.later = {}
  /\ belt.now = 0 => /\ belt.at \in {"off", "cycle"} /\ belt.todo = {} /\ belt.lines = {}
                     /\ belt.names = {} /\ belt.own = {} /\ belt.later = {}
  /\ belt.later \cap belt.todo = {}
  /\ belt.lines \subseteq belt.own
  /\ belt.at \notin {"deliver", "promote"} => belt.own = belt.lines
  /\ belt.at \in {"promote", "advance"} => belt.lines = {} /\ belt.names = {}
  /\ belt.at \in {"open", "fill"} /\ belt.on \subseteq belt.later => belt.lines = {} /\ belt.names = {}

\* A belt handles what is in the thread, and no time is ahead of the clock.
Made ==
  /\ belt.batch \cup belt.lines \cup belt.own \cup due \subseteq DOMAIN thread
  /\ \A p \in Posts \ DOMAIN thread : seen[p] = "new"
  /\ \A t \in Targets : mark[t] <= clock
  /\ belt.now <= clock

\* A line still to be printed, or still to be read again, was never recorded.
Counted ==
  \A p \in Posts :
    /\ told[p] <= 1 + cut[p]
    /\ p \in belt.lines => told[p] <= cut[p]
    /\ ~Settled(p) /\ p \notin belt.own => told[p] <= cut[p]
    /\ p \in belt.batch => ~Settled(p)
    /\ seen[p] = "emitted" => told[p] > 0
    /\ p \in belt.own \ belt.lines => told[p] > 0

Suppressed == kills = 0 => \A p \in Posts : seen[p] = "primed" => p \in named \cup belt.names

\* An issue once read keeps a watermark, so nothing posted on it later is primed.
Followed ==
  ~tornMark => \A p \in due :
    /\ mark[thread[p].on] # 0 \/ (belt.at = "fill" /\ thread[p].on \in belt.on)
    /\ seen[p] # "primed"
    /\ belt.priming => p \notin belt.batch

Behind == due \ (old \cup missed)

\* The watermark is never past a post that was not printed.
Reached ==
  ~tornMark => \A p \in Behind :
    told[p] > 0 \/ mark[thread[p].on] = 0 \/ thread[p].stamp >= mark[thread[p].on]

\* What the belt has read of an issue it will print before the watermark moves to `now`.
Caught ==
  ~tornMark => \A p \in Behind :
    /\ thread[p].on \in belt.on \cup belt.later =>
         told[p] > 0 \/ p \in belt.batch \cup belt.lines \/ thread[p].stamp >= belt.now
    /\ belt.at \in {"open", "fill"} /\ thread[p].on \in belt.on =>
         told[p] > 0 \/ thread[p].stamp >= belt.now

BeltInv == Phases /\ Made /\ Counted /\ Suppressed /\ Followed /\ Reached /\ Caught

-----------------------------------------------------------------------------
LEMMA ThreadTyped ==
  ASSUME BeltTypeOK
  PROVE  /\ DOMAIN thread \subseteq Posts /\ Len(thread) \in Nat /\ DOMAIN thread = 1..Len(thread)
         /\ \A p \in DOMAIN thread : thread[p].on \in Targets /\ thread[p].stamp \in Nat
         /\ \A t \in Targets : mark[t] \in Nat
         /\ clock \in Nat /\ clock # 0 /\ belt.now \in Nat /\ belt \in Belts
         /\ \A p \in Posts : told[p] \in Nat /\ cut[p] \in Nat
<1> USE BeltPostsAssumption
<1>1. thread \in Seq([on: Targets, stamp: Times]) /\ Len(thread) <= MaxPosts
  BY DEF BeltTypeOK
<1>2. /\ DOMAIN thread = 1..Len(thread) /\ Len(thread) \in Nat
      /\ \A p \in DOMAIN thread : thread[p] \in [on: Targets, stamp: Times]
  <2> DEFINE R == [on: Targets, stamp: Times]
  <2>1. thread \in Seq(R)
    BY <1>1
  <2> HIDE DEF R
  <2>2. /\ DOMAIN thread = 1..Len(thread) /\ Len(thread) \in Nat
        /\ \A p \in 1..Len(thread) : thread[p] \in R
    BY <2>1
  <2> QED
    BY <2>2 DEF R
<1>3. DOMAIN thread \subseteq Posts
  BY <1>1, <1>2 DEF Posts
<1>4. \A p \in DOMAIN thread : thread[p].on \in Targets /\ thread[p].stamp \in Nat
  BY <1>2 DEF Times
<1> QED
  BY <1>2, <1>3, <1>4, BeltTypes DEF BeltTypeOK, Belts, Times

LEMMA BeltInvInit == BeltInit => BeltInv
<1> SUFFICES ASSUME BeltInit PROVE BeltInv
  OBVIOUS
<1> USE BeltPostsAssumption
<1>1. /\ belt = NoBelt /\ kills = 0 /\ due = {} /\ thread = << >> /\ clock = 1
      /\ \A p \in Posts : told[p] = 0 /\ cut[p] = 0 /\ seen[p] = "new"
      /\ \A t \in Targets : mark[t] = 0
  BY DEF BeltInit
<1>2. Phases /\ Made
  BY <1>1 DEF NoBelt, Phases, Made
<1>3. Counted /\ Suppressed
  BY <1>1 DEF NoBelt, Counted, Suppressed, Settled
<1>4. Followed /\ Reached /\ Caught
  BY <1>1 DEF Followed, Reached, Caught, Behind
<1> QED
  BY <1>2, <1>3, <1>4 DEF BeltInv

LEMMA TickKeepsBelt ==
  ASSUME BeltTypeOK, BeltInv, BeltTick
  PROVE  BeltInv'
<1>1. /\ UNCHANGED <<thread, mark, seen, belt, told, named, due, old, missed, cut, kills, tornMark>>
      /\ clock' = clock + 1 /\ clock \in Nat
      /\ \A t \in Targets : mark[t] \in Nat
      /\ belt.now \in Nat
  BY ThreadTyped DEF BeltTick, beltFiles, beltHistory
<1>2. Made'
  BY <1>1 DEF BeltInv, Made
<1> QED
  BY <1>1, <1>2 DEF BeltInv, Phases, Counted, Settled, Suppressed, Followed, Reached, Caught, Behind

\* A new post is stamped now, which no watermark is past.
LEMMA PostKeepsBelt ==
  ASSUME BeltTypeOK, BeltInv, NEW t \in Targets, NEW skew \in 0..MaxSkew, LanePosts(t, skew)
  PROVE  BeltInv'
<1> USE BeltPostsAssumption
<1> DEFINE p == Len(thread) + 1
<1>1. /\ UNCHANGED <<clock, mark, seen, belt, told, named, old, cut, kills, tornMark>>
      /\ p \in Posts /\ thread' = Append(thread, [on |-> t, stamp |-> clock - skew])
      /\ due' = IF mark[t] # 0 THEN due \cup {p} ELSE due
      /\ missed' = IF skew > 0 THEN missed \cup {p} ELSE missed
  BY DEF LanePosts, beltFiles
<1>2. thread \in Seq([on: Targets, stamp: Times])
  BY DEF BeltTypeOK
<1>3. /\ DOMAIN thread' = DOMAIN thread \cup {p} /\ p \notin DOMAIN thread
      /\ \A q \in DOMAIN thread : thread'[q] = thread[q]
      /\ thread'[p].on = t /\ thread'[p].stamp = clock - skew
  BY <1>1, <1>2
<1>4. /\ due \subseteq DOMAIN thread /\ belt.batch \subseteq DOMAIN thread
      /\ belt.lines \subseteq DOMAIN thread /\ belt.own \subseteq DOMAIN thread
      /\ seen[p] = "new"
  BY <1>1, <1>3 DEF BeltInv, Made
<1>5. mark[t] <= clock /\ belt.now <= clock /\ clock \in Nat
  BY ThreadTyped DEF BeltInv, Made
<1>6. \A q \in due' : q \in due \/ (q = p /\ mark[t] # 0)
  BY <1>1
<1>7. \A q \in Behind' : q \in Behind \/ (q = p /\ thread'[p].stamp = clock)
  BY <1>1, <1>3, <1>5 DEF Behind
<1> HIDE DEF p
<1>8. Phases' /\ Counted' /\ Suppressed'
  BY <1>1 DEF BeltInv, Phases, Counted, Settled, Suppressed
<1>9. Made'
  BY <1>1, <1>3, <1>4 DEF BeltInv, Made
<1>10. Followed'
  BY <1>1, <1>3, <1>4, <1>6 DEF BeltInv, Followed
<1>11. Behind \subseteq DOMAIN thread
  BY <1>4 DEF Behind
<1>12. Reached'
  BY <1>1, <1>3, <1>5, <1>7, <1>11 DEF BeltInv, Reached
<1>13. Caught'
  BY <1>1, <1>3, <1>5, <1>7, <1>11 DEF BeltInv, Caught
<1> QED
  BY <1>8, <1>9, <1>10, <1>12, <1>13 DEF BeltInv

\* A belt that has nothing in hand is armed, ends or begins another poll.
LEMMA RestKeepsBelt ==
  ASSUME BeltTypeOK, BeltInv, belt.at \notin {"deliver", "promote", "fill"}, belt.names = {},
         UNCHANGED <<clock, thread, mark, seen, told, named, due, old, missed, cut, kills, tornMark>>,
         belt'.at \in {"off", "cycle"}, belt'.now = 0, belt'.todo = {}, belt'.on = {},
         belt'.batch = {}, belt'.lines = {}, belt'.names = {}, belt'.own = {}, belt'.later = {}
  PROVE  BeltInv'
<1>1. Phases'
  BY DEF Phases
<1>2. Made'
  BY ThreadTyped DEF BeltInv, Made
<1>3. Counted'
  <2> SUFFICES ASSUME NEW p \in Posts
               PROVE  /\ told[p] <= 1 + cut[p] /\ (~Settled(p) => told[p] <= cut[p])
                      /\ seen[p] = "emitted" => told[p] > 0
    BY DEF Counted, Settled
  <2>1. belt.own = belt.lines
    BY DEF BeltInv, Phases
  <2> QED
    BY <2>1 DEF BeltInv, Counted
<1>4. Suppressed'
  BY DEF BeltInv, Suppressed
<1>5. Followed'
  BY DEF BeltInv, Followed
<1>6. Reached'
  BY DEF BeltInv, Reached, Behind
<1>7. Caught'
  BY DEF Caught
<1> QED
  BY <1>1, <1>2, <1>3, <1>4, <1>5, <1>6, <1>7 DEF BeltInv

LEMMA IdleKeepsBelt ==
  ASSUME BeltTypeOK, BeltInv, Arm \/ WindowEnds \/ CycleEnds
  PROVE  BeltInv'
<1>1. UNCHANGED <<clock, thread, mark, seen, told, named, due, old, missed, cut, kills, tornMark>>
  BY DEF Arm, WindowEnds, CycleEnds, beltFiles, beltHistory
<1>2. belt.at \notin {"deliver", "promote", "fill"} /\ belt.names = {}
  BY DEF Arm, WindowEnds, CycleEnds, BeltInv, Phases
<1> DEFINE Rest(b) == /\ b.at \in {"off", "cycle"} /\ b.now = 0 /\ b.todo = {} /\ b.on = {}
                      /\ b.batch = {} /\ b.lines = {} /\ b.names = {} /\ b.own = {}
                      /\ b.later = {}
<1>3. Rest(belt')
  <2>1. CASE Arm
    <3>1. belt' = [NoBelt EXCEPT !.at = "cycle", !.fresh = \A p \in Posts : seen[p] = "new"]
      BY <2>1 DEF Arm
    <3> QED
      BY <3>1 DEF NoBelt
  <2>2. CASE WindowEnds
    BY <2>2 DEF WindowEnds, NoBelt
  <2>3. CASE CycleEnds
    BY <2>3 DEF CycleEnds, NoBelt
  <2> QED
    BY <2>1, <2>2, <2>3
<1> QED
  BY <1>1, <1>2, <1>3, RestKeepsBelt

LEMMA StartKeepsBelt ==
  ASSUME BeltTypeOK, BeltInv, StartCycle
  PROVE  BeltInv'
<1>1. /\ UNCHANGED <<clock, thread, mark, seen, told, named, due, old, missed, cut, kills, tornMark>>
      /\ belt.at = "cycle" /\ belt.now = 0 /\ clock # 0
      /\ belt' = [belt EXCEPT !.now = clock, !.todo = Targets]
  BY ThreadTyped DEF StartCycle, beltFiles, beltHistory
<1>2. /\ belt'.at = "cycle" /\ belt'.now = clock /\ belt'.todo = Targets
      /\ belt'.on = belt.on /\ belt'.batch = belt.batch /\ belt'.lines = belt.lines
      /\ belt'.names = belt.names /\ belt'.own = belt.own /\ belt'.later = belt.later
      /\ belt'.priming = belt.priming
  BY <1>1, ThreadTyped DEF Belts
<1>3. belt.later = {} /\ belt.on = {}
  BY <1>1 DEF BeltInv, Phases
<1>4. Phases'
  BY <1>1, <1>2, <1>3 DEF BeltInv, Phases
<1>5. Made'
  BY <1>1, <1>2, ThreadTyped DEF BeltInv, Made
<1>6. Counted' /\ Suppressed'
  BY <1>1, <1>2 DEF BeltInv, Counted, Settled, Suppressed
<1>7. Followed'
  BY <1>1, <1>2 DEF BeltInv, Followed
<1>8. Reached' /\ Caught'
  BY <1>1, <1>2, <1>3 DEF BeltInv, Reached, Caught, Behind
<1> QED
  BY <1>4, <1>5, <1>6, <1>7, <1>8 DEF BeltInv

\* The page holds every post since the watermark that is not on record, or the post is
\* older than the horizon or beyond the page.
LEMMA FetchKeepsBelt ==
  ASSUME BeltTypeOK, BeltInv, NEW t \in Targets, Fetch(t)
  PROVE  BeltInv'
<1> USE BeltPostsAssumption
<1> DEFINE window == Window(t, belt.now)
           page == FirstPage(window)
           batch == {p \in page : ~Settled(p)}
<1>1. /\ UNCHANGED <<clock, thread, mark, seen, told, named, due, cut, kills, tornMark>>
      /\ belt.at = "cycle" /\ t \in belt.todo /\ belt \in Belts
      /\ missed' = missed \cup (window \ page)
      /\ old' = IF mark[t] + Horizon < belt.now THEN old \cup (On(t) \ window) ELSE old
      /\ belt' = [belt EXCEPT !.at = "classify", !.on = {t}, !.todo = belt.todo \ {t},
                       !.priming = belt.fresh /\ mark[t] = 0 /\ t \notin belt.primed,
                       !.batch = batch]
  BY ThreadTyped DEF Fetch, beltFiles
<1>2. /\ page \subseteq window /\ window \subseteq On(t) /\ On(t) \subseteq DOMAIN thread
      /\ \A p \in On(t) : thread[p].on = t
      /\ \A p \in DOMAIN thread : thread[p].on = t => p \in On(t)
  BY DEF FirstPage, Window, On
<1>3. \A p \in batch : p \in DOMAIN thread /\ thread[p].on = t /\ ~Settled(p)
  BY <1>2
<1>4. \A p \in page : ~Settled(p) => p \in batch
  OBVIOUS
<1>5. \A p \in On(t) : thread[p].stamp >= QuerySince(Before(t, belt.now), belt.now) => p \in window
  BY DEF Window
<1> HIDE DEF window, page, batch
<1>6. /\ belt'.at = "classify" /\ belt'.on = {t} /\ belt'.todo = belt.todo \ {t}
      /\ belt'.batch = batch /\ belt'.now = belt.now /\ belt'.lines = belt.lines
      /\ belt'.names = belt.names /\ belt'.own = belt.own /\ belt'.later = belt.later
      /\ (belt'.priming => mark[t] = 0)
  BY <1>1 DEF Belts
<1>7. Behind' \subseteq Behind /\ Behind \subseteq due /\ due \subseteq DOMAIN thread
  BY <1>1 DEF Behind, BeltInv, Made
<1>8. Phases'
  BY <1>1, <1>6 DEF BeltInv, Phases
<1>9. Made'
  BY <1>1, <1>3, <1>6 DEF BeltInv, Made
<1>10. Counted' /\ Suppressed'
  BY <1>1, <1>3, <1>6 DEF BeltInv, Counted, Settled, Suppressed
<1>11. ~tornMark => \A p \in due : mark[thread[p].on] # 0 /\ seen[p] # "primed"
  BY <1>1 DEF BeltInv, Followed
<1>12. Followed'
  BY <1>1, <1>3, <1>6, <1>11 DEF Followed
<1>13. Reached'
  BY <1>1, <1>7 DEF BeltInv, Reached
<1>14. ASSUME ~tornMark, NEW q \in Behind', thread[q].on = t
       PROVE  told[q] > 0 \/ q \in batch
  <2>1. q \in On(t) /\ q \in due /\ q \in Behind /\ q \notin missed' /\ q \notin old' /\ q \in Posts
    BY <1>2, <1>7, <1>14, ThreadTyped DEF Behind
  <2>2. mark[t] # 0 /\ seen[q] # "primed"
    BY <1>11, <1>14, <2>1
  <2>3. SUFFICES ASSUME ~(told[q] > 0) PROVE q \in batch
    OBVIOUS
  <2>4. ~Settled(q)
    BY <2>1, <2>2, <2>3 DEF BeltInv, Counted, Settled
  <2>5. thread[q].stamp >= mark[t]
    BY <1>14, <2>1, <2>2, <2>3 DEF BeltInv, Reached
  <2>6. q \in window
    <3>1. CASE mark[t] + Horizon < belt.now
      BY <1>1, <2>1, <3>1
    <3>2. CASE ~(mark[t] + Horizon < belt.now)
      <4>1. Before(t, belt.now) = mark[t]
        BY <3>2 DEF Before
      <4>2. QuerySince(mark[t], belt.now) <= mark[t]
        BY <2>2, ThreadTyped DEF QuerySince
      <4>3. QuerySince(mark[t], belt.now) \in Nat /\ mark[t] \in Nat /\ thread[q].stamp \in Nat
        BY <1>2, <2>1, ThreadTyped DEF QuerySince
      <4>4. thread[q].stamp >= QuerySince(mark[t], belt.now)
        BY <2>5, <4>2, <4>3
      <4> QED
        BY <1>5, <2>1, <4>1, <4>4
    <3> QED
      BY <3>1, <3>2
  <2> QED
    BY <1>1, <1>4, <2>1, <2>4, <2>6
<1>15. belt.batch = {} /\ belt.on = {}
  BY <1>1 DEF BeltInv, Phases
<1>16. Caught'
  <2> SUFFICES ASSUME ~tornMark, NEW q \in Behind', thread[q].on = t \/ thread[q].on \in belt.later
               PROVE  told[q] > 0 \/ q \in batch \cup belt.lines \/ thread[q].stamp >= belt.now
    BY <1>1, <1>6 DEF Caught
  <2>1. CASE thread[q].on = t
    BY <1>14, <2>1
  <2>2. CASE thread[q].on \in belt.later
    BY <1>7, <1>15, <2>2 DEF BeltInv, Caught
  <2> QED
    BY <2>1, <2>2
<1> QED
  BY <1>8, <1>9, <1>10, <1>12, <1>13, <1>16 DEF BeltInv

LEMMA FailKeepsBelt ==
  ASSUME BeltTypeOK, BeltInv, NEW t \in Targets, FetchFails(t)
  PROVE  BeltInv'
<1>1. /\ UNCHANGED <<clock, thread, mark, seen, told, named, due, old, missed, cut, kills, tornMark>>
      /\ belt.at = "cycle" /\ belt \in Belts /\ t \in belt.todo
      /\ belt' = [belt EXCEPT !.todo = belt.todo \ {t}]
  BY ThreadTyped DEF FetchFails, beltFiles, beltHistory
<1>2. /\ belt'.at = "cycle" /\ belt'.now = belt.now /\ belt'.todo = belt.todo \ {t}
      /\ belt'.on = belt.on /\ belt'.batch = belt.batch /\ belt'.lines = belt.lines
      /\ belt'.names = belt.names /\ belt'.own = belt.own /\ belt'.later = belt.later
      /\ belt'.priming = belt.priming
  BY <1>1 DEF Belts
<1>3. Phases' /\ Made'
  BY <1>1, <1>2 DEF BeltInv, Phases, Made
<1>4. Counted' /\ Suppressed' /\ Followed'
  BY <1>1, <1>2 DEF BeltInv, Counted, Settled, Suppressed, Followed
<1>5. Reached' /\ Caught'
  BY <1>1, <1>2 DEF BeltInv, Reached, Caught, Behind
<1> QED
  BY <1>3, <1>4, <1>5 DEF BeltInv

LEMMA ClassifyKeepsBelt ==
  ASSUME BeltTypeOK, BeltInv, NEW p \in Posts, Classify(p)
  PROVE  BeltInv'
<1>1. /\ UNCHANGED <<clock, thread, mark, told, named, due, old, missed, cut, kills, tornMark>>
      /\ belt.at = "classify" /\ belt \in Belts /\ p \in belt.batch
      /\ seen' = [seen EXCEPT ![p] = IF belt.priming THEN "primed" ELSE "pending"]
      /\ belt' = [belt EXCEPT !.batch = belt.batch \ {p},
                !.names = IF belt.priming THEN belt.names \cup {p} ELSE belt.names,
                !.lines = IF belt.priming THEN belt.lines ELSE belt.lines \cup {p},
                !.own = IF belt.priming THEN belt.own ELSE belt.own \cup {p}]
  BY ThreadTyped DEF Classify, beltHistory
<1>2. /\ belt'.at = "classify" /\ belt'.now = belt.now /\ belt'.todo = belt.todo
      /\ belt'.on = belt.on /\ belt'.batch = belt.batch \ {p} /\ belt'.later = belt.later
      /\ belt'.priming = belt.priming
      /\ belt'.names = IF belt.priming THEN belt.names \cup {p} ELSE belt.names
      /\ belt'.lines = IF belt.priming THEN belt.lines ELSE belt.lines \cup {p}
      /\ belt'.own = IF belt.priming THEN belt.own ELSE belt.own \cup {p}
  BY <1>1 DEF Belts
<1>3. /\ seen'[p] = IF belt.priming THEN "primed" ELSE "pending"
      /\ \A q \in Posts : q # p => seen'[q] = seen[q]
  BY <1>1 DEF BeltTypeOK
<1>4. /\ belt.own = belt.lines /\ p \in DOMAIN thread /\ belt.now # 0
      /\ due \subseteq Posts /\ belt.batch \subseteq Posts /\ belt.own \subseteq Posts
  BY <1>1 DEF BeltInv, Phases, Made, Belts, BeltTypeOK
<1>5. told[p] <= cut[p]
  BY <1>1, <1>4 DEF BeltInv, Counted
<1>6. Phases'
  BY <1>1, <1>2, <1>4 DEF BeltInv, Phases
<1>7. Made'
  BY <1>1, <1>2, <1>3, <1>4 DEF BeltInv, Made
<1>8. Counted'
  <2> SUFFICES ASSUME NEW q \in Posts
               PROVE  /\ told[q] <= 1 + cut[q]
                      /\ q \in belt'.lines => told[q] <= cut[q]
                      /\ ~(seen'[q] \in {"emitted", "primed"}) /\ q \notin belt'.own => told[q] <= cut[q]
                      /\ q \in belt'.batch => ~(seen'[q] \in {"emitted", "primed"})
                      /\ seen'[q] = "emitted" => told[q] > 0
                      /\ q \in belt'.own \ belt'.lines => told[q] > 0
    BY <1>1 DEF Counted, Settled
  <2>1. CASE q = p
    BY <1>1, <1>2, <1>3, <1>4, <1>5, <2>1 DEF BeltInv, Counted
  <2>2. CASE q # p
    BY <1>2, <1>3, <1>4, <2>2 DEF BeltInv, Counted, Settled
  <2> QED
    BY <2>1, <2>2
<1>9. Suppressed'
  BY <1>1, <1>2, <1>3 DEF BeltInv, Suppressed
<1>10. ~tornMark /\ belt.priming => p \notin due
  BY <1>1 DEF BeltInv, Followed
<1>11. Followed'
  BY <1>1, <1>2, <1>3, <1>4, <1>10 DEF BeltInv, Followed
<1>12. Reached'
  BY <1>1 DEF BeltInv, Reached, Behind
<1>13. Caught'
  BY <1>1, <1>2, <1>10 DEF BeltInv, Caught, Behind
<1> QED
  BY <1>6, <1>7, <1>8, <1>9, <1>11, <1>12, <1>13 DEF BeltInv

LEMMA DoneKeepsBelt ==
  ASSUME BeltTypeOK, BeltInv, TargetDone
  PROVE  BeltInv'
<1>1. PICK t \in belt.on :
       LET emitted == \E p \in belt.lines : thread[p].on = t
       IN  belt' = [belt EXCEPT !.primed = IF belt.priming THEN belt.primed \cup {t} ELSE belt.primed,
                      !.priming = FALSE,
                      !.at = IF emitted THEN "cycle" ELSE "open",
                      !.on = IF emitted THEN {} ELSE belt.on,
                      !.later = IF emitted THEN belt.later \cup {t} ELSE belt.later]
  BY DEF TargetDone
<1> DEFINE emitted == \E p \in belt.lines : thread[p].on = t
<1>2. /\ UNCHANGED <<clock, thread, mark, seen, told, named, due, old, missed, cut, kills, tornMark>>
      /\ belt.at = "classify" /\ belt.batch = {} /\ belt \in Belts
  BY ThreadTyped DEF TargetDone, beltFiles, beltHistory
<1>3. /\ belt'.at = IF emitted THEN "cycle" ELSE "open"
      /\ belt'.on = IF emitted THEN {} ELSE belt.on
      /\ belt'.later = IF emitted THEN belt.later \cup {t} ELSE belt.later
      /\ belt'.priming = FALSE /\ belt'.now = belt.now /\ belt'.todo = belt.todo
      /\ belt'.batch = belt.batch /\ belt'.lines = belt.lines /\ belt'.names = belt.names
      /\ belt'.own = belt.own
  BY <1>1, <1>2 DEF Belts
<1>4. /\ belt.on = {t} /\ t \notin belt.todo /\ t \notin belt.later /\ t \in Targets
      /\ belt.now # 0 /\ belt.own = belt.lines
  BY <1>1, <1>2 DEF BeltInv, Phases
<1>5. ~emitted => \A p \in belt.lines : thread[p].on # t
  OBVIOUS
<1> HIDE DEF emitted
<1>6. Phases'
  <2>1. CASE emitted
    BY <1>2, <1>3, <1>4, <2>1 DEF BeltInv, Phases
  <2>2. CASE ~emitted
    BY <1>2, <1>3, <1>4, <2>2 DEF BeltInv, Phases
  <2> QED
    BY <2>1, <2>2
<1>7. Made' /\ Counted' /\ Suppressed'
  BY <1>2, <1>3 DEF BeltInv, Made, Counted, Settled, Suppressed
<1>8. Followed' /\ Reached'
  BY <1>2, <1>3 DEF BeltInv, Followed, Reached, Behind
<1>9. Caught'
  <2> SUFFICES ASSUME ~tornMark, NEW q \in Behind
               PROVE  /\ thread[q].on \in belt'.on \cup belt'.later =>
                           told[q] > 0 \/ q \in belt.batch \cup belt.lines \/ thread[q].stamp >= belt.now
                      /\ belt'.at \in {"open", "fill"} /\ thread[q].on \in belt'.on =>
                           told[q] > 0 \/ thread[q].stamp >= belt.now
    BY <1>2, <1>3 DEF Caught, Behind
  <2>1. thread[q].on \in belt.on \cup belt.later =>
          told[q] > 0 \/ q \in belt.batch \cup belt.lines \/ thread[q].stamp >= belt.now
    BY DEF BeltInv, Caught
  <2>2. belt'.on \cup belt'.later \subseteq belt.on \cup belt.later
    BY <1>3, <1>4
  <2>3. ASSUME belt'.at \in {"open", "fill"}, thread[q].on \in belt'.on
        PROVE  told[q] > 0 \/ thread[q].stamp >= belt.now
    <3>1. ~emitted /\ thread[q].on = t
      BY <1>3, <1>4, <2>3
    <3> QED
      BY <1>2, <1>4, <1>5, <2>1, <3>1
  <2> QED
    BY <2>1, <2>2, <2>3
<1> QED
  BY <1>6, <1>7, <1>8, <1>9 DEF BeltInv

LEMMA OpenKeepsBelt ==
  ASSUME BeltTypeOK, BeltInv, OpenMark
  PROVE  BeltInv'
<1>1. /\ UNCHANGED <<clock, thread, seen, told, named, due, old, missed, cut, kills, tornMark>>
      /\ belt.at = "open" /\ belt \in Belts
      /\ mark' = [t \in Targets |-> IF t \in belt.on THEN 0 ELSE mark[t]]
      /\ belt' = [belt EXCEPT !.at = "fill"]
  BY ThreadTyped DEF OpenMark, beltHistory
<1>2. /\ belt'.at = "fill" /\ belt'.now = belt.now /\ belt'.todo = belt.todo
      /\ belt'.on = belt.on /\ belt'.batch = belt.batch /\ belt'.lines = belt.lines
      /\ belt'.names = belt.names /\ belt'.own = belt.own /\ belt'.later = belt.later
      /\ belt'.priming = belt.priming
  BY <1>1 DEF Belts
<1>3. \A t \in Targets : mark'[t] = IF t \in belt.on THEN 0 ELSE mark[t]
  BY <1>1
<1>4. due \subseteq DOMAIN thread /\ \A p \in due : thread[p].on \in Targets
  BY ThreadTyped DEF BeltInv, Made
<1>5. Phases'
  BY <1>1, <1>2 DEF BeltInv, Phases
<1>6. Made'
  BY <1>1, <1>2, <1>3, ThreadTyped DEF BeltInv, Made
<1>7. Counted' /\ Suppressed'
  BY <1>1, <1>2 DEF BeltInv, Counted, Settled, Suppressed
<1>8. Followed'
  BY <1>1, <1>2, <1>3, <1>4 DEF BeltInv, Followed
<1>9. Reached'
  BY <1>1, <1>3, <1>4 DEF BeltInv, Reached, Behind
<1>10. Caught'
  BY <1>1, <1>2 DEF BeltInv, Caught, Behind
<1> QED
  BY <1>5, <1>6, <1>7, <1>8, <1>9, <1>10 DEF BeltInv

\* The watermark moves to `now` with nothing before it unprinted.
LEMMA FillKeepsBelt ==
  ASSUME BeltTypeOK, BeltInv, FillMark
  PROVE  BeltInv'
<1>1. /\ UNCHANGED <<clock, thread, seen, told, named, due, old, missed, cut, kills, tornMark>>
      /\ belt.at = "fill" /\ belt \in Belts
      /\ mark' = [t \in Targets |-> IF t \in belt.on THEN belt.now ELSE mark[t]]
      /\ belt' = [belt EXCEPT !.on = {},
                !.at = IF belt.on \subseteq belt.later THEN "advance" ELSE "cycle",
                !.later = belt.later \ belt.on]
  BY ThreadTyped DEF FillMark, beltHistory
<1>2. /\ belt'.at = (IF belt.on \subseteq belt.later THEN "advance" ELSE "cycle")
      /\ belt'.now = belt.now /\ belt'.todo = belt.todo
      /\ belt'.on = {} /\ belt'.batch = belt.batch /\ belt'.lines = belt.lines
      /\ belt'.names = belt.names /\ belt'.own = belt.own /\ belt'.later = belt.later \ belt.on
      /\ belt'.priming = belt.priming
  BY <1>1 DEF Belts
<1>3. \A t \in Targets : mark'[t] = IF t \in belt.on THEN belt.now ELSE mark[t]
  BY <1>1
<1>4. due \subseteq DOMAIN thread /\ \A p \in due : thread[p].on \in Targets
  BY ThreadTyped DEF BeltInv, Made
<1>5. belt.now # 0 /\ belt.batch = {}
  BY <1>1 DEF BeltInv, Phases
<1>6. Phases'
  BY <1>1, <1>2, <1>5 DEF BeltInv, Phases
<1>7. Made'
  BY <1>1, <1>2, <1>3, ThreadTyped DEF BeltInv, Made
<1>8. Counted' /\ Suppressed'
  BY <1>1, <1>2 DEF BeltInv, Counted, Settled, Suppressed
<1>9. Followed'
  BY <1>1, <1>2, <1>3, <1>4, <1>5 DEF BeltInv, Followed
<1>10. Reached'
  BY <1>1, <1>3, <1>4 DEF BeltInv, Reached, Caught, Behind
<1>11. Caught'
  BY <1>1, <1>2 DEF BeltInv, Caught, Behind
<1> QED
  BY <1>6, <1>7, <1>8, <1>9, <1>10, <1>11 DEF BeltInv

LEMMA DeliverKeepsBelt ==
  ASSUME BeltTypeOK, BeltInv, Deliver \/ Flushed
  PROVE  BeltInv'
<1>1. /\ UNCHANGED <<clock, thread, mark, seen, told, named, due, old, missed, cut, kills, tornMark>>
      /\ belt.at \in {"cycle", "deliver"} /\ belt \in Belts
      /\ belt.at = "cycle" => belt.now # 0 /\ belt' = [belt EXCEPT !.at = "deliver"]
      /\ belt.at = "deliver" => /\ belt.lines = {} /\ belt.names = {}
                                /\ belt' = [belt EXCEPT !.at = "promote"]
  BY ThreadTyped DEF Deliver, Flushed, beltFiles, beltHistory
<1>2. /\ belt'.at = (IF belt.at = "cycle" THEN "deliver" ELSE "promote")
      /\ belt'.now = belt.now /\ belt'.todo = belt.todo
      /\ belt'.on = belt.on /\ belt'.batch = belt.batch /\ belt'.lines = belt.lines
      /\ belt'.names = belt.names /\ belt'.own = belt.own /\ belt'.later = belt.later
      /\ belt'.priming = belt.priming
  BY <1>1 DEF Belts
<1>3. Phases' /\ Made'
  BY <1>1, <1>2 DEF BeltInv, Phases, Made
<1>4. Counted' /\ Suppressed'
  BY <1>1, <1>2 DEF BeltInv, Counted, Settled, Suppressed
<1>5. Followed' /\ Reached'
  BY <1>1, <1>2 DEF BeltInv, Followed, Reached, Behind
<1>6. Caught'
  BY <1>1, <1>2 DEF BeltInv, Caught, Behind
<1> QED
  BY <1>3, <1>4, <1>5, <1>6 DEF BeltInv

LEMMA PrintKeepsBelt ==
  ASSUME BeltTypeOK, BeltInv, NEW p \in Posts, PrintLine(p)
  PROVE  BeltInv'
<1>1. /\ UNCHANGED <<clock, thread, mark, seen, named, due, old, missed, cut, kills, tornMark>>
      /\ belt.at = "deliver" /\ belt \in Belts /\ p \in belt.lines
      /\ told' = [told EXCEPT ![p] = told[p] + 1]
      /\ belt' = [belt EXCEPT !.lines = belt.lines \ {p}]
  BY ThreadTyped DEF PrintLine, beltFiles
<1>2. /\ belt'.at = "deliver" /\ belt'.now = belt.now /\ belt'.todo = belt.todo
      /\ belt'.on = belt.on /\ belt'.batch = belt.batch /\ belt'.lines = belt.lines \ {p}
      /\ belt'.names = belt.names /\ belt'.own = belt.own /\ belt'.later = belt.later
      /\ belt'.priming = belt.priming
  BY <1>1 DEF Belts
<1>3. /\ told'[p] = told[p] + 1 /\ told[p] \in Nat /\ cut[p] \in Nat
      /\ \A q \in Posts : q # p => told'[q] = told[q]
      /\ \A q \in Posts : told[q] > 0 => told'[q] > 0
  BY <1>1 DEF BeltTypeOK
<1>4. Phases' /\ Made'
  BY <1>1, <1>2 DEF BeltInv, Phases, Made
<1>5. Counted'
  <2> SUFFICES ASSUME NEW q \in Posts
               PROVE  /\ told'[q] <= 1 + cut[q]
                      /\ q \in belt'.lines => told'[q] <= cut[q]
                      /\ ~Settled(q) /\ q \notin belt.own => told'[q] <= cut[q]
                      /\ q \in belt.batch => ~Settled(q)
                      /\ seen[q] = "emitted" => told'[q] > 0
                      /\ q \in belt.own \ belt'.lines => told'[q] > 0
    BY <1>1, <1>2 DEF Counted, Settled
  <2>1. CASE q = p
    <3>1. p \in belt.own /\ told[p] <= cut[p]
      BY <1>1 DEF BeltInv, Phases, Counted
    <3>2. q \in belt.batch => ~Settled(q)
      BY DEF BeltInv, Counted
    <3> QED
      BY <1>2, <1>3, <2>1, <3>1, <3>2
  <2>2. CASE q # p
    BY <1>2, <1>3, <2>2 DEF BeltInv, Counted
  <2> QED
    BY <2>1, <2>2
<1>6. Suppressed' /\ Followed'
  BY <1>1, <1>2 DEF BeltInv, Suppressed, Followed
<1>7. Behind' = Behind /\ Behind \subseteq Posts
  BY <1>1, ThreadTyped DEF Behind, BeltTypeOK
<1>8. Reached'
  BY <1>1, <1>3, <1>7 DEF BeltInv, Reached
<1>9. Caught'
  BY <1>1, <1>2, <1>3, <1>7 DEF BeltInv, Caught
<1> QED
  BY <1>4, <1>5, <1>6, <1>8, <1>9 DEF BeltInv

LEMMA NameKeepsBelt ==
  ASSUME BeltTypeOK, BeltInv, NEW t \in Targets, PrintPrimed(t)
  PROVE  BeltInv'
<1>1. /\ UNCHANGED <<clock, thread, mark, seen, told, due, old, missed, cut, kills, tornMark>>
      /\ belt.at = "deliver" /\ belt \in Belts
      /\ named' = named \cup (belt.names \cap On(t))
      /\ belt' = [belt EXCEPT !.names = belt.names \ On(t)]
  BY ThreadTyped DEF PrintPrimed, beltFiles
<1>2. /\ belt'.at = "deliver" /\ belt'.now = belt.now /\ belt'.todo = belt.todo
      /\ belt'.on = belt.on /\ belt'.batch = belt.batch /\ belt'.lines = belt.lines
      /\ belt'.names = belt.names \ On(t) /\ belt'.own = belt.own /\ belt'.later = belt.later
      /\ belt'.priming = belt.priming
  BY <1>1 DEF Belts
<1>3. Phases' /\ Made'
  BY <1>1, <1>2 DEF BeltInv, Phases, Made
<1>4. Counted'
  BY <1>1, <1>2 DEF BeltInv, Counted, Settled
<1>5. Suppressed'
  BY <1>1, <1>2 DEF BeltInv, Suppressed
<1>6. Followed' /\ Reached'
  BY <1>1, <1>2 DEF BeltInv, Followed, Reached, Behind
<1>7. Caught'
  BY <1>1, <1>2 DEF BeltInv, Caught, Behind
<1> QED
  BY <1>3, <1>4, <1>5, <1>6, <1>7 DEF BeltInv

LEMMA PromoteKeepsBelt ==
  ASSUME BeltTypeOK, BeltInv, NEW p \in Posts, Promote(p)
  PROVE  BeltInv'
<1>1. /\ UNCHANGED <<clock, thread, mark, told, named, due, old, missed, cut, kills, tornMark>>
      /\ belt.at = "promote" /\ belt \in Belts /\ p \in belt.own
      /\ seen' = [seen EXCEPT ![p] = "emitted"]
      /\ belt' = [belt EXCEPT !.own = belt.own \ {p}]
  BY ThreadTyped DEF Promote, beltHistory
<1>2. /\ belt'.at = "promote" /\ belt'.now = belt.now /\ belt'.todo = belt.todo
      /\ belt'.on = belt.on /\ belt'.batch = belt.batch /\ belt'.lines = belt.lines
      /\ belt'.names = belt.names /\ belt'.own = belt.own \ {p} /\ belt'.later = belt.later
      /\ belt'.priming = belt.priming
  BY <1>1 DEF Belts
<1>3. seen'[p] = "emitted" /\ \A q \in Posts : q # p => seen'[q] = seen[q]
  BY <1>1 DEF BeltTypeOK
<1>4. belt.lines = {} /\ belt.batch = {} /\ due \subseteq Posts /\ p \in DOMAIN thread
  BY <1>1 DEF BeltInv, Phases, Made, BeltTypeOK
<1>5. told[p] > 0
  BY <1>1, <1>4 DEF BeltInv, Counted
<1>6. Phases' /\ Made'
  BY <1>1, <1>2, <1>3, <1>4 DEF BeltInv, Phases, Made
<1>7. Counted'
  BY <1>1, <1>2, <1>3, <1>4, <1>5 DEF BeltInv, Counted, Settled
<1>8. Suppressed'
  BY <1>1, <1>2, <1>3 DEF BeltInv, Suppressed
<1>9. Followed' /\ Reached'
  BY <1>1, <1>2, <1>3, <1>4 DEF BeltInv, Followed, Reached, Behind
<1>10. Caught'
  BY <1>1, <1>2 DEF BeltInv, Caught, Behind
<1> QED
  BY <1>6, <1>7, <1>8, <1>9, <1>10 DEF BeltInv

LEMMA AdvanceKeepsBelt ==
  ASSUME BeltTypeOK, BeltInv, AdvanceLater
  PROVE  BeltInv'
<1>1. /\ UNCHANGED <<clock, thread, mark, seen, told, named, due, old, missed, cut, kills, tornMark>>
      /\ belt \in Belts /\ AdvanceNext
  BY ThreadTyped DEF AdvanceLater, beltFiles, beltHistory
<1>2. belt.at \in {"promote", "advance"} /\ belt.own = {} /\ belt.lines = {} /\ belt.names = {} /\ belt.batch = {}
  BY <1>1 DEF AdvanceNext, BeltInv, Phases
<1>3. /\ belt'.now = belt.now /\ belt'.todo = belt.todo /\ belt'.batch = belt.batch
      /\ belt'.lines = belt.lines /\ belt'.names = belt.names /\ belt'.own = belt.own
      /\ belt'.later = belt.later /\ belt'.priming = belt.priming
      /\ \/ belt'.at = "advance" /\ belt'.on = belt.on
         \/ belt'.at = "open" /\ \E t \in belt.later : belt'.on = {t}
  BY <1>1 DEF AdvanceNext, Belts
<1>4. belt.on = {} /\ belt.later \subseteq Targets
  BY <1>1, <1>2 DEF BeltInv, Phases, Belts
<1>5. Phases'
  <2>1. CASE belt'.at = "advance" /\ belt'.on = belt.on
    BY <1>2, <1>3, <1>4, <2>1 DEF BeltInv, Phases
  <2>2. CASE belt'.at = "open" /\ \E t \in belt.later : belt'.on = {t}
    BY <1>2, <1>3, <1>4, <2>2 DEF BeltInv, Phases
  <2> QED
    BY <1>3, <2>1, <2>2
<1>6. Made' /\ Counted' /\ Suppressed'
  BY <1>1, <1>3 DEF BeltInv, Made, Counted, Settled, Suppressed
<1>7. Followed' /\ Reached'
  BY <1>1, <1>2, <1>3 DEF BeltInv, Followed, Reached, Behind
<1>8. Caught'
  <2>1. belt'.on \subseteq belt.later
    BY <1>3, <1>4
  <2> QED
    BY <1>1, <1>2, <1>3, <2>1 DEF BeltInv, Caught, Behind
<1> QED
  BY <1>5, <1>6, <1>7, <1>8 DEF BeltInv

\* A kill between the lines and their record is what makes a post come twice.
LEMMA KillKeepsBelt ==
  ASSUME BeltTypeOK, BeltInv, KillBelt
  PROVE  BeltInv'
<1>1. /\ UNCHANGED <<clock, thread, mark, seen, told, named, due, old, missed>>
      /\ belt' = NoBelt /\ kills' = kills + 1 /\ kills \in Nat
      /\ tornMark' = (tornMark \/ belt.at = "fill")
      /\ cut' = [p \in Posts |-> IF p \in belt.own \ belt.lines /\ belt.at \in {"deliver", "promote"}
                                 THEN cut[p] + 1 ELSE cut[p]]
  BY DEF KillBelt, beltFiles, BeltTypeOK
<1>2. /\ NoBelt.at = "off" /\ NoBelt.now = 0 /\ NoBelt.todo = {} /\ NoBelt.on = {}
      /\ NoBelt.batch = {} /\ NoBelt.lines = {} /\ NoBelt.names = {} /\ NoBelt.own = {}
      /\ NoBelt.later = {}
  BY DEF NoBelt
<1>3. Phases'
  BY <1>1, <1>2 DEF Phases
<1>4. Made'
  BY <1>1, <1>2, ThreadTyped DEF BeltInv, Made
<1>5. Counted'
  <2> SUFFICES ASSUME NEW p \in Posts
               PROVE  /\ told[p] <= 1 + cut'[p] /\ (~Settled(p) => told[p] <= cut'[p])
                      /\ seen[p] = "emitted" => told[p] > 0
    BY <1>1, <1>2 DEF Counted, Settled
  <2>1. told[p] \in Nat /\ cut[p] \in Nat
    BY ThreadTyped
  <2>2. cut'[p] = IF p \in belt.own \ belt.lines /\ belt.at \in {"deliver", "promote"}
                  THEN cut[p] + 1 ELSE cut[p]
    BY <1>1
  <2>3. belt.at \in {"deliver", "promote"} \/ belt.own = belt.lines
    BY DEF BeltInv, Phases
  <2> QED
    BY <2>1, <2>2, <2>3 DEF BeltInv, Counted
<1>6. Suppressed'
  BY <1>1 DEF Suppressed
<1>7. Followed'
  BY <1>1, <1>2 DEF BeltInv, Followed
<1>8. Reached'
  BY <1>1 DEF BeltInv, Reached, Behind
<1>9. Caught'
  BY <1>1, <1>2 DEF Caught
<1> QED
  BY <1>3, <1>4, <1>5, <1>6, <1>7, <1>8, <1>9 DEF BeltInv

LEMMA BeltInvStep == BeltTypeOK /\ BeltInv /\ [BeltNext]_beltVars => BeltInv'
<1> SUFFICES ASSUME BeltTypeOK, BeltInv, [BeltNext]_beltVars PROVE BeltInv'
  OBVIOUS
<1>1. CASE UNCHANGED beltVars
  BY <1>1 DEF beltVars, beltFiles, beltHistory, BeltInv, Phases, Made, Counted, Settled, Suppressed,
     Followed, Reached, Caught, Behind
<1>2. CASE BeltNext
  BY <1>2, TickKeepsBelt, PostKeepsBelt, IdleKeepsBelt, StartKeepsBelt, FetchKeepsBelt, FailKeepsBelt,
     ClassifyKeepsBelt, DoneKeepsBelt, OpenKeepsBelt, FillKeepsBelt, DeliverKeepsBelt, PrintKeepsBelt,
     NameKeepsBelt, PromoteKeepsBelt, AdvanceKeepsBelt, KillKeepsBelt DEF BeltNext
<1> QED
  BY <1>1, <1>2

LEMMA BeltTypeAlways == BeltSpec => []BeltTypeOK
  BY BeltTypeInit, BeltTypeStep, PTL DEF BeltSpec

LEMMA DeliveredFromInv == BeltTypeOK /\ BeltInv => PostsDelivered
<1> SUFFICES ASSUME BeltTypeOK, BeltInv PROVE PostsDelivered
  OBVIOUS
<1>1. ASSUME ~tornMark, NEW p \in due \ (old \cup missed) PROVE InReach(p)
  <2>1. p \in Posts /\ p \in DOMAIN thread /\ thread[p].on \in Targets
    BY <1>1, ThreadTyped DEF BeltInv, Made
  <2> DEFINE m == mark[thread[p].on]
  <2>2. told[p] > 0 \/ m = 0 \/ thread[p].stamp >= m
    BY <1>1 DEF BeltInv, Reached, Behind
  <2>3. told[p] > 0 \/ ~Settled(p)
    BY <1>1, <2>1 DEF BeltInv, Followed, Counted, Settled
  <2>4. m \in Nat /\ clock \in Nat /\ thread[p].stamp \in Nat
    BY <2>1, ThreadTyped
  <2> HIDE DEF m
  <2>5. m # 0 => QuerySince(m, clock) <= m /\ QuerySince(m, clock) \in Nat
    BY <2>4, BeltPostsAssumption DEF QuerySince
  <2>6. m # 0 /\ thread[p].stamp >= m => thread[p].stamp >= QuerySince(m, clock)
    BY <2>4, <2>5
  <2> QED
    BY <2>2, <2>3, <2>6 DEF InReach, m
<1>2. \A p \in Posts : told[p] <= 1 + cut[p]
  BY DEF BeltInv, Counted
<1>3. kills = 0 => \A p \in Posts : seen[p] = "primed" => p \in named \cup belt.names
  BY DEF BeltInv, Suppressed
<1> QED
  BY <1>1, <1>2, <1>3 DEF PostsDelivered

\* Type correctness of the belt, for any issues, posts, page and bounds.
THEOREM BeltTypeCorrect == BeltSpec => []BeltTypeOK
  BY BeltTypeAlways, PTL

\* However often belts fail, are killed and armed again: a post on an issue that was read
\* before is printed or still to be read, printed twice only if a kill fell between its line
\* and its record, and what priming suppressed is named (comment_watch_cycle,
\* deliver_comment_lines, Watermarks, SeenSet).
THEOREM PostsDeliveredAlways == BeltSpec => []PostsDelivered
  BY BeltInvInit, BeltInvStep, BeltTypeAlways, DeliveredFromInv, PTL DEF BeltSpec

-----------------------------------------------------------------------------
(***************************************************************************)
(* BeltQueue.  An offer on file suppresses the same offer; so it must stand*)
(* only for what the session was told, or will be before the file is saved.*)
(* A marker that can no longer be found queued needs no such care, and one *)
(* that cannot be found now never can again.                               *)
(***************************************************************************)

Queues == [Issues -> 0..MaxMarkers]
Watchers ==
  [at: {"off", "poll", "print"}, known: BOOLEAN, offers: [Issues -> Offers], last: Queues,
   queue: Queues, lines: SUBSET (Issues \X (0..MaxMarkers)), gone: SUBSET Issues]

LEMMA NoWatcherTyped == NoOffer \in Offers /\ Nothing \in Queues /\ NoWatcher \in Watchers
<1> USE BeltQueueAssumption
<1>1. NoOffer \in Offers
  BY DEF NoOffer, Offers
<1>2. Nothing \in Queues
  BY DEF Nothing, Queues
<1>3. [i \in Issues |-> NoOffer] \in [Issues -> Offers]
  BY <1>1
<1> QED
  BY <1>1, <1>2, <1>3 DEF NoWatcher, Watchers

LEMMA QueueTypes ==
  QueueTypeOK <=>
    /\ posted \in 0..MaxMarkers /\ owed \in Queues
    /\ session \in LaneSessions /\ recordedOnly \in BOOLEAN
    /\ offers \in [Issues -> Offers] /\ watcher \in Watchers
    /\ knows \subseteq LaneSessions \X Issues \X Markers
    /\ deaths \in 0..MaxDeaths /\ halfLeft \subseteq Issues
  BY DEF QueueTypeOK, Queues, Watchers

LEMMA QueueTypeInit == QueueInit => QueueTypeOK
<1> USE BeltQueueAssumption, NoWatcherTyped
<1>1. 1 \in LaneSessions
  BY DEF LaneSessions
<1> QED
  BY <1>1, QueueTypes DEF QueueInit

LEMMA AgedTyped == ASSUME NEW f \in [Issues -> Offers] PROVE Aged(f) \in [Issues -> Offers]
<1>1. \A i \in Issues : [f[i] EXCEPT !.old = TRUE] \in Offers
  BY DEF Offers
<1> QED
  BY <1>1 DEF Aged

LEMMA QueueTypeStep == QueueTypeOK /\ [QueueNext]_queueVars => QueueTypeOK'
<1> SUFFICES ASSUME QueueTypeOK, [QueueNext]_queueVars PROVE QueueTypeOK'
  OBVIOUS
<1> USE BeltQueueAssumption
<1>1. /\ posted \in 0..MaxMarkers /\ owed \in Queues
      /\ session \in LaneSessions /\ recordedOnly \in BOOLEAN
      /\ offers \in [Issues -> Offers] /\ watcher \in Watchers
      /\ knows \subseteq LaneSessions \X Issues \X Markers
      /\ deaths \in 0..MaxDeaths /\ halfLeft \subseteq Issues
  BY QueueTypes
<1>2. SUFFICES /\ posted' \in 0..MaxMarkers /\ owed' \in Queues
               /\ session' \in LaneSessions /\ recordedOnly' \in BOOLEAN
               /\ offers' \in [Issues -> Offers] /\ watcher' \in Watchers
               /\ knows' \subseteq LaneSessions \X Issues \X Markers
               /\ deaths' \in 0..MaxDeaths /\ halfLeft' \subseteq Issues
  BY DEF QueueTypeOK, Queues, Watchers
<1>3. ASSUME NEW i \in Issues, Hand(i) \/ Clear(i) \/ Reopen(i)
      PROVE  posted' \in 0..MaxMarkers /\ owed' \in Queues
  BY <1>1, <1>3 DEF Hand, Clear, Reopen, Queues
<1>4. CASE \E i \in Issues : Hand(i) \/ Clear(i) \/ Reopen(i)
  BY <1>1, <1>3, <1>4 DEF Hand, Clear, Reopen
<1>5. CASE NewSession
  BY <1>1, <1>5 DEF NewSession, LaneSessions
<1>6. CASE OffersAge
  <2>1. watcher.offers \in [Issues -> Offers]
    BY <1>1 DEF Watchers
  <2>2. [watcher EXCEPT !.offers = Aged(watcher.offers)] \in Watchers
    BY <1>1, <2>1, AgedTyped DEF Watchers
  <2> QED
    BY <1>1, <1>6, <2>2, AgedTyped DEF OffersAge
<1>7. ASSUME NEW known \in BOOLEAN, NEW pruned \in SUBSET Issues, ArmQueue(known, pruned)
      PROVE  watcher' \in Watchers
  <2> DEFINE f == [i \in Issues |-> IF i \in pruned THEN NoOffer ELSE offers[i]]
  <2>1. f \in [Issues -> Offers]
    BY <1>1, NoWatcherTyped
  <2>2. watcher' = [NoWatcher EXCEPT !.at = "poll", !.known = known, !.offers = f]
    BY <1>7 DEF ArmQueue
  <2> HIDE DEF f
  <2> QED
    BY <2>1, <2>2, NoWatcherTyped DEF Watchers
<1>8. ASSUME NEW checked \in SUBSET Issues, NEW closed \in SUBSET Issues, NEW superseded \in SUBSET Issues,
             Poll(checked, closed, superseded)
      PROVE  watcher' \in Watchers
  <2> DEFINE found == {i \in checked : owed[i] # 0}
             polled == [i \in Issues |-> IF i \in found THEN owed[i] ELSE Carried(i, checked, closed)]
             offered == {i \in found : ~SameOffer(i, owed[i])}
             left == {i \in Issues : polled[i] = 0 /\
                    \/ watcher.last[i] # 0
                    \/ watcher.offers[i].marker # 0
                         /\ (i \in superseded \/ recordedOnly \/ i \in checked)}
             entry(i) == [marker |-> owed[i], to |-> IF watcher.known THEN session ELSE 0, old |-> FALSE]
             lines == {<<i, polled[i]>> : i \in offered} \cup {<<i, 0>> : i \in left}
             f == [i \in Issues |-> IF i \in offered THEN entry(i)
                                     ELSE IF i \in left THEN NoOffer ELSE watcher.offers[i]]
  <2>1. watcher' = [watcher EXCEPT !.at = "print", !.queue = polled, !.lines = lines, !.gone = {}, !.offers = f]
    BY <1>8 DEF Poll
  <2>2. polled \in Queues
    BY <1>1 DEF Queues, Carried, Watchers
  <2>3. lines \subseteq Issues \X (0..MaxMarkers)
    <3>1. \A i \in Issues : polled[i] \in 0..MaxMarkers
      BY <2>2 DEF Queues
    <3>2. offered \subseteq Issues /\ left \subseteq Issues /\ 0 \in 0..MaxMarkers
      OBVIOUS
    <3> HIDE DEF polled, offered, left
    <3> QED
      BY <3>1, <3>2
  <2>4. f \in [Issues -> Offers]
    <3>1. \A i \in Issues : entry(i) \in Offers
      BY <1>1 DEF Offers, Queues, LaneSessions
    <3>2. watcher.offers \in [Issues -> Offers]
      BY <1>1 DEF Watchers
    <3> QED
      BY <3>1, <3>2, NoWatcherTyped
  <2> HIDE DEF polled, lines, f
  <2> QED
    BY <1>1, <2>1, <2>2, <2>3, <2>4 DEF Watchers
<1>9. CASE PollFails
  BY <1>1, <1>9 DEF PollFails, Watchers
<1>10. ASSUME NEW i \in Issues, NEW m \in 0..MaxMarkers, Tell(i, m)
       PROVE  /\ watcher' \in Watchers /\ halfLeft' \subseteq Issues
              /\ knows' \subseteq LaneSessions \X Issues \X Markers
  <2>1. watcher' \in Watchers
    <3>1. watcher' = [watcher EXCEPT !.lines = watcher.lines \ {<<i, m>>},
                        !.gone = IF m = 0 THEN watcher.gone \cup {i} ELSE watcher.gone]
      BY <1>10 DEF Tell
    <3>2. /\ watcher.lines \ {<<i, m>>} \subseteq Issues \X (0..MaxMarkers)
          /\ (IF m = 0 THEN watcher.gone \cup {i} ELSE watcher.gone) \subseteq Issues
      BY <1>1 DEF Watchers
    <3> QED
      BY <1>1, <3>1, <3>2 DEF Watchers
  <2>2. halfLeft' \subseteq Issues
    BY <1>1, <1>10 DEF Tell
  <2>3. knows' \subseteq LaneSessions \X Issues \X Markers
    BY <1>1, <1>10 DEF Tell, Markers
  <2> QED
    BY <2>1, <2>2, <2>3
<1>11. ASSUME NEW written \in BOOLEAN, SaveOffers(written)
       PROVE  /\ watcher' \in Watchers /\ halfLeft' \subseteq Issues
              /\ offers' \in [Issues -> Offers]
  BY <1>1, <1>11, NoWatcherTyped DEF SaveOffers, Watchers
<1>12. ASSUME NEW killed \in BOOLEAN, WatcherGoes(killed)
       PROVE  /\ watcher' \in Watchers /\ halfLeft' \subseteq Issues
              /\ deaths' \in 0..MaxDeaths
  BY <1>1, <1>12, NoWatcherTyped DEF WatcherGoes, Watchers
<1>13. CASE UNCHANGED queueVars
  BY <1>1, <1>13 DEF queueVars
<1> QED
  BY <1>1, <1>4, <1>5, <1>6, <1>7, <1>8, <1>9, <1>10, <1>11, <1>12, <1>13
     DEF QueueNext, ArmQueue, Poll, PollFails, Tell, SaveOffers, WatcherGoes

-----------------------------------------------------------------------------
\* A marker no newer than the last post, nor than what the item is owed for.
InOrder(i, m) == m <= posted /\ (owed[i] # 0 => m <= owed[i])

Ordered ==
  \A i \in Issues :
    /\ InOrder(i, owed[i]) /\ InOrder(i, offers[i].marker) /\ InOrder(i, watcher.offers[i].marker)
    /\ InOrder(i, watcher.last[i]) /\ InOrder(i, watcher.queue[i])
    /\ offers[i].to <= session /\ watcher.offers[i].to <= session

\* A line says what the belt holds as queued and what it is about to save.
LinesFit ==
  \A i \in Issues, m \in 0..MaxMarkers : <<i, m>> \in watcher.lines =>
    m = watcher.queue[i] /\ m = watcher.offers[i].marker /\ (m # 0 => offers[i].marker <= m)

Untold ==
  /\ watcher.at # "print" => watcher.lines = {} /\ watcher.gone = {}
  /\ watcher.at = "off" => watcher = NoWatcher

\* The item can still be found queued under this marker; once not, never again.
Live(i, m) == m # 0 /\ (m = posted \/ m = owed[i])

Known(i, m) == i \in halfLeft \/ <<session, i, m>> \in knows

FileTold ==
  \A i \in Issues : offers[i].to = session /\ Live(i, offers[i].marker) =>
    Known(i, offers[i].marker) \/ i \in watcher.gone

CopyTold ==
  \A i \in Issues : watcher.offers[i].to = session /\ Live(i, watcher.offers[i].marker) =>
    Known(i, watcher.offers[i].marker) \/ <<i, watcher.offers[i].marker>> \in watcher.lines

LastTold ==
  watcher.at = "poll" => \A i \in Issues : watcher.last[i] # 0 => Known(i, watcher.last[i])

QueueTold ==
  watcher.at = "print" => \A i \in Issues : watcher.queue[i] # 0 =>
    Known(i, watcher.queue[i]) \/ <<i, watcher.queue[i]>> \in watcher.lines

QueueInv == Ordered /\ LinesFit /\ Untold /\ FileTold /\ CopyTold /\ LastTold /\ QueueTold

LEMMA QueueInvInit == QueueInit => QueueInv
<1> SUFFICES ASSUME QueueInit PROVE QueueInv
  OBVIOUS
<1> USE BeltQueueAssumption
<1>1. /\ posted = 0 /\ session = 1 /\ watcher = NoWatcher /\ NoWatcher \in Watchers
      /\ NoWatcher.at = "off" /\ NoWatcher.lines = {} /\ NoWatcher.gone = {}
  BY NoWatcherTyped DEF QueueInit, NoWatcher
<1>2. \A i \in Issues : /\ owed[i] = 0 /\ offers[i].marker = 0 /\ offers[i].to = 0
                        /\ watcher.offers[i].marker = 0 /\ watcher.offers[i].to = 0
                        /\ watcher.last[i] = 0 /\ watcher.queue[i] = 0
  BY DEF QueueInit, NoWatcher, Nothing, NoOffer
<1> QED
  BY <1>1, <1>2 DEF QueueInv, Ordered, InOrder, LinesFit, Untold, FileTold, CopyTold, LastTold,
     QueueTold, Live

\* A post, or an item that is worked on or stands again: what was out of reach stays so.
LEMMA PostsKeepQueue ==
  ASSUME QueueTypeOK, QueueInv, NEW i \in Issues, Hand(i) \/ Clear(i) \/ Reopen(i)
  PROVE  QueueInv'
<1> USE BeltQueueAssumption
<1>1. /\ posted \in Nat /\ posted' \in Nat /\ \A j \in Issues : owed[j] \in Nat
      /\ \A j \in Issues : offers[j].marker \in Nat /\ watcher.offers[j].marker \in Nat
      /\ \A j \in Issues : watcher.last[j] \in Nat /\ watcher.queue[j] \in Nat
  BY DEF QueueTypeOK, Offers, Hand, Clear, Reopen
<1>2. /\ UNCHANGED <<session, recordedOnly, offers, watcher, knows, deaths, halfLeft>>
      /\ owed' \in [Issues -> Nat]
  BY <1>1 DEF Hand, Clear, Reopen, QueueTypeOK
<1>3. \A j \in Issues : /\ owed'[j] # 0 => owed'[j] = owed[j] \/ owed'[j] >= posted
                        /\ owed'[j] <= posted'
                        /\ posted <= posted'
  BY <1>1 DEF Hand, Clear, Reopen, QueueTypeOK, QueueInv, Ordered, InOrder
<1>4. ASSUME NEW j \in Issues, NEW m \in Nat, InOrder(j, m) PROVE InOrder(j, m)'
  BY <1>1, <1>2, <1>3, <1>4 DEF InOrder
<1>5. ASSUME NEW j \in Issues, NEW m \in Nat, InOrder(j, m), Live(j, m)' PROVE Live(j, m)
  BY <1>1, <1>2, <1>5 DEF InOrder, Live, Hand, Clear, Reopen, QueueTypeOK
<1>6. Ordered'
  <2>1. \A j \in Issues : InOrder(j, owed[j])'
    BY <1>1, <1>2, <1>3 DEF InOrder
  <2> QED
    BY <1>1, <1>2, <1>3, <1>4, <2>1 DEF QueueInv, Ordered, InOrder
<1>7. LinesFit' /\ Untold' /\ LastTold' /\ QueueTold'
  BY <1>2 DEF QueueInv, LinesFit, Untold, LastTold, QueueTold, Known
<1>8. FileTold'
  BY <1>1, <1>2, <1>5 DEF QueueInv, Ordered, FileTold, Known
<1>9. CopyTold'
  BY <1>1, <1>2, <1>5 DEF QueueInv, Ordered, CopyTold, Known
<1> QED
  BY <1>6, <1>7, <1>8, <1>9 DEF QueueInv

\* A new session has been told nothing, and no offer is addressed to it.
LEMMA SessionKeepsQueue ==
  ASSUME QueueTypeOK, QueueInv, NewSession
  PROVE  QueueInv'
<1> USE BeltQueueAssumption
<1>1. /\ session \in Nat /\ session' = session + 1 /\ watcher.at = "off"
      /\ UNCHANGED <<posted, owed, recordedOnly, offers, watcher, knows, deaths, halfLeft>>
  BY DEF NewSession, QueueTypeOK, LaneSessions
<1>2. \A i \in Issues : offers[i].to \in Nat /\ watcher.offers[i].to \in Nat
  BY DEF QueueTypeOK, Offers
<1>3. \A i \in Issues : offers[i].to # session' /\ watcher.offers[i].to # session'
  BY <1>1, <1>2 DEF QueueInv, Ordered
<1>4. Ordered'
  BY <1>1, <1>2 DEF QueueInv, Ordered, InOrder
<1> QED
  BY <1>1, <1>3, <1>4 DEF QueueInv, LinesFit, Untold, FileTold, CopyTold, LastTold, QueueTold

LEMMA AgeKeepsQueue ==
  ASSUME QueueTypeOK, QueueInv, OffersAge
  PROVE  QueueInv'
<1>1. /\ UNCHANGED <<posted, owed, session, recordedOnly, knows, deaths, halfLeft>>
      /\ watcher \in Watchers /\ watcher.offers \in [Issues -> Offers]
      /\ offers' = Aged(offers) /\ watcher' = [watcher EXCEPT !.offers = Aged(watcher.offers)]
  BY QueueTypes DEF OffersAge, QueueTypeOK
<1>2. ASSUME NEW f \in [Issues -> Offers], NEW i \in Issues
      PROVE  Aged(f)[i].marker = f[i].marker /\ Aged(f)[i].to = f[i].to
  BY DEF Aged, Offers
<1>3. /\ \A i \in Issues : offers'[i].marker = offers[i].marker /\ offers'[i].to = offers[i].to
      /\ \A i \in Issues : /\ watcher'.offers[i].marker = watcher.offers[i].marker
                           /\ watcher'.offers[i].to = watcher.offers[i].to
      /\ watcher'.at = watcher.at /\ watcher'.last = watcher.last /\ watcher'.queue = watcher.queue
      /\ watcher'.lines = watcher.lines /\ watcher'.gone = watcher.gone
  BY <1>1, <1>2 DEF QueueTypeOK, Watchers
<1>4. watcher.at = "off" => watcher' = NoWatcher
  <2> SUFFICES ASSUME watcher.at = "off" PROVE watcher' = NoWatcher
    OBVIOUS
  <2>1. watcher = NoWatcher
    BY DEF QueueInv, Untold
  <2>2. Aged([i \in Issues |-> NoOffer]) = [i \in Issues |-> NoOffer]
    BY DEF Aged, NoOffer
  <2> QED
    BY <1>1, <2>1, <2>2 DEF NoWatcher
<1> QED
  BY <1>1, <1>3, <1>4 DEF QueueInv, Ordered, InOrder, LinesFit, Untold, FileTold, CopyTold, LastTold,
     QueueTold, Live, Known

LEMMA ArmKeepsQueue ==
  ASSUME QueueTypeOK, QueueInv, NEW known \in BOOLEAN, NEW pruned \in SUBSET Issues,
         ArmQueue(known, pruned)
  PROVE  QueueInv'
<1> USE BeltQueueAssumption
<1> DEFINE f == [i \in Issues |-> IF i \in pruned THEN NoOffer ELSE offers[i]]
<1>1. /\ UNCHANGED <<posted, owed, session, recordedOnly, offers, knows, deaths, halfLeft>>
      /\ watcher = NoWatcher
      /\ watcher' = [NoWatcher EXCEPT !.at = "poll", !.known = known, !.offers = f]
  BY DEF ArmQueue, QueueInv, Untold
<1>2. /\ watcher'.at = "poll" /\ watcher'.offers = f /\ watcher'.last = Nothing
      /\ watcher'.queue = Nothing /\ watcher'.lines = {} /\ watcher'.gone = {}
      /\ watcher.gone = {} /\ watcher.lines = {}
  BY <1>1, NoWatcherTyped DEF NoWatcher
<1>3. \A i \in Issues : /\ f[i].marker = 0 \/ f[i].marker = offers[i].marker
                        /\ f[i].to = 0 \/ f[i].to = offers[i].to
                        /\ f[i].marker # 0 => f[i] = offers[i]
  BY DEF NoOffer
<1>4. /\ posted \in Nat /\ session \in Nat /\ \A i \in Issues : owed[i] \in Nat
      /\ \A i \in Issues : Nothing[i] = 0
  BY DEF QueueTypeOK, LaneSessions, Nothing
<1> HIDE DEF f
<1>5. Ordered'
  BY <1>1, <1>2, <1>3, <1>4 DEF QueueInv, Ordered, InOrder
<1>6. FileTold' /\ CopyTold'
  BY <1>1, <1>2, <1>3 DEF QueueInv, FileTold, CopyTold, Live, Known
<1> QED
  BY <1>1, <1>2, <1>4, <1>5, <1>6 DEF QueueInv, LinesFit, Untold, LastTold, QueueTold

LEMMA PollKeepsQueue ==
  ASSUME QueueTypeOK, QueueInv, NEW checked \in SUBSET Issues, NEW closed \in SUBSET Issues,
         NEW superseded \in SUBSET Issues, Poll(checked, closed, superseded)
  PROVE  QueueInv'
<1> USE BeltQueueAssumption
<1> DEFINE found == {i \in checked : owed[i] # 0}
           polled == [i \in Issues |-> IF i \in found THEN owed[i] ELSE Carried(i, checked, closed)]
           offered == {i \in found : ~SameOffer(i, owed[i])}
           left == {i \in Issues : polled[i] = 0 /\
                    \/ watcher.last[i] # 0
                    \/ watcher.offers[i].marker # 0
                         /\ (i \in superseded \/ recordedOnly \/ i \in checked)}
           entry(i) == [marker |-> owed[i], to |-> IF watcher.known THEN session ELSE 0, old |-> FALSE]
           lines == {<<i, polled[i]>> : i \in offered} \cup {<<i, 0>> : i \in left}
           f == [i \in Issues |-> IF i \in offered THEN entry(i)
                                  ELSE IF i \in left THEN NoOffer ELSE watcher.offers[i]]
<1>1. /\ UNCHANGED <<posted, owed, session, recordedOnly, offers, knows, deaths, halfLeft>>
      /\ watcher.at = "poll" /\ watcher \in Watchers
      /\ watcher' = [watcher EXCEPT !.at = "print", !.queue = polled, !.lines = lines, !.gone = {},
                       !.offers = f]
  BY QueueTypes DEF Poll
<1>2. /\ watcher'.at = "print" /\ watcher'.queue = polled /\ watcher'.lines = lines
      /\ watcher'.gone = {} /\ watcher'.offers = f /\ watcher'.last = watcher.last
      /\ watcher.gone = {} /\ watcher.lines = {}
  BY <1>1 DEF QueueInv, Untold, Watchers
<1>3. /\ posted \in Nat /\ session \in Nat /\ \A i \in Issues : owed[i] \in Nat
      /\ \A i \in Issues : watcher.last[i] \in Nat /\ offers[i].marker \in Nat
      /\ \A i \in Issues : watcher.offers[i].marker \in Nat /\ watcher.offers[i].to \in Nat
  BY DEF QueueTypeOK, LaneSessions, Offers
<1>4. offered \subseteq found /\ found \subseteq Issues /\ left \subseteq Issues
  OBVIOUS
<1>5. \A i \in Issues : IF i \in found THEN polled[i] = owed[i] /\ owed[i] # 0
                        ELSE polled[i] = 0 \/ polled[i] = watcher.last[i]
  BY DEF Carried
<1>6. \A i \in offered : /\ polled[i] = owed[i] /\ owed[i] # 0 /\ <<i, owed[i]>> \in lines
                         /\ f[i].marker = owed[i] /\ (f[i].to = 0 \/ f[i].to = session)
  BY <1>4, <1>5
<1>7. \A i \in left : polled[i] = 0 /\ f[i] = NoOffer /\ i \notin offered
  BY <1>5
<1>8. \A i \in Issues : i \notin offered /\ i \notin left => f[i] = watcher.offers[i]
  OBVIOUS
<1>9. \A i \in found : i \notin offered => SameOffer(i, owed[i])
  OBVIOUS
<1>10. \A i \in Issues, m \in 0..MaxMarkers : <<i, m>> \in lines =>
         \/ i \in offered /\ m = polled[i]
         \/ i \in left /\ m = 0
  OBVIOUS
<1>11. NoOffer.marker = 0 /\ NoOffer.to = 0
  BY DEF NoOffer
<1> HIDE DEF found, polled, offered, left, entry, lines, f
<1>12. Ordered'
  <2> SUFFICES ASSUME NEW i \in Issues
               PROVE  /\ InOrder(i, owed[i]) /\ InOrder(i, offers[i].marker) /\ InOrder(i, f[i].marker)
                      /\ InOrder(i, watcher.last[i]) /\ InOrder(i, polled[i])
                      /\ offers[i].to <= session /\ f[i].to <= session
    BY <1>1, <1>2 DEF Ordered, InOrder
  <2>1. /\ InOrder(i, owed[i]) /\ InOrder(i, offers[i].marker) /\ InOrder(i, watcher.offers[i].marker)
        /\ InOrder(i, watcher.last[i]) /\ InOrder(i, 0)
        /\ offers[i].to <= session /\ watcher.offers[i].to <= session
    BY <1>3 DEF QueueInv, Ordered, InOrder
  <2>2. InOrder(i, polled[i])
    BY <1>5, <2>1
  <2>3. InOrder(i, f[i].marker) /\ f[i].to <= session
    <3>1. CASE i \in offered
      <4>1. f[i].marker = owed[i] /\ (f[i].to = 0 \/ f[i].to = session)
        BY <1>6, <3>1
      <4> QED
        BY <1>3, <2>1, <4>1
    <3>2. CASE i \in left
      BY <1>3, <1>7, <1>11, <2>1, <3>2
    <3>3. CASE i \notin offered /\ i \notin left
      BY <1>8, <2>1, <3>3
    <3> QED
      BY <3>1, <3>2, <3>3
  <2> QED
    BY <2>1, <2>2, <2>3
<1>13. LinesFit'
  <2> SUFFICES ASSUME NEW i \in Issues, NEW m \in 0..MaxMarkers, <<i, m>> \in lines
               PROVE  m = polled[i] /\ m = f[i].marker /\ (m # 0 => offers[i].marker <= m)
    BY <1>1, <1>2 DEF LinesFit
  <2>1. owed[i] # 0 => offers[i].marker <= owed[i]
    BY DEF QueueInv, Ordered, InOrder
  <2> QED
    BY <1>6, <1>7, <1>10, <1>11, <2>1
<1>14. FileTold'
  BY <1>1, <1>2 DEF QueueInv, FileTold, Live, Known
<1>15. CopyTold'
  <2> SUFFICES ASSUME NEW i \in Issues, f[i].to = session, Live(i, f[i].marker)
               PROVE  Known(i, f[i].marker) \/ <<i, f[i].marker>> \in lines
    BY <1>1, <1>2 DEF CopyTold, Live, Known
  <2>1. CASE i \in offered
    BY <1>6, <2>1
  <2>2. CASE i \in left
    BY <1>7, <1>11, <2>2 DEF Live
  <2>3. CASE i \notin offered /\ i \notin left
    BY <1>2, <1>8, <2>3 DEF QueueInv, CopyTold
  <2> QED
    BY <2>1, <2>2, <2>3
<1>16. QueueTold'
  <2> SUFFICES ASSUME NEW i \in Issues, polled[i] # 0
               PROVE  Known(i, polled[i]) \/ <<i, polled[i]>> \in lines
    BY <1>1, <1>2 DEF QueueTold, Known
  <2>1. \A j \in Issues : watcher.last[j] # 0 => Known(j, watcher.last[j])
    BY <1>1 DEF QueueInv, LastTold
  <2>2. CASE i \in offered
    BY <1>6, <2>2
  <2>3. CASE i \in found /\ i \notin offered
    <3>1. polled[i] = owed[i] /\ owed[i] # 0 /\ watcher.offers[i].marker = owed[i]
      BY <1>5, <1>9, <2>3 DEF SameOffer
    <3>2. watcher.offers[i].to = session \/ watcher.last[i] = owed[i]
      BY <1>9, <2>3 DEF SameOffer
    <3>3. CASE watcher.offers[i].to = session
      BY <1>2, <3>1, <3>3 DEF QueueInv, CopyTold, Live
    <3> QED
      BY <2>1, <3>1, <3>2, <3>3
  <2>4. CASE i \notin found
    BY <1>5, <2>1, <2>4
  <2> QED
    BY <2>2, <2>3, <2>4
<1>17. Untold' /\ LastTold'
  BY <1>2 DEF Untold, LastTold
<1> QED
  BY <1>12, <1>13, <1>14, <1>15, <1>16, <1>17 DEF QueueInv

LEMMA FailKeepsQueue ==
  ASSUME QueueTypeOK, QueueInv, PollFails
  PROVE  QueueInv'
<1> USE BeltQueueAssumption
<1>1. /\ UNCHANGED <<posted, owed, session, recordedOnly, offers, knows, deaths, halfLeft>>
      /\ watcher.at = "poll" /\ watcher \in Watchers /\ watcher.lines = {} /\ watcher.gone = {}
      /\ watcher'.at = "print" /\ watcher'.queue = watcher.last /\ watcher'.last = watcher.last
      /\ watcher'.lines = {} /\ watcher'.gone = {} /\ watcher'.offers = watcher.offers
  BY QueueTypes DEF PollFails, QueueInv, Untold, Watchers
<1> QED
  BY <1>1 DEF QueueInv, Ordered, InOrder, LinesFit, Untold, FileTold, CopyTold, LastTold, QueueTold,
     Live, Known

LEMMA TellKeepsQueue ==
  ASSUME QueueTypeOK, QueueInv, NEW i \in Issues, NEW m \in 0..MaxMarkers, Tell(i, m)
  PROVE  QueueInv'
<1> USE BeltQueueAssumption
<1>1. /\ UNCHANGED <<posted, owed, session, recordedOnly, offers, deaths>>
      /\ watcher.at = "print" /\ watcher \in Watchers /\ <<i, m>> \in watcher.lines
      /\ watcher'.at = "print" /\ watcher'.queue = watcher.queue /\ watcher'.last = watcher.last
      /\ watcher'.lines = watcher.lines \ {<<i, m>>} /\ watcher'.offers = watcher.offers
      /\ watcher'.gone = IF m = 0 THEN watcher.gone \cup {i} ELSE watcher.gone
  BY QueueTypes DEF Tell, Watchers
<1>2. /\ knows' = IF m = 0 THEN {k \in knows : ~(k[1] = session /\ k[2] = i)}
                  ELSE knows \cup {<<session, i, m>>}
      /\ halfLeft' = IF m = 0 THEN halfLeft ELSE halfLeft \ {i}
  BY DEF Tell
<1>3. m = watcher.queue[i] /\ m = watcher.offers[i].marker /\ (m # 0 => offers[i].marker <= m)
  BY <1>1 DEF QueueInv, LinesFit
<1>4. ASSUME NEW j \in Issues, NEW n \in 0..MaxMarkers, j # i, Known(j, n) PROVE Known(j, n)'
  BY <1>1, <1>2, <1>4 DEF Known
<1>5. /\ posted \in Nat /\ \A j \in Issues : owed[j] \in Nat
      /\ \A j \in Issues : offers[j].marker \in 0..MaxMarkers /\ watcher.offers[j].marker \in 0..MaxMarkers
      /\ \A j \in Issues : watcher.queue[j] \in 0..MaxMarkers
  BY DEF QueueTypeOK, Offers
<1>6. m # 0 => Known(i, m)'
  BY <1>1, <1>2 DEF Known
<1>7. Ordered' /\ Untold' /\ LastTold'
  BY <1>1 DEF QueueInv, Ordered, InOrder, Untold, LastTold
<1>8. LinesFit'
  BY <1>1 DEF QueueInv, LinesFit
<1>9. FileTold'
  <2> SUFFICES ASSUME NEW j \in Issues, offers[j].to = session, Live(j, offers[j].marker)
               PROVE  Known(j, offers[j].marker)' \/ j \in watcher'.gone
    BY <1>1 DEF FileTold, Live, Known
  <2>1. Known(j, offers[j].marker) \/ j \in watcher.gone
    BY DEF QueueInv, FileTold
  <2>2. CASE j # i
    BY <1>1, <1>4, <1>5, <2>1, <2>2
  <2>3. CASE j = i /\ m = 0
    BY <1>1, <2>3
  <2>4. CASE j = i /\ m # 0
    <3>1. InOrder(i, m) /\ InOrder(i, owed[i])
      BY <1>3 DEF QueueInv, Ordered
    <3>2. offers[i].marker = m
      BY <1>3, <1>5, <2>4, <3>1 DEF Live, InOrder
    <3> QED
      BY <1>1, <1>6, <2>4, <3>2 DEF Known
  <2> QED
    BY <2>2, <2>3, <2>4
<1>10. CopyTold'
  <2> SUFFICES ASSUME NEW j \in Issues, watcher.offers[j].to = session,
                      Live(j, watcher.offers[j].marker)
               PROVE  \/ Known(j, watcher.offers[j].marker)'
                      \/ <<j, watcher.offers[j].marker>> \in watcher'.lines
    BY <1>1 DEF CopyTold, Live, Known
  <2>1. Known(j, watcher.offers[j].marker) \/ <<j, watcher.offers[j].marker>> \in watcher.lines
    BY DEF QueueInv, CopyTold
  <2> QED
    BY <1>1, <1>3, <1>4, <1>5, <1>6, <2>1 DEF Live
<1>11. QueueTold'
  <2> SUFFICES ASSUME NEW j \in Issues, watcher.queue[j] # 0
               PROVE  Known(j, watcher.queue[j])' \/ <<j, watcher.queue[j]>> \in watcher'.lines
    BY <1>1 DEF QueueTold, Known
  <2>1. Known(j, watcher.queue[j]) \/ <<j, watcher.queue[j]>> \in watcher.lines
    BY <1>1 DEF QueueInv, QueueTold
  <2> QED
    BY <1>1, <1>3, <1>4, <1>5, <1>6, <2>1
<1> QED
  BY <1>7, <1>8, <1>9, <1>10, <1>11 DEF QueueInv

LEMMA SaveKeepsQueue ==
  ASSUME QueueTypeOK, QueueInv, NEW written \in BOOLEAN, SaveOffers(written)
  PROVE  QueueInv'
<1> USE BeltQueueAssumption
<1>1. /\ UNCHANGED <<posted, owed, session, recordedOnly, knows, deaths>>
      /\ watcher.at = "print" /\ watcher \in Watchers /\ watcher.lines = {}
      /\ watcher'.at = "poll" /\ watcher'.last = watcher.queue /\ watcher'.queue = Nothing
      /\ watcher'.lines = {} /\ watcher'.gone = {} /\ watcher'.offers = watcher.offers
  BY QueueTypes DEF SaveOffers, Watchers
<1>2. /\ offers' = IF written THEN watcher.offers ELSE offers
      /\ halfLeft' = IF written THEN halfLeft ELSE halfLeft \cup watcher.gone
  BY DEF SaveOffers
<1>3. \A i \in Issues : Nothing[i] = 0 /\ InOrder(i, 0)
  BY DEF Nothing, InOrder, QueueTypeOK
<1>4. ASSUME NEW j \in Issues, NEW n \in 0..MaxMarkers, Known(j, n) PROVE Known(j, n)'
  BY <1>1, <1>2, <1>4 DEF Known
<1>5. \A j \in Issues : /\ watcher.queue[j] \in 0..MaxMarkers
                        /\ offers[j].marker \in 0..MaxMarkers /\ watcher.offers[j].marker \in 0..MaxMarkers
  BY DEF QueueTypeOK, Offers
<1>6. Ordered'
  <2>1. CASE written
    BY <1>1, <1>2, <1>3, <2>1 DEF QueueInv, Ordered, InOrder
  <2>2. CASE ~written
    BY <1>1, <1>2, <1>3, <2>2 DEF QueueInv, Ordered, InOrder
  <2> QED
    BY <2>1, <2>2
<1>7. FileTold'
  <2>1. CASE written
    BY <1>1, <1>2, <1>4, <1>5, <2>1 DEF QueueInv, FileTold, CopyTold, Live
  <2>2. CASE ~written
    BY <1>1, <1>2, <1>4, <1>5, <2>2 DEF QueueInv, FileTold, Live, Known
  <2> QED
    BY <2>1, <2>2
<1>8. CopyTold'
  BY <1>1, <1>4, <1>5 DEF QueueInv, CopyTold, Live
<1>9. LastTold'
  BY <1>1, <1>4, <1>5 DEF QueueInv, QueueTold, LastTold
<1> QED
  BY <1>1, <1>6, <1>7, <1>8, <1>9 DEF QueueInv, LinesFit, Untold, QueueTold

LEMMA GoneKeepsQueue ==
  ASSUME QueueTypeOK, QueueInv, NEW killed \in BOOLEAN, WatcherGoes(killed)
  PROVE  QueueInv'
<1> USE BeltQueueAssumption
<1>1. /\ UNCHANGED <<posted, owed, session, recordedOnly, offers, knows>>
      /\ halfLeft' = halfLeft \cup watcher.gone /\ watcher' = NoWatcher
  BY DEF WatcherGoes
<1>2. /\ NoWatcher.at = "off" /\ NoWatcher.lines = {} /\ NoWatcher.gone = {}
      /\ \A i \in Issues : /\ NoWatcher.offers[i].marker = 0 /\ NoWatcher.offers[i].to = 0
                           /\ NoWatcher.last[i] = 0 /\ NoWatcher.queue[i] = 0
  BY DEF NoWatcher, Nothing, NoOffer
<1>3. session \in Nat /\ posted \in Nat
  BY DEF QueueTypeOK, LaneSessions
<1>4. Ordered'
  <2> SUFFICES ASSUME NEW i \in Issues
               PROVE  /\ InOrder(i, owed[i]) /\ InOrder(i, offers[i].marker) /\ InOrder(i, 0)
                      /\ offers[i].to <= session /\ 0 <= session
    BY <1>1, <1>2 DEF Ordered, InOrder
  <2>1. owed[i] \in Nat
    BY DEF QueueTypeOK
  <2> QED
    BY <1>3, <2>1 DEF QueueInv, Ordered, InOrder
<1>5. FileTold'
  BY <1>1 DEF QueueInv, FileTold, Live, Known
<1>6. CopyTold'
  BY <1>1, <1>2 DEF CopyTold, Live
<1> QED
  BY <1>1, <1>2, <1>4, <1>5, <1>6 DEF QueueInv, LinesFit, Untold, LastTold, QueueTold

LEMMA QueueInvStep == QueueTypeOK /\ QueueInv /\ [QueueNext]_queueVars => QueueInv'
<1> SUFFICES ASSUME QueueTypeOK, QueueInv, [QueueNext]_queueVars PROVE QueueInv'
  OBVIOUS
<1>1. CASE UNCHANGED queueVars
  BY <1>1 DEF queueVars, QueueInv, Ordered, InOrder, LinesFit, Untold, FileTold, CopyTold, LastTold,
     QueueTold, Live, Known
<1>2. CASE QueueNext
  BY <1>2, PostsKeepQueue, SessionKeepsQueue, AgeKeepsQueue, ArmKeepsQueue, PollKeepsQueue,
     FailKeepsQueue, TellKeepsQueue, SaveKeepsQueue, GoneKeepsQueue DEF QueueNext
<1> QED
  BY <1>1, <1>2

LEMMA QueueTypeAlways == QueueSpec => []QueueTypeOK
  BY QueueTypeInit, QueueTypeStep, PTL DEF QueueSpec

\* Type correctness of the belt's queue offers, for any set of issues and any bounds.
THEOREM QueueTypeCorrect == QueueSpec => []QueueTypeOK
  BY QueueTypeAlways, PTL

\* Whatever belts, lane sessions, failed polls, failed saves and kills came before, what a
\* belt holds as queued after a poll is what its own lane session was last told of the item,
\* unless a kill or failed save came between "left" and the file (queue_cycle,
\* deliver_queue_lines and OfferState).
THEOREM OffersToldAlways == QueueSpec => []OffersTold
<1>1. QueueInv => OffersTold
  BY DEF QueueInv, LastTold, OffersTold, Known
<1> QED
  BY <1>1, QueueInvInit, QueueInvStep, QueueTypeAlways, PTL DEF QueueSpec

-----------------------------------------------------------------------------
(***************************************************************************)
(* All that works unattended: a behaviour of MCUnattended is one of each   *)
(* part.                                                                   *)
(***************************************************************************)
UnattendedVars == <<side, vars, archiveVars, beltVars, queueVars>>

LEMMA DriverPart == UnattendedSpec => Spec
<1>1. UnattendedInit => Init
  BY DEF UnattendedInit
<1>2. [UnattendedNext]_UnattendedVars => [Next]_vars
  <2>1. DriverNext => Next
    BY DEF DriverNext, Next
  <2>2. AttemptsNext \/ PostsNext \/ OffersNext \/ UNCHANGED UnattendedVars => UNCHANGED vars
    BY DEF AttemptsNext, PostsNext, OffersNext, OnArchive, OnPosts, OnOffers, UnattendedVars
  <2> QED
    BY <2>1, <2>2 DEF UnattendedNext
<1> QED
  BY <1>1, <1>2, PTL DEF UnattendedSpec, Spec, UnattendedVars

LEMMA ArchivePart == UnattendedSpec => ArchiveSpec
<1>1. UnattendedInit => ArchiveInit
  BY DEF UnattendedInit
<1>2. [UnattendedNext]_UnattendedVars => [ArchiveNext]_archiveVars
  <2>1. AttemptsNext => ArchiveNext
    BY DEF AttemptsNext, ArchiveNext
  <2>2. DriverNext \/ PostsNext \/ OffersNext \/ UNCHANGED UnattendedVars => UNCHANGED archiveVars
    BY DEF DriverNext, PostsNext, OffersNext, OnDriver, OnPosts, OnOffers, UnattendedVars
  <2> QED
    BY <2>1, <2>2 DEF UnattendedNext
<1> QED
  BY <1>1, <1>2, PTL DEF UnattendedSpec, ArchiveSpec, UnattendedVars

LEMMA PostsPart == UnattendedSpec => BeltSpec
<1>1. UnattendedInit => BeltInit
  BY DEF UnattendedInit
<1>2. [UnattendedNext]_UnattendedVars => [BeltNext]_beltVars
  <2>1. PostsNext => BeltNext
    BY DEF PostsNext, BeltNext
  <2>2. DriverNext \/ AttemptsNext \/ OffersNext \/ UNCHANGED UnattendedVars => UNCHANGED beltVars
    BY DEF DriverNext, AttemptsNext, OffersNext, OnDriver, OnArchive, OnOffers, UnattendedVars
  <2> QED
    BY <2>1, <2>2 DEF UnattendedNext
<1> QED
  BY <1>1, <1>2, PTL DEF UnattendedSpec, BeltSpec, UnattendedVars

LEMMA OffersPart == UnattendedSpec => QueueSpec
<1>1. UnattendedInit => QueueInit
  BY DEF UnattendedInit
<1>2. [UnattendedNext]_UnattendedVars => [QueueNext]_queueVars
  <2>1. ASSUME OffersNext PROVE QueueNext
    <3>1. CASE \E known \in BOOLEAN, pruned \in SUBSET {i \in Issues : offers[i].old} : ArmQueue(known, pruned)
      BY <3>1 DEF QueueNext
    <3>2. CASE \E checked \in SUBSET Issues, closed \in SUBSET {i \in Issues : watcher.last[i] # 0},
                 superseded \in SUBSET {i \in Issues : watcher.offers[i].marker # 0} :
                 Poll(checked, closed, superseded)
      BY <3>2 DEF QueueNext
    <3> QED
      BY <2>1, <3>1, <3>2 DEF OffersNext, QueueNext
  <2>2. DriverNext \/ AttemptsNext \/ PostsNext \/ UNCHANGED UnattendedVars => UNCHANGED queueVars
    BY DEF DriverNext, AttemptsNext, PostsNext, OnDriver, OnArchive, OnPosts, UnattendedVars
  <2> QED
    BY <2>1, <2>2 DEF UnattendedNext
<1> QED
  BY <1>1, <1>2, PTL DEF UnattendedSpec, QueueSpec, UnattendedVars

\* The driver's files, what the attempts leave, the watermarks and the offers keep their
\* types, whatever runs, dies or starts again beside them.
THEOREM UnattendedTypesCorrect == UnattendedSpec => []UnattendedTypesOK
  BY DriverPart, ArchivePart, PostsPart, OffersPart, TypeCorrect, ArchiveTypeCorrect,
     BeltTypeCorrect, QueueTypeCorrect, PTL DEF UnattendedTypesOK

\* And each part keeps there what it keeps alone.
THEOREM UnattendedSafe ==
  UnattendedSpec =>
    /\ [](/\ PushRecorded /\ NotRedoneUnasked /\ OneOpenPr /\ OnlyGreenPushed /\ SkippedWasJudged
          /\ FirstPushVisible /\ ProposedWasGreen /\ AttemptsKept /\ PostsDelivered /\ OffersTold)
    /\ QueuedStays
<1>1. UnattendedSpec => [](/\ PushRecorded /\ NotRedoneUnasked /\ OneOpenPr /\ OnlyGreenPushed
                           /\ SkippedWasJudged /\ FirstPushVisible /\ ProposedWasGreen)
  BY DriverPart, PushRecordedHolds, NotRedoneUnaskedHolds, OneOpenPrHolds, OnlyGreenPushedHolds,
     SkippedWasJudgedHolds, FirstPushVisibleHolds, ProposedWasGreenHolds, PTL
<1>2. UnattendedSpec => [](AttemptsKept /\ PostsDelivered /\ OffersTold)
  BY ArchivePart, PostsPart, OffersPart, AttemptsKeptAlways, PostsDeliveredAlways, OffersToldAlways, PTL
<1>3. UnattendedSpec => QueuedStays
  BY DriverPart, QueuedStaysHolds
<1> QED
  BY <1>1, <1>2, <1>3, PTL
=============================================================================
