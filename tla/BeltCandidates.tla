---------------------------- MODULE BeltCandidates ----------------------------
(***************************************************************************)
(* The candidate store of the belts, belt_candidates.py, and the part of a *)
(* belt's tick in watch_lane_posts.py that reads and marks it: one file    *)
(* per issue with the newest post recorded for it, written by every tool   *)
(* that posts, read by the belts of all lanes without a lock, marked       *)
(* closed by a belt that found the issue closed, and archived and unlinked *)
(* when too old.  Here is the file of one issue; the lock is the store's.  *)
(* Any process may be killed between two steps; a flock dies with it.      *)
(***************************************************************************)
EXTENDS Naturals, FiniteSets

CONSTANTS Lanes,       \* each lane has a belt
          Posters,     \* runs of l1_post.py, l2_post.py, post_lane_discussion.py
          PerSecond,   \* steps of the clock in a second: stamps are whole seconds
          MaxAge,      \* DEFAULT_MAX_AGE_DAYS, in steps of the clock
          Recheck,     \* CLOSED_RECHECK, in steps of the clock
          MaxTime,     \* bound on the clock
          MaxRecords,  \* bound on the posts
          MaxFlips,    \* bound on closes and reopenings
          Nil

ASSUME BeltCandidatesAssumption ==
  /\ PerSecond \in Nat \ {0} /\ MaxAge \in Nat /\ Recheck \in Nat
  /\ MaxTime \in Nat /\ MaxRecords \in Nat /\ MaxFlips \in Nat
  /\ Nil \notin Lanes

VARIABLES
  entry,      \* the issue's file (post 0: there is none)
  storeLock,  \* the belt that holds the store's lock across steps, or Nil
  poster,     \* [Posters -> a post on its way into the store]
  looker,     \* [Lanes -> the belt of the lane]
  isOpen,     \* the issue, at GitHub
  time, records, flips,
  newest,     \* history: the post last written, and when it was made
  kept        \* history: the posts in the archive

candidateVars == <<entry, storeLock, poster, looker, isOpen, time, records, flips, newest, kept>>

-----------------------------------------------------------------------------
Stamp(t) == (t \div PerSecond) * PerSecond

\* A mark also carries history: when the issue was read as closed, and whether the belt
\* remembered that from before it read the store.
Marks == [is: {"none", "read", "remembered"}, on: 0..MaxTime, seenAt: 0..MaxTime]

\* owed: the lane that takes the post's kind from its poster, if any does.
Entries == [post: 0..MaxRecords, at: 0..MaxTime, owed: Lanes \cup {Nil}, closed: Marks]

NoMark == [is |-> "none", on |-> 0, seenAt |-> 0]
NoEntry == [post |-> 0, at |-> 0, owed |-> Nil, closed |-> NoMark]

NoRecord == [at |-> "idle", post |-> 0, made |-> 0, owed |-> Nil]
Resting == [at |-> "sleep", watched |-> FALSE, memo |-> "none", seenAt |-> 0, readBefore |-> 0,
            cutoff |-> 0, copy |-> NoEntry]

CandidateTypeOK ==
  /\ entry \in Entries
  /\ storeLock \in Lanes \cup {Nil}
  /\ poster \in [Posters -> [at: {"idle", "stamped"}, post: 0..MaxRecords, made: 0..MaxTime,
                             owed: Lanes \cup {Nil}]]
  /\ looker \in [Lanes -> [at: {"sleep", "arrive", "read", "prune", "archive", "unlink", "check",
                                "retire", "mark"},
                           watched: BOOLEAN, memo: {"none", "open", "closed"}, seenAt: 0..MaxTime,
                           readBefore: 0..MaxTime, cutoff: 0..MaxTime,
                           copy: Entries]]
  /\ isOpen \in BOOLEAN
  /\ time \in 0..MaxTime /\ records \in 0..MaxRecords /\ flips \in 0..MaxFlips
  /\ newest \in [post: 0..MaxRecords, made: 0..MaxTime]
  /\ kept \subseteq 0..MaxRecords

CandidateInit ==
  /\ entry = NoEntry /\ storeLock = Nil
  /\ poster = [q \in Posters |-> NoRecord]
  /\ looker = [l \in Lanes |-> Resting]
  /\ isOpen \in BOOLEAN
  /\ time = 0 /\ records = 0 /\ flips = 0
  /\ newest = [post |-> 0, made |-> 0] /\ kept = {}

-----------------------------------------------------------------------------
(***************************************************************************)
(* record_candidate: the stamp is taken before the lock is waited for.     *)
(***************************************************************************)
StampPost(q, owed) ==
  /\ poster[q].at = "idle" /\ records < MaxRecords
  /\ records' = records + 1
  /\ poster' = [poster EXCEPT ![q] = [at |-> "stamped", post |-> records + 1, made |-> time, owed |-> owed]]
  /\ UNCHANGED <<entry, storeLock, looker, isOpen, time, flips, newest, kept>>

\* _replace, under the lock: a whole new entry.
WritePost(q) ==
  /\ poster[q].at = "stamped" /\ storeLock = Nil
  /\ entry' = [post |-> poster[q].post, at |-> Stamp(poster[q].made), owed |-> poster[q].owed,
               closed |-> NoMark]
  /\ newest' = [post |-> poster[q].post, made |-> poster[q].made]
  /\ poster' = [poster EXCEPT ![q] = NoRecord]
  /\ UNCHANGED <<storeLock, looker, isOpen, time, records, flips, kept>>

\* An OSError, which is reported and never fails the post, or a kill.
PostUnrecorded(q) ==
  /\ poster[q].at = "stamped"
  /\ poster' = [poster EXCEPT ![q] = NoRecord]
  /\ UNCHANGED <<entry, storeLock, looker, isOpen, time, records, flips, newest, kept>>

-----------------------------------------------------------------------------
(***************************************************************************)
(* A tick of a belt.                                                       *)
(***************************************************************************)
State == IF isOpen THEN "open" ELSE "closed"

\* drop_closed_targets: the state of an issue with a worktree is read first, and the tick
\* remembers what it read.  An issue given by --issues is watched without that.
TickBegins(l, watched, readable) ==
  /\ looker[l].at = "sleep"
  /\ LET memo == IF watched /\ readable THEN State ELSE "none"
     IN  looker' = [looker EXCEPT ![l] =
           [Resting EXCEPT !.at = "arrive", !.watched = watched /\ memo # "closed", !.memo = memo,
                           !.seenAt = IF memo = "none" THEN 0 ELSE time]]
  /\ UNCHANGED <<entry, storeLock, poster, isOpen, time, records, flips, newest, kept>>

\* store_read_at, just before the files are read.
NoteTime(l) ==
  /\ looker[l].at = "arrive"
  /\ looker' = [looker EXCEPT ![l].at = "read", ![l].readBefore = time]
  /\ UNCHANGED <<entry, storeLock, poster, isOpen, time, records, flips, newest, kept>>

\* Older than MaxAge before `now`.
TooOld(e, now) == e.post # 0 /\ e.at + MaxAge < now

RecentlyClosed(e) == e.closed.is # "none" /\ time < e.closed.on + Recheck

Candidate(l) == entry.post # 0 /\ entry.owed = l /\ ~RecentlyClosed(entry)

\* Without a candidate in the store the issue is checked if it is watched.
AfterStore(l) ==
  IF looker[l].watched THEN [looker[l] EXCEPT !.at = "check", !.cutoff = 0] ELSE Resting

\* read_candidates
ReadStore(l) ==
  /\ looker[l].at = "read"
  /\ looker' = [looker EXCEPT ![l] =
       IF TooOld(entry, time) THEN [@ EXCEPT !.at = "prune", !.cutoff = time]
       ELSE IF Candidate(l) THEN [@ EXCEPT !.at = "check"] ELSE AfterStore(l)]
  /\ UNCHANGED <<entry, storeLock, poster, isOpen, time, records, flips, newest, kept>>

\* _prune_if_stale reads again under the lock.
PruneReads(l) ==
  /\ looker[l].at = "prune" /\ storeLock = Nil
  /\ IF TooOld(entry, looker[l].cutoff)
       THEN storeLock' = l /\ looker' = [looker EXCEPT ![l].at = "archive"]
       ELSE storeLock' = storeLock /\ looker' = [looker EXCEPT ![l] = AfterStore(l)]
  /\ UNCHANGED <<entry, poster, isOpen, time, records, flips, newest, kept>>

PruneArchives(l, holds) ==
  /\ looker[l].at = "archive"
  /\ kept' = IF holds THEN kept \cup {entry.post} ELSE kept
  /\ storeLock' = IF holds THEN l ELSE Nil
  /\ looker' = [looker EXCEPT ![l] = IF holds THEN [@ EXCEPT !.at = "unlink"] ELSE AfterStore(l)]
  /\ UNCHANGED <<entry, poster, isOpen, time, records, flips, newest>>

PruneUnlinks(l) ==
  /\ looker[l].at = "unlink"
  /\ entry' = NoEntry /\ storeLock' = Nil
  /\ looker' = [looker EXCEPT ![l] = AfterStore(l)]
  /\ UNCHANGED <<poster, isOpen, time, records, flips, newest, kept>>

\* discover_queue: the state this tick remembers, or one read now; unreadable counts as open.
CheckIssue(l, readable) ==
  /\ looker[l].at = "check"
  /\ LET memo == looker[l].memo
         closed == IF memo # "none" THEN memo = "closed" ELSE readable /\ ~isOpen
     IN  looker' = [looker EXCEPT ![l] =
           IF ~closed THEN Resting
           ELSE [@ EXCEPT !.at = "retire", !.seenAt = IF memo # "none" THEN looker[l].seenAt ELSE time]]
  /\ UNCHANGED <<entry, storeLock, poster, isOpen, time, records, flips, newest, kept>>

\* No entry, or one posted since the store was read: it is left alone.
SinceRead(l) == entry.post = 0 \/ entry.at >= Stamp(looker[l].readBefore)

\* A mutant: the entry is read, and later rewritten, without the lock.
RetireReadsUnlocked(l) ==
  /\ looker[l].at = "retire"
  /\ looker' = [looker EXCEPT ![l] = IF SinceRead(l) THEN Resting
                                     ELSE [@ EXCEPT !.at = "mark", !.copy = entry]]
  /\ UNCHANGED <<entry, storeLock, poster, isOpen, time, records, flips, newest, kept>>

\* retire_candidate
RetireReads(l) ==
  /\ looker[l].at = "retire" /\ storeLock = Nil
  /\ IF SinceRead(l)
       THEN storeLock' = storeLock /\ looker' = [looker EXCEPT ![l] = Resting]
       ELSE storeLock' = l /\ looker' = [looker EXCEPT ![l].at = "mark", ![l].copy = entry]
  /\ UNCHANGED <<entry, poster, isOpen, time, records, flips, newest, kept>>

RetireMarks(l) ==
  /\ looker[l].at = "mark"
  /\ entry' = [looker[l].copy EXCEPT
                 !.closed = [is |-> IF looker[l].memo = "none" THEN "read" ELSE "remembered",
                             on |-> Stamp(time), seenAt |-> looker[l].seenAt]]
  /\ storeLock' = Nil
  /\ looker' = [looker EXCEPT ![l] = Resting]
  /\ UNCHANGED <<poster, isOpen, time, records, flips, newest, kept>>

BeltKilled(l) ==
  /\ looker[l].at # "sleep"
  /\ looker' = [looker EXCEPT ![l] = Resting]
  /\ storeLock' = IF storeLock = l THEN Nil ELSE storeLock
  /\ UNCHANGED <<entry, poster, isOpen, time, records, flips, newest, kept>>

-----------------------------------------------------------------------------
FlipIssue ==
  /\ flips < MaxFlips
  /\ flips' = flips + 1 /\ isOpen' = ~isOpen
  /\ UNCHANGED <<entry, storeLock, poster, looker, time, records, newest, kept>>

TimePasses ==
  /\ time < MaxTime
  /\ time' = time + 1
  /\ UNCHANGED <<entry, storeLock, poster, looker, isOpen, records, flips, newest, kept>>

CandidateNext ==
  \/ \E q \in Posters, owed \in Lanes \cup {Nil} : StampPost(q, owed)
  \/ \E q \in Posters : WritePost(q) \/ PostUnrecorded(q)
  \/ \E l \in Lanes, watched, readable \in BOOLEAN : TickBegins(l, watched, readable)
  \/ \E l \in Lanes, holds \in BOOLEAN : PruneArchives(l, holds)
  \/ \E l \in Lanes, readable \in BOOLEAN : CheckIssue(l, readable)
  \/ \E l \in Lanes : \/ NoteTime(l) \/ ReadStore(l) \/ PruneReads(l) \/ PruneUnlinks(l)
                      \/ RetireReads(l) \/ RetireMarks(l) \/ BeltKilled(l)
  \/ FlipIssue \/ TimePasses

CandidateSpec == CandidateInit /\ [][CandidateNext]_candidateVars

-----------------------------------------------------------------------------
(***************************************************************************)
(* What must hold.                                                         *)
(***************************************************************************)

\* belt_candidates.py, "a fresh post can never land between them and be overwritten", "never
\* an entry posted after the store was read", "archived first and unlinked only when the
\* archive holds it": the post last recorded is in the file until it is too old and archived,
\* and is hidden as closed only if the issue was seen closed after the post was made.  (A
\* state remembered from before the store was read may be older than the post.)
FreshPostKept ==
  newest.post # 0 =>
    IF entry.post = 0
      THEN newest.post \in kept /\ Stamp(newest.made) + MaxAge < time
      ELSE /\ entry.post = newest.post
           /\ entry.closed.is = "read" => newest.made <= entry.closed.seenAt
=============================================================================
