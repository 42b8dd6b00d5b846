------------------------------- MODULE BeltQueue -------------------------------
(***************************************************************************)
(* A belt's queue offers: watch_lane_posts.py queue_cycle and              *)
(* deliver_queue_lines, belt_mechanics.py OfferState.  A poll reads which  *)
(* of the issues it can check await this lane, prints each as queued       *)
(* unless this lane session was offered that very comment, prints those    *)
(* that left, and saves its offers after the lines are out.  One repo, one *)
(* belt at a time; belts are armed again and again, by one lane session    *)
(* after another, and may be killed between any two steps.                 *)
(***************************************************************************)
EXTENDS Naturals, FiniteSets

CONSTANTS Issues,      \* issues of the repo
          MaxMarkers,  \* bound on the posts that hand an issue to the lane
          MaxSessions, \* bound on the lane sessions
          MaxDeaths    \* bound on the belts killed

ASSUME BeltQueueAssumption ==
  /\ MaxMarkers \in Nat /\ MaxSessions \in Nat \ {0} /\ MaxDeaths \in Nat

Markers == 1..MaxMarkers   \* the comment that queues an issue; 0: none does
LaneSessions == 1..MaxSessions

VARIABLES
  posted,       \* the last marker posted
  owed,         \* [Issues -> markers], what awaits the lane at GitHub
  session,      \* the lane session
  recordedOnly, \* the belt's candidates are the recorded posts only
  offers,       \* [Issues -> entries], the offer file
  watcher,      \* the running belt
  knows,        \* history: <<session, item, marker>> the session was told and not untold
  deaths,       \* kills so far
  halfLeft      \* history: items a kill left out of the queue in print, not on file

queueVars == <<posted, owed, session, recordedOnly, offers, watcher, knows, deaths, halfLeft>>

-----------------------------------------------------------------------------
Offers == [marker: 0..MaxMarkers, to: 0..MaxSessions, old: BOOLEAN]
NoOffer == [marker |-> 0, to |-> 0, old |-> FALSE]
Nothing == [i \in Issues |-> 0]

\* known: the belt found the session it belongs to.  offers: its copy of the file.
\* last: the queue of its last poll; queue and lines: of the poll it delivers, a line of
\* marker 0 saying that the item left.
NoWatcher == [at |-> "off", known |-> FALSE, offers |-> [i \in Issues |-> NoOffer],
              last |-> Nothing, queue |-> Nothing, lines |-> {}, gone |-> {}]

QueueTypeOK ==
  /\ posted \in 0..MaxMarkers /\ owed \in [Issues -> 0..MaxMarkers]
  /\ session \in LaneSessions /\ recordedOnly \in BOOLEAN
  /\ offers \in [Issues -> Offers]
  /\ watcher \in [at: {"off", "poll", "print"}, known: BOOLEAN,
                  offers: [Issues -> Offers], last: [Issues -> 0..MaxMarkers],
                  queue: [Issues -> 0..MaxMarkers], lines: SUBSET (Issues \X (0..MaxMarkers)),
                  gone: SUBSET Issues]
  /\ knows \subseteq LaneSessions \X Issues \X Markers
  /\ deaths \in 0..MaxDeaths /\ halfLeft \subseteq Issues

QueueInit ==
  /\ posted = 0 /\ owed = Nothing
  /\ session = 1 /\ recordedOnly \in BOOLEAN
  /\ offers = [i \in Issues |-> NoOffer]
  /\ watcher = NoWatcher
  /\ knows = {} /\ deaths = 0 /\ halfLeft = {}

-----------------------------------------------------------------------------
\* A post hands an issue to the lane.
Hand(i) ==
  /\ posted < MaxMarkers
  /\ posted' = posted + 1
  /\ owed' = [owed EXCEPT ![i] = posted + 1]
  /\ UNCHANGED <<session, recordedOnly, offers, watcher, knows, deaths, halfLeft>>

\* It is worked on, closed or labelled away; or its newest post stands again.
Clear(i) ==
  /\ owed[i] # 0 /\ owed' = [owed EXCEPT ![i] = 0]
  /\ UNCHANGED <<posted, session, recordedOnly, offers, watcher, knows, deaths, halfLeft>>

Reopen(i) ==
  /\ owed[i] = 0 /\ posted # 0 /\ owed' = [owed EXCEPT ![i] = posted]
  /\ \A j \in Issues \ {i} : owed[j] # posted
  /\ UNCHANGED <<posted, session, recordedOnly, offers, watcher, knows, deaths, halfLeft>>

\* A new lane session, the belt of the old one having gone.
NewSession ==
  /\ session < MaxSessions /\ watcher.at = "off"
  /\ session' = session + 1
  /\ UNCHANGED <<posted, owed, recordedOnly, offers, watcher, knows, deaths, halfLeft>>

\* Four hours after an offer.
Aged(f) == [i \in Issues |-> IF f[i].marker # 0 THEN [f[i] EXCEPT !.old = TRUE] ELSE f[i]]
OffersAge ==
  /\ \E i \in Issues : offers[i].marker # 0 /\ ~offers[i].old
  /\ offers' = Aged(offers)
  /\ watcher' = [watcher EXCEPT !.offers = Aged(@)]
  /\ UNCHANGED <<posted, owed, session, recordedOnly, knows, deaths, halfLeft>>

-----------------------------------------------------------------------------
\* The file is loaded once; entries of two weeks ago are dropped.
ArmQueue(known, pruned) ==
  /\ watcher.at = "off"
  /\ pruned # {} => \A i \in pruned : offers[i].old
  /\ watcher' = [NoWatcher EXCEPT !.at = "poll", !.known = known,
                   !.offers = [i \in Issues |-> IF i \in pruned THEN NoOffer ELSE offers[i]]]
  /\ UNCHANGED <<posted, owed, session, recordedOnly, offers, knows, deaths, halfLeft>>

\* A mutant: an offer to an earlier session counts.
SameOfferOfAny(i, m) == watcher.offers[i].marker = m

\* suppresses, or the same-process rule of a belt that knows no session.
SameOffer(i, m) ==
  LET o == watcher.offers[i]
  IN  /\ o.marker = m
      /\ IF watcher.known THEN o.to = session /\ ~o.old ELSE watcher.last[i] = m

\* What was queued and could not be checked stays, unless absence is decisive: the
\* candidates are all recorded, or the item is marked closed.
Carried(i, checked, closed) ==
  IF i \in checked \/ recordedOnly \/ i \in closed THEN 0 ELSE watcher.last[i]

\* queue_cycle.  superseded: offers the candidate store already shows stale.
Poll(checked, closed, superseded) ==
  /\ watcher.at = "poll"
  /\ LET found == {i \in checked : owed[i] # 0}
         queue == [i \in Issues |-> IF i \in found THEN owed[i] ELSE Carried(i, checked, closed)]
         offered == {i \in found : ~SameOffer(i, owed[i])}
         left == {i \in Issues : queue[i] = 0 /\
                    \/ watcher.last[i] # 0
                    \/ watcher.offers[i].marker # 0
                         /\ (i \in superseded \/ recordedOnly \/ i \in checked)}
         entry(i) == [marker |-> owed[i], to |-> IF watcher.known THEN session ELSE 0, old |-> FALSE]
     IN  watcher' = [watcher EXCEPT !.at = "print", !.queue = queue,
                       !.lines = {<<i, queue[i]>> : i \in offered} \cup {<<i, 0>> : i \in left},
                       !.gone = {},
                       !.offers = [i \in Issues |-> IF i \in offered THEN entry(i)
                                                   ELSE IF i \in left THEN NoOffer ELSE @[i]]]
  /\ UNCHANGED <<posted, owed, session, recordedOnly, offers, knows, deaths, halfLeft>>

\* A failed search retracts nothing: the queue is carried forward; the offers are saved.
PollFails ==
  /\ watcher.at = "poll"
  /\ watcher' = [watcher EXCEPT !.at = "print", !.queue = watcher.last, !.lines = {}, !.gone = {}]
  /\ UNCHANGED <<posted, owed, session, recordedOnly, offers, knows, deaths, halfLeft>>

Tell(i, m) ==
  /\ watcher.at = "print" /\ <<i, m>> \in watcher.lines
  /\ watcher' = [watcher EXCEPT !.lines = @ \ {<<i, m>>},
                   !.gone = IF m = 0 THEN @ \cup {i} ELSE @]
  /\ knows' = IF m = 0 THEN {k \in knows : ~(k[1] = session /\ k[2] = i)}
              ELSE knows \cup {<<session, i, m>>}
  /\ halfLeft' = IF m = 0 THEN halfLeft ELSE halfLeft \ {i}
  /\ UNCHANGED <<posted, owed, session, recordedOnly, offers, deaths>>

\* The offers are saved once every line is out; if that fails the belt goes on.
SaveOffers(written) ==
  /\ watcher.at = "print" /\ watcher.lines = {}
  /\ offers' = IF written THEN watcher.offers ELSE offers
  /\ halfLeft' = IF written THEN halfLeft ELSE halfLeft \cup watcher.gone
  /\ watcher' = [watcher EXCEPT !.at = "poll", !.last = watcher.queue, !.queue = Nothing,
                   !.gone = {}]
  /\ UNCHANGED <<posted, owed, session, recordedOnly, knows, deaths>>

WatcherGoes(killed) ==
  /\ IF killed THEN watcher.at # "off" /\ deaths < MaxDeaths ELSE watcher.at = "poll"
  /\ deaths' = IF killed THEN deaths + 1 ELSE deaths
  /\ halfLeft' = halfLeft \cup watcher.gone
  /\ watcher' = NoWatcher
  /\ UNCHANGED <<posted, owed, session, recordedOnly, offers, knows>>

-----------------------------------------------------------------------------
QueueNext ==
  \/ NewSession \/ OffersAge \/ PollFails
  \/ \E i \in Issues : Hand(i) \/ Clear(i) \/ Reopen(i)
  \/ \E known \in BOOLEAN, pruned \in SUBSET Issues : ArmQueue(known, pruned)
  \/ \E checked, closed, superseded \in SUBSET Issues : Poll(checked, closed, superseded)
  \/ \E i \in Issues, m \in 0..MaxMarkers : Tell(i, m)
  \/ \E flag \in BOOLEAN : SaveOffers(flag) \/ WatcherGoes(flag)

QueueSpec == QueueInit /\ [][QueueNext]_queueVars

-----------------------------------------------------------------------------
(***************************************************************************)
(* What must hold.                                                         *)
(***************************************************************************)

\* OfferState, "it can only SUPPRESS an offer, never lose one": after each poll, what the
\* belt holds as queued is what its own lane session was last told of the item, whichever
\* belts, sessions, failed polls and failed saves came before.  Only a kill (or a failed
\* save) between "left" and the file may leave an item untold.
OffersTold ==
  watcher.at = "poll" =>
    \A i \in Issues \ halfLeft :
      watcher.last[i] # 0 => <<session, i, watcher.last[i]>> \in knows
=============================================================================
