----------------------------- MODULE MCUnattended -----------------------------
(* The programs that work while nobody looks, on small instances: the te-runner   *)
(* driver, its archive of earlier attempts, and a lane's belt with its posts and  *)
(* its offers.  A behaviour takes steps of one of them (`side`).                  *)
EXTENDS TeRunner, TeArchive, BeltPosts, BeltQueue

CONSTANTS t1, i1   \* an issue with posts, an issue that is offered

VARIABLE side

UnattendedInit ==
  /\ side \in {"driver", "archive", "posts", "offers"}
  /\ Init /\ ArchiveInit /\ BeltInit /\ QueueInit
  /\ side # "archive" => made = 0 /\ liveRef = 0
  /\ side # "offers" => recordedOnly

UnattendedTypesOK == TypeOK /\ ArchiveTypeOK /\ BeltTypeOK /\ QueueTypeOK

-----------------------------------------------------------------------------
\* One item and a change of one of the three it depends on, or two items of which nothing
\* changes; one reason of those that watch the same; what is queued again once no run is
\* left shows nothing.
OneOfEach == {"none", "ineligible", "tool-refusal", "budget", "check-fail"}

DriverScope ==
  /\ \A i \in Items : asked[i] < MaxRuns /\ mem[i].last \in OneOfEach
  /\ \/ /\ \A i \in Items \ {1} : queue[i] = Absent /\ inputs[i].marker = 0 /\ inputs[i].digest = 0
        /\ \E d \in Deps : \A e \in Deps \ {d} : inputs[1][e] = 0
     \/ \A i \in Items : inputs[i] = Blank

OnDriver == side = "driver" /\ UNCHANGED <<side, archiveVars, beltVars, queueVars>>

DriverNext ==
  \/ OnDriver /\ FailToStart /\ DriverScope'
  \/ OnDriver /\ Start /\ DriverScope'
  \/ OnDriver /\ Refuse /\ DriverScope'
  \/ OnDriver /\ Survey /\ DriverScope'
  \/ OnDriver /\ EndRun /\ DriverScope'
  \/ OnDriver /\ Report /\ DriverScope'
  \/ OnDriver /\ Crash /\ DriverScope'
  \/ OnDriver /\ SetAsideEarly /\ DriverScope'
  \/ OnDriver /\ BlockItem /\ DriverScope'
  \/ OnDriver /\ AbortRun /\ DriverScope'
  \/ OnDriver /\ Begin /\ DriverScope'
  \/ OnDriver /\ Judge /\ DriverScope'
  \/ OnDriver /\ Push /\ DriverScope'
  \/ OnDriver /\ CreatePr /\ DriverScope'
  \/ OnDriver /\ ReadLive /\ DriverScope'
  \/ OnDriver /\ RunnerChanges /\ DriverScope'
  \/ \E i \in Items : OnDriver /\ PassOver(i) /\ DriverScope'
  \/ \E i \in Items : OnDriver /\ Pick(i) /\ DriverScope'
  \/ \E i \in Items : OnDriver /\ Add(i) /\ DriverScope'
  \/ \E i \in Items : OnDriver /\ Requeue(i) /\ DriverScope'
  \/ \E i \in Items : OnDriver /\ ClosePr(i) /\ DriverScope'
  \/ \E i \in Items : OnDriver /\ LaneOneChanges(i) /\ DriverScope'

-----------------------------------------------------------------------------
OnArchive == side = "archive" /\ UNCHANGED <<side, vars, beltVars, queueVars>>

AttemptsNext ==
  \/ OnArchive /\ FinishStale
  \/ OnArchive /\ StartArchive
  \/ OnArchive /\ MakeTmp
  \/ OnArchive /\ SavePatches
  \/ OnArchive /\ PatchesRefused
  \/ OnArchive /\ WriteTraces
  \/ OnArchive /\ SaveRef
  \/ OnArchive /\ DropRef
  \/ OnArchive /\ DropBranch
  \/ OnArchive /\ RemoveClone
  \/ OnArchive /\ CloneRemoved
  \/ OnArchive /\ Rename
  \/ OnArchive /\ PickNumber
  \/ OnArchive /\ Clone
  \/ OnArchive /\ Cloned
  \/ OnArchive /\ Provision
  \/ OnArchive /\ ProvisionFails
  \/ OnArchive /\ PinHead
  \/ OnArchive /\ KillRunner
  \/ \E kind \in Kinds : OnArchive /\ AgentWorks(kind)
  \/ \E green \in BOOLEAN : OnArchive /\ PushHead(green)

-----------------------------------------------------------------------------
\* One issue whose belts are killed (the other's polls fail), or two issues for less long.
BeltScope ==
  \/ /\ \A n \in DOMAIN thread : thread[n].on = t1
     /\ \A t \in Targets \ {t1} : mark[t] = 0 /\ belt.on \subseteq {t1} /\ (t1 \in belt.todo => t \in belt.todo)
  \/ kills = 0 /\ missed = {} /\ clock <= 1

OnPosts == side = "posts" /\ UNCHANGED <<side, vars, archiveVars, queueVars>>

PostsNext ==
  \/ OnPosts /\ BeltTick /\ BeltScope'
  \/ \E t \in Targets, skew \in 0..MaxSkew : OnPosts /\ LanePosts(t, skew) /\ BeltScope'
  \/ OnPosts /\ Arm /\ BeltScope'
  \/ OnPosts /\ StartCycle /\ BeltScope'
  \/ \E t \in Targets : OnPosts /\ Fetch(t) /\ BeltScope'
  \/ \E t \in Targets : OnPosts /\ FetchFails(t) /\ BeltScope'
  \/ \E n \in Posts : OnPosts /\ Classify(n) /\ BeltScope'
  \/ OnPosts /\ TargetDone /\ BeltScope'
  \/ OnPosts /\ OpenMark /\ BeltScope'
  \/ OnPosts /\ FillMark /\ BeltScope'
  \/ OnPosts /\ Deliver /\ BeltScope'
  \/ \E n \in Posts : OnPosts /\ PrintLine(n) /\ BeltScope'
  \/ \E t \in Targets : OnPosts /\ PrintPrimed(t) /\ BeltScope'
  \/ OnPosts /\ Flushed /\ BeltScope'
  \/ \E n \in Posts : OnPosts /\ Promote(n) /\ BeltScope'
  \/ OnPosts /\ AdvanceLater /\ BeltScope'
  \/ OnPosts /\ CycleEnds /\ BeltScope'
  \/ OnPosts /\ WindowEnds /\ BeltScope'
  \/ OnPosts /\ KillBelt /\ BeltScope'

-----------------------------------------------------------------------------
\* One issue handed over again under two sessions, or two issues handed over once.
OfferScope ==
  \/ /\ \A i \in Issues \ {i1} : owed[i] = 0 /\ offers[i] = NoOffer /\ watcher.offers[i] = NoOffer
     /\ \A e \in knows : e[2] = i1
  \/ ~recordedOnly /\ posted <= 1 /\ session = 1 /\ deaths <= 1

OnOffers == side = "offers" /\ UNCHANGED <<side, vars, archiveVars, beltVars>>

OffersNext ==
  \/ OnOffers /\ NewSession /\ OfferScope'
  \/ OnOffers /\ OffersAge /\ OfferScope'
  \/ OnOffers /\ PollFails /\ OfferScope'
  \/ \E i \in Issues : OnOffers /\ Hand(i) /\ OfferScope'
  \/ \E i \in Issues : OnOffers /\ Clear(i) /\ OfferScope'
  \/ \E i \in Issues : OnOffers /\ Reopen(i) /\ OfferScope'
  \/ \E known \in BOOLEAN, pruned \in SUBSET {i \in Issues : offers[i].old} : OnOffers /\ ArmQueue(known, pruned) /\ OfferScope'
  \/ \E checked \in SUBSET Issues, closed \in SUBSET {i \in Issues : watcher.last[i] # 0},
        superseded \in SUBSET {i \in Issues : watcher.offers[i].marker # 0} :
       OnOffers /\ Poll(checked, closed, superseded) /\ OfferScope'
  \/ \E i \in Issues, m \in 0..MaxMarkers : OnOffers /\ Tell(i, m) /\ OfferScope'
  \/ \E written \in BOOLEAN : OnOffers /\ SaveOffers(written) /\ OfferScope'
  \/ \E killed \in BOOLEAN : OnOffers /\ WatcherGoes(killed) /\ OfferScope'

-----------------------------------------------------------------------------
UnattendedNext == DriverNext \/ AttemptsNext \/ PostsNext \/ OffersNext

UnattendedSpec ==
  UnattendedInit /\ [][UnattendedNext]_<<side, vars, archiveVars, beltVars, queueVars>>
=============================================================================
