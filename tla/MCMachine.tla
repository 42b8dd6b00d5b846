------------------------------ MODULE MCMachine ------------------------------
(* What the sessions of one machine share without a server, on small instances:   *)
(* the slots of heavy jobs, the cached board and the candidate store.  A          *)
(* behaviour takes steps of one of them (`side`).                                 *)
EXTENDS MCHeavySlot, BoardCache, BeltCandidates

VARIABLE side

MachineInit ==
  /\ side \in {"slots", "board", "candidates"}
  /\ Init /\ BoardInit /\ CandidateInit
  /\ side # "candidates" => isOpen   \* one start for each of the others

MachineTypesOK == TypeOK /\ BoardTypeOK /\ CandidateTypeOK

MachineView == <<side, View, boardVars, candidateVars>>

-----------------------------------------------------------------------------
OnSlots == side = "slots" /\ UNCHANGED <<side, boardVars, candidateVars>>

SlotsNext ==
  \/ OnSlots /\ Sweep
  \/ OnSlots /\ Tick
  \/ \E j \in Jobs : OnSlots /\ Arrive(j)
  \/ \E j \in Jobs : OnSlots /\ Enqueue(j)
  \/ \E j \in Jobs : OnSlots /\ Read(j)
  \/ \E j \in Jobs : OnSlots /\ Decide(j)
  \/ \E j \in Jobs : OnSlots /\ Start(j)
  \/ \E j \in Jobs : OnSlots /\ Allocate(j)
  \/ \E j \in Jobs : OnSlots /\ Finish(j)
  \/ \E j \in Jobs : OnSlots /\ FailOpen(j)
  \/ \E j \in Jobs : OnSlots /\ Die(j)

-----------------------------------------------------------------------------
OnBoard == side = "board" /\ UNCHANGED <<side, vars, candidateVars>>

CachedBoardNext ==
  \/ \E r \in Readers : OnBoard /\ GetReads(r)
  \/ \E r \in Readers, answers \in BOOLEAN : OnBoard /\ GetProbes(r, answers)
  \/ \E r \in Readers : OnBoard /\ GetCompares(r)
  \/ \E r \in Readers : OnBoard /\ GetAges(r)
  \/ \E r \in Readers : OnBoard /\ GetScans(r)
  \/ \E r \in Readers : OnBoard /\ GetOpens(r)
  \/ \E r \in Readers : OnBoard /\ GetFills(r)
  \/ \E r \in Readers, answers \in BOOLEAN : OnBoard /\ GetReprobes(r, answers)
  \/ \E r \in Readers : OnBoard /\ GetOpensStamp(r)
  \/ \E r \in Readers : OnBoard /\ GetStamps(r)
  \/ \E r \in Readers, force \in BOOLEAN : OnBoard /\ FullReads(r, force)
  \/ \E r \in Readers : OnBoard /\ FullScans(r)
  \/ \E r \in Readers : OnBoard /\ FullOpens(r)
  \/ \E r \in Readers : OnBoard /\ FullFills(r)
  \/ \E r \in Readers : OnBoard /\ ReaderFails(r)
  \/ OnBoard /\ InvalidateRows
  \/ OnBoard /\ InvalidateStamp
  \/ OnBoard /\ EditBoard
  \/ OnBoard /\ BoardTick

-----------------------------------------------------------------------------
OnCandidates == side = "candidates" /\ UNCHANGED <<side, vars, boardVars>>

StoreNext ==
  \/ \E q \in Posters, owed \in Lanes \cup {Nil} : OnCandidates /\ StampPost(q, owed)
  \/ \E q \in Posters : OnCandidates /\ WritePost(q)
  \/ \E q \in Posters : OnCandidates /\ PostUnrecorded(q)
  \/ \E l \in Lanes, watched, readable \in BOOLEAN : OnCandidates /\ TickBegins(l, watched, readable)
  \/ \E l \in Lanes : OnCandidates /\ NoteTime(l)
  \/ \E l \in Lanes : OnCandidates /\ ReadStore(l)
  \/ \E l \in Lanes : OnCandidates /\ PruneReads(l)
  \/ \E l \in Lanes, holds \in BOOLEAN : OnCandidates /\ PruneArchives(l, holds)
  \/ \E l \in Lanes : OnCandidates /\ PruneUnlinks(l)
  \/ \E l \in Lanes, readable \in BOOLEAN : OnCandidates /\ CheckIssue(l, readable)
  \/ \E l \in Lanes : OnCandidates /\ RetireReads(l)
  \/ \E l \in Lanes : OnCandidates /\ RetireMarks(l)
  \/ \E l \in Lanes : OnCandidates /\ BeltKilled(l)
  \/ OnCandidates /\ FlipIssue
  \/ OnCandidates /\ TimePasses

-----------------------------------------------------------------------------
MachineNext == SlotsNext \/ CachedBoardNext \/ StoreNext

MachineSpec == MachineInit /\ [][MachineNext]_<<side, vars, boardVars, candidateVars>>
=============================================================================
