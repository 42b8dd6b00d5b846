------------------------------ MODULE HeavySlot ------------------------------
(***************************************************************************)
(* Load-aware admission of heavy jobs (tools/lane/heavy_slot.py).          *)
(*                                                                         *)
(* A job is a `heavy_slot.py run` wrapper and the command it runs.  Jobs   *)
(* share two directories of files: tickets, which order the waiting jobs,  *)
(* and holders, which say what the running ones reserve.  A file counts    *)
(* while its owner lives (the owner holds a flock on it).  Decisions are   *)
(* made under one machine-wide guard; readings of the system are taken     *)
(* before it, and show what the commands use at that moment: often less    *)
(* than they reserve, and next to nothing just after their start.          *)
(*                                                                         *)
(* Memory is in units of the reservations.  Cores, load and pressure only  *)
(* delay a job, for as long as they like: each reading is `calm` or not.   *)
(***************************************************************************)
EXTENDS Naturals, FiniteSetsExt

CONSTANTS Jobs,     \* each arrives once
          Parent,   \* [Jobs -> Jobs \cup {None}], the job whose command runs it
          Gb,       \* [Jobs -> Nat], the memory a job reserves, and its command at most uses
          Memory,   \* the memory the heavy jobs can share
          Recent,   \* recent_seconds
          Bound,    \* max_wait_seconds
          Ramp,     \* the age by which a command has grown to what it needs
          ReadGap,  \* the longest a reading waits for the guard
          None

\* recent_seconds covers the growth of a command and a reading's wait for the guard.  A
\* step starts no steps of its own, no job is larger than the machine, and there are
\* as many jobs as anyone started.
ASSUME ConstantsAssumption ==
  /\ IsFiniteSet(Jobs)
  /\ Recent \in Nat /\ Bound \in Nat /\ ReadGap \in Nat /\ Ramp \in Nat \ {0}
  /\ Ramp + ReadGap <= Recent
  /\ Recent <= Bound
  /\ None \notin Jobs
  /\ Parent \in [Jobs -> Jobs \cup {None}]
  /\ \A j \in Jobs : Parent[j] # None => Parent[Parent[j]] = None
  /\ Memory \in Nat
  /\ Gb \in [Jobs -> 0..Memory]

VARIABLES
  pc,       \* [Jobs -> ...], where a job stands
  tickets,  \* SUBSET Jobs, the ticket files
  holders,  \* SUBSET Jobs, the holder files
  before,   \* [Jobs -> SUBSET Jobs], the jobs whose ticket names sort first
  waited,   \* [Jobs -> 0..Bound], time since the ticket was made, capped
  use,      \* [Jobs -> Nat], the memory that the job's command uses now
  shown,    \* [Jobs -> Nat], the memory in use when the reading was taken
  calm,     \* [Jobs -> BOOLEAN], the reading's load and pressure let a job start
  readAge,  \* [Jobs -> 0..ReadGap], the age of the reading
  since,    \* [Jobs -> 0..Bound], time since admission, capped, of a job in a slot
  late,     \* [Jobs -> BOOLEAN], admitted because it was overdue
  \* History.
  ahead,    \* [Jobs -> SUBSET Jobs], the jobs queued when this one came
  grown     \* SUBSET Jobs, those in slots whose command grew again when it was old

vars == <<pc, tickets, holders, before, waited, use, shown, calm, readAge, since,
          late, ahead, grown>>

reading == <<shown, calm, readAge>>
memory  == <<use, grown>>

-----------------------------------------------------------------------------
Waiting == {"queued", "read", "asleep"}   \* holding a ticket: before a reading,
                                          \* with a reading, in the poll's sleep

Started == {"running",          \* holding a slot
            "nested",           \* in the slot of its parent
            "unmanaged",        \* admission failed open
            "orphan"}           \* the wrapper was killed, the command goes on

\* With the types, what a file says of its owner: a waiting job has its ticket, a
\* job in a slot its holder file, whoever swept the directories meanwhile.
TypeOK ==
  /\ pc \in [Jobs -> {"idle", "named", "admitted", "done"} \cup Waiting \cup Started]
  /\ tickets \subseteq Jobs
  /\ holders \subseteq Jobs
  /\ before \in [Jobs -> SUBSET Jobs]
  /\ ahead \in [Jobs -> SUBSET Jobs]
  /\ waited \in [Jobs -> 0..Bound]
  /\ use \in [Jobs -> Nat] /\ \A j \in Jobs : use[j] <= Gb[j]
  /\ grown \subseteq Jobs
  /\ shown \in [Jobs -> Nat]
  /\ calm \in [Jobs -> BOOLEAN]
  /\ readAge \in [Jobs -> 0..ReadGap]
  /\ since \in [Jobs -> 0..Bound]
  /\ late \in [Jobs -> BOOLEAN]
  /\ \A j \in Jobs : pc[j] \in Waiting \cup {"admitted"} => j \in tickets
  /\ \A j \in Jobs : pc[j] \in {"admitted", "running"} => j \in holders

Init ==
  /\ pc = [j \in Jobs |-> "idle"]
  /\ tickets = {}
  /\ holders = {}
  /\ before = [j \in Jobs |-> {}]
  /\ ahead = [j \in Jobs |-> {}]
  /\ waited = [j \in Jobs |-> 0]
  /\ use = [j \in Jobs |-> 0]
  /\ grown = {}
  /\ shown = [j \in Jobs |-> 0]
  /\ calm = [j \in Jobs |-> FALSE]
  /\ readAge = [j \in Jobs |-> 0]
  /\ since = [j \in Jobs |-> 0]
  /\ late = [j \in Jobs |-> FALSE]

\* What the jobs of S come to, when each counts for amount[j].
Total(amount, S) == MapThenSumSet(LAMBDA j : amount[j], S)

TicketFiles == tickets   \* a mutant: a dead waiter's ticket is waited on

\* A mutant: a waiter has its flock only while it looks at the queue.
TicketsInUse == {j \in tickets : pc[j] \in {"read", "admitted"}}

\* A file whose owner is gone is removed by whoever looks at it, and ignored.
LiveTickets == {j \in tickets : pc[j] \in Waiting \cup {"admitted"}}
LiveHolders == {j \in holders : pc[j] \in {"admitted", "running"}}

\* The jobs whose command runs on memory of its own (a nested one is in its parent's).
Using == {j \in Jobs : pc[j] \in {"running", "unmanaged", "orphan"}}

Goes(j, to) == pc' = [pc EXCEPT ![j] = to]

\* Every look at the state directory, `status` included, removes the dead files.
Sweep ==
  /\ tickets' = LiveTickets
  /\ holders' = LiveHolders
  /\ UNCHANGED <<pc, before, waited, memory, reading, since, late, ahead>>

\* Seconds pass (poll_seconds of them) for the jobs that wait, for those in slots,
\* and between a reading and the decision it is for.  A job admitted has its command
\* started at once.
OneMore(t, S) ==
  [j \in Jobs |-> IF j \notin S THEN 0 ELSE IF t[j] < Bound THEN t[j] + 1 ELSE t[j]]

Tick ==
  /\ \A j \in Jobs : pc[j] # "admitted"
  /\ \A j \in Jobs : pc[j] = "read" => readAge[j] < ReadGap
  /\ waited' = OneMore(waited, {j \in Jobs : pc[j] \in Waiting})
  /\ since' = OneMore(since, {j \in Jobs : pc[j] = "running"})
  /\ readAge' = [j \in Jobs |-> IF pc[j] = "read" THEN readAge[j] + 1 ELSE readAge[j]]
  /\ pc' = [j \in Jobs |-> IF pc[j] = "asleep" THEN "queued" ELSE pc[j]]
  /\ UNCHANGED <<tickets, holders, before, memory, shown, calm, late, ahead>>

-----------------------------------------------------------------------------
(***************************************************************************)
(* One job: slot, _admit, decide, and cmd_run's command.                   *)
(***************************************************************************)

CanArrive(j) == pc[j] = "idle" /\ (Parent[j] # None => pc[Parent[j]] \in Started)

\* Under the guard: a job below a live holder runs in its slot.  Any other names
\* its ticket after the clock; the ticket itself is made later, under the guard.
Arrive(j) ==
  /\ CanArrive(j)
  /\ tickets' = tickets
  /\ holders' = LiveHolders
  /\ \/ /\ Parent[j] \in LiveHolders
        /\ Goes(j, "nested")
        /\ UNCHANGED <<before, ahead>>
     \/ /\ Parent[j] \notin LiveHolders
        /\ Goes(j, "named")
        /\ before' = [before EXCEPT ![j] = {k \in Jobs : pc[k] = "named"} \cup LiveTickets]
        /\ ahead' = [ahead EXCEPT ![j] = LiveTickets]
  /\ UNCHANGED <<waited, memory, reading, since, late>>

Enqueue(j) ==
  /\ pc[j] = "named"
  /\ Goes(j, "queued")
  /\ tickets' = tickets \cup {j}
  /\ UNCHANGED <<holders, before, waited, memory, reading, since, late, ahead>>

\* read_system, outside the guard: MemAvailable knows nothing of reservations.
Read(j) ==
  /\ pc[j] = "queued"
  /\ Goes(j, "read")
  /\ shown' = [shown EXCEPT ![j] = Total(use, Using)]
  /\ \E quiet \in BOOLEAN : calm' = [calm EXCEPT ![j] = quiet]
  /\ readAge' = [readAge EXCEPT ![j] = 0]
  /\ UNCHANGED <<tickets, holders, before, waited, memory, since, late, ahead>>

RecentsShort == {k \in LiveHolders : since[k] < Ramp}   \* a mutant: no wait for the guard

\* The jobs admitted lately: what they reserve is subtracted, since they may not have
\* grown to it when the reading was taken.
Recents == {k \in LiveHolders : since[k] < Recent}

FitsUnlessOverdue(j) ==   \* a mutant: the bound bypasses the memory floor
  shown[j] + Total(Gb, Recents) + Gb[j] <= Memory \/ waited[j] >= Bound

\* The memory floor: MemAvailable less the recent reservations covers the job.
Fits(j) == shown[j] + Total(Gb, Recents) + Gb[j] <= Memory

OverdueAtOnce(j) == waited[j] >= Bound   \* a mutant: all the overdue start at once

\* Past the bound, and no live job was admitted within the bound.
Overdue(j) == waited[j] >= Bound /\ \A k \in LiveHolders : since[k] >= Bound

IsHeadAlways(j) == TRUE   \* a mutant: whoever fits starts

\* No live ticket sorts before this one.
IsHead(j) == before[j] \cap LiveTickets = {}

MayStart(j) == IsHead(j) /\ Fits(j) /\ (Overdue(j) \/ calm[j])

\* The decision under the guard.  When the log line of an admission cannot be
\* written, the holder file is left without its lock and the job runs unmanaged.
Decide(j) ==
  /\ pc[j] = "read"
  /\ \/ /\ MayStart(j)
        /\ holders' = LiveHolders \cup {j}
        /\ since' = [since EXCEPT ![j] = 0]
        /\ \/ /\ Goes(j, "admitted")
              /\ late' = [late EXCEPT ![j] = Overdue(j)]
              /\ tickets' = LiveTickets
           \/ /\ Goes(j, "unmanaged")
              /\ tickets' = LiveTickets \ {j}
              /\ UNCHANGED late
     \/ /\ ~MayStart(j)
        /\ Goes(j, "asleep")
        /\ holders' = LiveHolders
        /\ tickets' = LiveTickets
        /\ UNCHANGED <<since, late>>
  /\ shown' = [shown EXCEPT ![j] = 0]
  /\ calm' = [calm EXCEPT ![j] = FALSE]
  /\ readAge' = [readAge EXCEPT ![j] = 0]
  /\ UNCHANGED <<before, waited, memory, ahead>>

\* The ticket goes once the guard has been left, and the command starts.
Start(j) ==
  /\ pc[j] = "admitted"
  /\ Goes(j, "running")
  /\ tickets' = tickets \ {j}
  /\ UNCHANGED <<holders, before, waited, memory, reading, since, late, ahead>>

\* A command takes and frees memory as it works, never more than was reserved for it.
\* That an old one grows no more is what the rule for `recent` trusts in; in a slot, one
\* that does is remembered.
Allocate(j) ==
  /\ j \in Using
  /\ \E u \in 0..Gb[j] :
       /\ use' = [use EXCEPT ![j] = u]
       /\ grown' = IF pc[j] = "running" /\ since[j] >= Ramp /\ u > use[j]
                  THEN grown \cup {j} ELSE grown
  /\ UNCHANGED <<pc, tickets, holders, before, waited, reading, since, late, ahead>>

\* The command and all its steps have ended.
Finish(j) ==
  /\ pc[j] \in Started
  /\ \A k \in Jobs : Parent[k] = j => pc[k] \in {"idle", "done"}
  /\ Goes(j, "done")
  /\ holders' = IF pc[j] = "running" THEN holders \ {j} ELSE holders
  /\ use' = [use EXCEPT ![j] = 0]
  /\ UNCHANGED <<tickets, before, waited, reading, since, late, ahead, grown>>

\* Broken state, an unreadable configuration or /proc: the command runs anyway.
FailOpen(j) ==
  /\ CanArrive(j) \/ pc[j] \in Waiting \cup {"named"}
  /\ Goes(j, "unmanaged")
  /\ tickets' = tickets \ {j}
  /\ since' = [since EXCEPT ![j] = 0]
  /\ shown' = [shown EXCEPT ![j] = 0]
  /\ calm' = [calm EXCEPT ![j] = FALSE]
  /\ readAge' = [readAge EXCEPT ![j] = 0]
  /\ UNCHANGED <<holders, before, waited, memory, late, ahead>>

\* The wrapper dies: the flocks are gone, the files stay.  Its command, once
\* started, may die with it or go on alone.
Die(j) ==
  /\ pc[j] \in Waiting \cup {"named", "admitted", "running", "unmanaged"}
  /\ \/ pc[j] \in {"running", "unmanaged"} /\ Goes(j, "orphan") /\ use' = use
     \/ /\ pc[j] \in {"running", "unmanaged"} =>
             \A k \in Jobs : Parent[k] = j => pc[k] \in {"idle", "done"}
        /\ Goes(j, "done")
        /\ use' = [use EXCEPT ![j] = 0]
  /\ shown' = [shown EXCEPT ![j] = 0]
  /\ calm' = [calm EXCEPT ![j] = FALSE]
  /\ readAge' = [readAge EXCEPT ![j] = 0]
  /\ UNCHANGED <<tickets, holders, before, waited, since, late, ahead, grown>>

-----------------------------------------------------------------------------
Moves(j) == Enqueue(j) \/ Read(j) \/ Decide(j) \/ Start(j) \/ Finish(j)

Next ==
  \/ Sweep \/ Tick
  \/ \E j \in Jobs : Arrive(j) \/ Moves(j) \/ Allocate(j) \/ FailOpen(j) \/ Die(j)

Spec == Init /\ [][Next]_vars

\* Time passes, a waiting wrapper polls, and every command ends.
Fairness == WF_vars(Tick) /\ \A j \in Jobs : WF_vars(Moves(j))

-----------------------------------------------------------------------------
(***************************************************************************)
(* What must hold.                                                         *)
(***************************************************************************)

Managed == {j \in Jobs : pc[j] \in {"admitted", "running"}}

\* What a job in a slot counts for: its reservation while it is recent, and what its
\* command uses from then on.
counted == [k \in Jobs |-> IF since[k] < Recent THEN Gb[k] ELSE use[k]]

\* "The memory floor is never bypassed": what the commands in slots use, with all that
\* was promised to the recent ones, never exceeds what there is, although each start
\* rests on a reading taken earlier, commands grow after they were read, slots are given
\* away that reserved more than they use, and overdue jobs start on memory alone.  Only
\* a command that grew again when it was old is not answered for.
NoOvercommit == Total(counted, Managed \ grown) <= Memory

\* Nobody waits in a ring, or for the dead: while anyone waits, a living job is the
\* head of the queue, whenever tickets were named, made and left behind.
Queued == {j \in Jobs : pc[j] \in Waiting \cup {"admitted"}}
SomeoneIsNext == Queued # {} => \E j \in Queued : IsHead(j)

\* "Waiting is first come, first served": a job in a slot left nobody waiting who
\* was in the queue before it came.
FirstComeFirstServed ==
  \A j, k \in Jobs : j \in Managed /\ k \in ahead[j] => pc[k] \notin Waiting

\* "Overdue jobs start one at a time": an overdue start finds no live job younger
\* than the bound, so of two overdue jobs one is older than the bound.
OverdueOneAtATime ==
  \A j, k \in Managed :
    late[j] /\ late[k] /\ since[j] < Bound /\ since[k] < Bound => j = k

-----------------------------------------------------------------------------
(***************************************************************************)
(* Why it holds: the parts of the inductive invariant.                     *)
(***************************************************************************)

\* The commands that had grown to what they need when the reading was taken.
Settled(j) == {k \in Managed \ grown : since[k] >= Ramp + readAge[j]}

\* A reading shows at least what those use now: they only gave memory back since.  The
\* others are recent when the reading is used.
ReadingCovers ==
  \A j \in Jobs : pc[j] = "read" => Total(use, Settled(j)) <= shown[j]

\* A job's command starts in the moment it is admitted in.
StartsAtOnce == \A k \in Jobs : pc[k] = "admitted" => since[k] = 0

\* Whoever was queued when a job came has a ticket that sorts before its own, and
\* has been past the queue's door since.
AheadSortsBefore ==
  \A j \in Jobs :
    /\ ahead[j] \subseteq before[j]
    /\ \A k \in ahead[j] : pc[k] \notin {"idle", "named"}

\* The names order the jobs: of any jobs, one has a name that no other's sorts before.
\* Nobody's name is after that of a job that has not come.
NamesInOrder ==
  /\ \A S \in SUBSET Jobs : S # {} => \E j \in S : before[j] \cap S = {}
  /\ \A j, k \in Jobs : pc[k] = "idle" => k \notin before[j]

SlotInv ==
  /\ StartsAtOnce
  /\ AheadSortsBefore
  /\ FirstComeFirstServed
  /\ OverdueOneAtATime

-----------------------------------------------------------------------------
\* Every wait ends, however busy the machine stays, whoever died in the queue and
\* whatever else was killed: the bound admits the head once memory is there.
EveryWaitEnds ==
  \A j \in Jobs : pc[j] \in Waiting ~> pc[j] \notin Waiting

\* "It never stops work": a command whose admission failed open, or whose wrapper
\* was killed, is never kept from ending by a step of its own that waits.
StepsOfACommandStart ==
  \A j \in {k \in Jobs : Parent[k] # None} :
    pc[j] \in Waiting /\ pc[Parent[j]] \in Started
      ~> pc[j] \notin Waiting \/ pc[Parent[j]] \notin Started
=============================================================================
