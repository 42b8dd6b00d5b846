------------------------------ MODULE BoardCache ------------------------------
(***************************************************************************)
(* item_list_cache.py: the cached rows of one project board and the stamp  *)
(* beside them, shared by every session of the machine without a lock.     *)
(* get_board_items serves the rows while a one-point probe of the board    *)
(* agrees with the stamp, else while they are young, else it scans and     *)
(* writes rows and stamp anew.  fetch_full_board with a ttl writes rows    *)
(* only.  A write opens (and empties) the file before it fills it, and a   *)
(* process may be killed between any two steps.                            *)
(***************************************************************************)
EXTENDS Naturals

CONSTANTS Readers,    \* processes that read the board
          MaxEdits,   \* bound on the edits of the board
          RowsTtl,    \* the ttl the readers pass
          Cooldown    \* FULL_SCAN_COOLDOWN_SECONDS

\* The cooldown is the longer of the two (600 s and 900 s).
ASSUME BoardCacheAssumption ==
  /\ MaxEdits \in Nat
  /\ RowsTtl \in Nat /\ Cooldown \in Nat /\ RowsTtl <= Cooldown

\* A state of the board stands for its (updatedAt, totalCount): every edit gives a new one.
Versions == 0..MaxEdits

\* The age of the rows file; beyond the cooldown every age is the same.
Ages == 0..Cooldown

VARIABLES
  board,    \* the state of the board at GitHub
  rows,     \* the rows file: what it holds and its age
  stamp,    \* the stamp file
  reader,   \* [Readers -> its next step, the rows and the probe it holds]
  overlap   \* history: an edit or another writer fell between a scan and its stamp

boardFiles == <<rows, stamp>>
boardVars == <<board, boardFiles, reader, overlap>>

-----------------------------------------------------------------------------
\* "current": idle, and its last answer was served as provably current.
ReaderSteps == {"idle", "current", "probe", "compare", "aged", "scan", "open", "fill",
                "reprobe", "openstamp", "stamp", "fullscan", "fullopen", "fullfill"}

Idle == [at |-> "idle", rows |-> 0, live |-> 0]

BoardTypeOK ==
  /\ board \in Versions
  /\ rows \in [is: {"absent", "torn", "whole"}, of: Versions, age: Ages]
  /\ stamp \in [is: {"absent", "torn", "whole"}, of: Versions]
  /\ reader \in [Readers -> [at: ReaderSteps, rows: Versions, live: Versions]]
  /\ overlap \in BOOLEAN

BoardInit ==
  /\ board = 0
  /\ rows = [is |-> "absent", of |-> 0, age |-> 0]
  /\ stamp = [is |-> "absent", of |-> 0]
  /\ reader = [r \in Readers |-> Idle]
  /\ overlap = FALSE

At(r, step) == reader[r].at = step

ReaderMoves(r, step) == reader' = [reader EXCEPT ![r].at = step]

Free(r) == reader[r].at \in {"idle", "current"}

Leaves(r) == reader' = [reader EXCEPT ![r] = Idle]

\* Rows scanned and not stamped yet.
Unstamped(r) == reader[r].at \in {"open", "fill", "reprobe", "openstamp", "stamp"}
Refreshing(r) == Unstamped(r) \/ reader[r].at \in {"fullopen", "fullfill"}

-----------------------------------------------------------------------------
(***************************************************************************)
(* get_board_items                                                         *)
(***************************************************************************)
GetReads(r) ==
  /\ Free(r)
  /\ reader' = [reader EXCEPT ![r] =
       IF rows.is = "whole" THEN [at |-> "probe", rows |-> rows.of, live |-> 0]
       ELSE [at |-> "scan", rows |-> 0, live |-> 0]]
  /\ UNCHANGED <<board, boardFiles, overlap>>

\* _board_currency, which may fail.
GetProbes(r, answers) ==
  /\ At(r, "probe")
  /\ reader' = [reader EXCEPT ![r] =
       IF answers THEN [@ EXCEPT !.at = "compare", !.live = board] ELSE [@ EXCEPT !.at = "aged"]]
  /\ UNCHANGED <<board, boardFiles, overlap>>

\* "provably current -- no scan at any age"; a stamp that is missing, torn or different: by age.
GetCompares(r) ==
  /\ At(r, "compare")
  /\ IF stamp.is = "whole" /\ stamp.of = reader[r].live
     THEN ReaderMoves(r, "current")
     ELSE ReaderMoves(r, "aged")
  /\ UNCHANGED <<board, boardFiles, overlap>>

GetAges(r) ==
  /\ At(r, "aged")
  /\ IF rows.is # "absent" /\ rows.age < RowsTtl
     THEN Leaves(r)
     ELSE ReaderMoves(r, "scan")
  /\ UNCHANGED <<board, boardFiles, overlap>>

\* A mutant: without force, young rows stand for the scan.
GetScansUnforced(r) ==
  /\ At(r, "scan")
  /\ reader' = [reader EXCEPT ![r] =
       [at |-> "open", rows |-> IF rows.is = "whole" /\ rows.age < Cooldown THEN rows.of ELSE board,
        live |-> 0]]
  /\ UNCHANGED <<board, boardFiles, overlap>>

\* fetch_full_board(ttl=0, force=True); a scan that fails raises, and writes nothing.
GetScans(r) ==
  /\ At(r, "scan")
  /\ reader' = [reader EXCEPT ![r] = [at |-> "open", rows |-> board, live |-> 0]]
  /\ UNCHANGED <<board, boardFiles, overlap>>

Writing(r) == overlap' = (overlap \/ \E q \in Readers \ {r} : Refreshing(q))

OpenRows(r, from, to) ==
  /\ At(r, from)
  /\ rows' = [is |-> "torn", of |-> 0, age |-> 0]
  /\ ReaderMoves(r, to) /\ Writing(r)
  /\ UNCHANGED <<board, stamp>>

GetOpens(r) == OpenRows(r, "open", "fill")

GetFills(r) ==
  /\ At(r, "fill")
  /\ rows' = [is |-> "whole", of |-> reader[r].rows, age |-> 0]
  /\ ReaderMoves(r, "reprobe") /\ Writing(r)
  /\ UNCHANGED <<board, stamp>>

\* A second probe, after the rows are in place; if it fails the old stamp stays.
GetReprobes(r, answers) ==
  /\ At(r, "reprobe")
  /\ IF answers
     THEN reader' = [reader EXCEPT ![r].at = "openstamp", ![r].live = board]
     ELSE Leaves(r)
  /\ UNCHANGED <<board, boardFiles, overlap>>

GetOpensStamp(r) ==
  /\ At(r, "openstamp")
  /\ stamp' = [is |-> "torn", of |-> 0]
  /\ ReaderMoves(r, "stamp") /\ Writing(r)
  /\ UNCHANGED <<board, rows>>

GetStamps(r) ==
  /\ At(r, "stamp")
  /\ stamp' = [is |-> "whole", of |-> reader[r].live]
  /\ Leaves(r) /\ Writing(r)
  /\ UNCHANGED <<board, rows>>

-----------------------------------------------------------------------------
(***************************************************************************)
(* fetch_full_board called with a ttl, with or without force.              *)
(***************************************************************************)
FullReads(r, force) ==
  /\ Free(r)
  /\ IF \/ rows.is = "whole" /\ rows.age < RowsTtl             \* served by age
        \/ ~force /\ rows.is # "absent" /\ rows.age < Cooldown  \* FullScanTooSoon
     THEN Leaves(r)
     ELSE ReaderMoves(r, "fullscan")
  /\ UNCHANGED <<board, boardFiles, overlap>>

FullScans(r) ==
  /\ At(r, "fullscan")
  /\ reader' = [reader EXCEPT ![r] = [at |-> "fullopen", rows |-> board, live |-> 0]]
  /\ UNCHANGED <<board, boardFiles, overlap>>

FullOpens(r) == OpenRows(r, "fullopen", "fullfill")

FullFills(r) ==
  /\ At(r, "fullfill")
  /\ rows' = [is |-> "whole", of |-> reader[r].rows, age |-> 0]
  /\ Leaves(r) /\ Writing(r)
  /\ UNCHANGED <<board, stamp>>

-----------------------------------------------------------------------------
\* A failed scan, or a kill.
ReaderFails(r) ==
  /\ ~Free(r)
  /\ Leaves(r)
  /\ UNCHANGED <<board, boardFiles, overlap>>

\* invalidate unlinks the files one by one, in the order of the directory.
InvalidateRows ==
  /\ rows.is # "absent"
  /\ rows' = [is |-> "absent", of |-> 0, age |-> 0]
  /\ UNCHANGED <<board, stamp, reader, overlap>>

InvalidateStamp ==
  /\ stamp.is # "absent"
  /\ stamp' = [is |-> "absent", of |-> 0]
  /\ UNCHANGED <<board, rows, reader, overlap>>

\* Anyone edits the board.
EditBoard ==
  /\ board < MaxEdits
  /\ board' = board + 1
  /\ overlap' = (overlap \/ \E r \in Readers : Refreshing(r))
  /\ UNCHANGED <<boardFiles, reader>>

BoardTick ==
  /\ rows.is # "absent" /\ rows.age < Cooldown
  /\ rows' = [rows EXCEPT !.age = @ + 1]
  /\ UNCHANGED <<board, stamp, reader, overlap>>

-----------------------------------------------------------------------------
BoardNext ==
  \/ \E r \in Readers :
       \/ GetReads(r) \/ GetCompares(r) \/ GetAges(r) \/ GetScans(r)
       \/ GetOpens(r) \/ GetFills(r) \/ GetOpensStamp(r) \/ GetStamps(r)
       \/ FullScans(r) \/ FullOpens(r) \/ FullFills(r) \/ ReaderFails(r)
       \/ \E answers \in BOOLEAN : GetProbes(r, answers) \/ GetReprobes(r, answers)
       \/ \E force \in BOOLEAN : FullReads(r, force)
  \/ InvalidateRows \/ InvalidateStamp \/ EditBoard \/ BoardTick

BoardSpec == BoardInit /\ [][BoardNext]_boardVars

-----------------------------------------------------------------------------
(***************************************************************************)
(* What must hold.                                                         *)
(***************************************************************************)

\* get_board_items, "written together with the rows they describe": as long as no edit and
\* no other writer falls between a scan and its stamp, the rows on file are never older than
\* the stamp beside them, whatever is killed, torn, unprobed or invalidated in between.
RowsAsStamped ==
  ~overlap /\ rows.is = "whole" /\ stamp.is = "whole" => rows.of >= stamp.of

\* get_board_items, "an unchanged pair means the cached rows are still right regardless of
\* how old they are": rows served as current are the rows of the board that was probed.
ServedIsCurrent ==
  \A r \in Readers : At(r, "current") => reader[r].rows = reader[r].live
=============================================================================
