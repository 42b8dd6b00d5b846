------------------------------- MODULE ImcWaiver -------------------------------
(***************************************************************************)
(* imc_waiver.py: the IMC waiver of one issue.  The operator's line leaves *)
(* a hook record; `record` writes a pending receipt, posts the waiver and  *)
(* marks the receipt recorded; `end` stands the waiver down at an IMC stop *)
(* with the receipt itself as its journal, and `retire` archives both files*)
(* of a closed issue.  Preclose refuses forces while a receipt is present. *)
(*                                                                         *)
(* `end` and `retire` hold the key's lock; the operator's line and         *)
(* `record` do not.  Every process may be killed between any two steps.    *)
(***************************************************************************)
EXTENDS Naturals, FiniteSets

CONSTANTS Scribes,   \* runs of `imc_waiver.py record`
          Enders,    \* runs of `imc_waiver.py end`
          Retirers,  \* closed-issue runs of `retire`: the close hook, the belt
          MaxLines   \* bound on the IMC lines typed and on the ends begun

ASSUME ImcWaiverAssumption ==
  /\ MaxLines \in Nat
  /\ Scribes \cap Enders = {} /\ Scribes \cap Retirers = {} /\ Enders \cap Retirers = {}

\* A line is known by its number, in place of its granted_at; an end by its run id.
Lines == 0..MaxLines
Ends  == 0..MaxLines

VARIABLES
  lines,     \* IMC lines typed so far
  hook,      \* the hook record: the line it is of (0: no file)
  hookLive,  \* it may still start a run
  mergeable, \* a live BATCH entry of the key has an unspent merge target
  waiver,    \* the receipt file
  ends,      \* ends begun so far
  retired,   \* the archived receipts
  endLock,   \* holders of <K>.end.lock
  step,      \* the next step of each process
  mine,      \* [processes -> Lines], the line a record is about
  ending,    \* [Enders -> Ends], the journal an end works through
  readCopy,      \* [Retirers -> receipts], what retire read under the lock
  stopped,   \* the preclose receipt shows an IMC stop
  closed,    \* the issue is closed
  announced, \* lines whose waiver comment is on the issue
  farewells, \* [Ends -> Nat], `IMC ended` comments on the issue
  crossed    \* history: a record wrote under a running end or retire, or over a later line

waiverFiles == <<hook, waiver, retired>>
operatorVars == <<lines, hookLive, mergeable, stopped, closed>>
processVars == <<endLock, step, mine, ending, readCopy>>
postVars == <<announced, farewells>>
imcVars == <<waiverFiles, operatorVars, ends, processVars, postVars, crossed>>

-----------------------------------------------------------------------------
Processes == Scribes \cup Enders \cup Retirers

Receipts == [is: {"absent", "pending", "recorded", "ending"}, line: Lines, run: Ends]
NoReceipt == [is |-> "absent", line |-> 0, run |-> 0]

WaiverHeld == waiver.is # "absent"

Steps == {"idle", "checked", "pended", "posted",                          \* record
          "read", "revoke", "unhook", "find", "post", "file", "unlink",   \* end
          "hook", "look", "stamp", "move"}                                \* retire

ImcTypeOK ==
  /\ lines \in Lines /\ hook \in Lines /\ hookLive \in BOOLEAN /\ mergeable \in BOOLEAN
  /\ waiver \in Receipts
  /\ ends \in Ends
  /\ retired \subseteq [is: {"pending", "recorded", "ended"}, line: Lines, run: Ends]
  /\ endLock \subseteq (Enders \cup Retirers) /\ Cardinality(endLock) <= 1
  /\ step \in [Processes -> Steps]
  /\ mine \in [Scribes -> Lines]
  /\ ending \in [Enders -> [line: Lines, run: Ends]]
  /\ readCopy \in [Retirers -> Receipts]
  /\ stopped \in BOOLEAN /\ closed \in BOOLEAN
  /\ announced \subseteq Lines
  /\ farewells \in [Ends -> Nat]
  /\ crossed \in BOOLEAN

ImcInit ==
  /\ lines = 0 /\ hook = 0 /\ hookLive = FALSE /\ mergeable = FALSE
  /\ waiver = NoReceipt /\ ends = 0 /\ retired = {}
  /\ endLock = {}
  /\ step = [p \in Processes |-> "idle"]
  /\ mine = [s \in Scribes |-> 0]
  /\ ending = [e \in Enders |-> [line |-> 0, run |-> 0]]
  /\ readCopy = [r \in Retirers |-> NoReceipt]
  /\ stopped = FALSE /\ closed = FALSE
  /\ announced = {} /\ farewells = [n \in Ends |-> 0]
  /\ crossed = FALSE

StepTo(p, to) == step' = [step EXCEPT ![p] = to]

\* The lock goes with the process, and so does all it knew.
Dies(p) ==
  /\ step[p] # "idle"
  /\ StepTo(p, "idle")
  /\ endLock' = endLock \ {p}
  /\ mine' = [s \in Scribes |-> IF s = p THEN 0 ELSE mine[s]]
  /\ ending' = [e \in Enders |-> IF e = p THEN [line |-> 0, run |-> 0] ELSE ending[e]]
  /\ readCopy' = [r \in Retirers |-> IF r = p THEN NoReceipt ELSE readCopy[r]]
  /\ UNCHANGED <<waiverFiles, operatorVars, ends, postVars, crossed>>

-----------------------------------------------------------------------------
(***************************************************************************)
(* The operator, the clock, the review and the issue.                      *)
(***************************************************************************)

\* BATCH ... IMC <KEY>: the grant and the hook record.
TypeLine ==
  /\ lines < MaxLines /\ ~closed
  /\ lines' = lines + 1
  /\ hook' = lines + 1 /\ hookLive' = TRUE /\ mergeable' = TRUE
  /\ UNCHANGED <<waiver, retired, stopped, closed, ends, processVars, postVars, crossed>>

\* Twelve hours pass, or the grant is spent or revoked.
LineExpires ==
  /\ hookLive /\ hookLive' = FALSE
  /\ UNCHANGED <<waiverFiles, lines, mergeable, stopped, closed, ends, processVars, postVars, crossed>>

GrantGoes ==
  /\ mergeable /\ mergeable' = FALSE
  /\ UNCHANGED <<waiverFiles, lines, hookLive, stopped, closed, ends, processVars, postVars, crossed>>

\* imc_stop: the passes run under the waiver reach, or a new epoch leaves, the stop.
StopMoves ==
  /\ WaiverHeld /\ stopped' = ~stopped
  /\ UNCHANGED <<waiverFiles, lines, hookLive, mergeable, closed, ends, processVars, postVars, crossed>>

CloseIssue ==
  /\ ~closed /\ closed' = TRUE
  /\ UNCHANGED <<waiverFiles, lines, hookLive, mergeable, stopped, ends, processVars, postVars, crossed>>

-----------------------------------------------------------------------------
(***************************************************************************)
(* record: it takes no lock.                                               *)
(***************************************************************************)
Scribbles(s) == crossed' = (crossed \/ endLock # {} \/ waiver.line > mine[s])

RecordChecks(s) ==
  /\ step[s] = "idle"
  /\ hook # 0 /\ hookLive /\ mergeable
  /\ mine' = [mine EXCEPT ![s] = hook]
  /\ StepTo(s, "checked")
  /\ UNCHANGED <<waiverFiles, operatorVars, ends, endLock, ending, readCopy, postVars, crossed>>

\* A mutant: the receipt is written once the waiver is posted.
RecordPendsLate(s) ==
  /\ step[s] = "checked"
  /\ StepTo(s, "pended") /\ Scribbles(s)
  /\ UNCHANGED <<waiverFiles, operatorVars, ends, endLock, mine, ending, readCopy, postVars>>

\* Before the irreversible post, over whatever receipt is there.
RecordPends(s) ==
  /\ step[s] = "checked"
  /\ waiver' = [is |-> "pending", line |-> mine[s], run |-> 0]
  /\ StepTo(s, "pended") /\ Scribbles(s)
  /\ UNCHANGED <<hook, retired, operatorVars, ends, endLock, mine, ending, readCopy, postVars>>

RecordPosts(s) ==
  /\ step[s] = "pended"
  /\ announced' = announced \cup {mine[s]}
  /\ StepTo(s, "posted")
  /\ UNCHANGED <<waiverFiles, operatorVars, ends, endLock, mine, ending, readCopy, farewells, crossed>>

RecordConfirms(s) ==
  /\ step[s] = "posted"
  /\ waiver' = [is |-> "recorded", line |-> mine[s], run |-> 0]
  /\ mine' = [mine EXCEPT ![s] = 0]
  /\ StepTo(s, "idle") /\ Scribbles(s)
  /\ UNCHANGED <<hook, retired, operatorVars, ends, endLock, ending, readCopy, postVars>>

-----------------------------------------------------------------------------
(***************************************************************************)
(* end: one journal drives every step, from any crash point on.            *)
(***************************************************************************)
EndLocks(e) ==
  /\ step[e] = "idle" /\ endLock = {}
  /\ WaiverHeld
  /\ endLock' = {e}
  /\ StepTo(e, "read")
  /\ UNCHANGED <<waiverFiles, operatorVars, ends, mine, ending, readCopy, postVars, crossed>>

\* A mutant: nothing is revoked.
EndReadsOn(e) ==
  /\ step[e] = "read" /\ WaiverHeld
  /\ waiver.is # "ending" /\ stopped /\ ends < MaxLines
  /\ ends' = ends + 1
  /\ waiver' = [is |-> "ending", line |-> waiver.line, run |-> ends + 1]
  /\ ending' = [ending EXCEPT ![e] = [line |-> waiver'.line, run |-> waiver'.run]]
  /\ StepTo(e, "find")
  /\ UNCHANGED <<hook, retired, operatorVars, endLock, mine, readCopy, postVars, crossed>>

\* Resume the journal, or start one if the issue is at a stop.
EndReads(e) ==
  /\ step[e] = "read" /\ WaiverHeld
  /\ IF waiver.is = "ending"
     THEN UNCHANGED <<waiver, ends>>
     ELSE /\ stopped /\ ends < MaxLines
          /\ ends' = ends + 1
          /\ waiver' = [is |-> "ending", line |-> waiver.line, run |-> ends + 1]
  /\ ending' = [ending EXCEPT ![e] = [line |-> waiver'.line, run |-> waiver'.run]]
  /\ StepTo(e, "revoke")
  /\ UNCHANGED <<hook, retired, operatorVars, endLock, mine, readCopy, postVars, crossed>>

\* _revoke_authority: the merge grant, then the hook record.
EndRevokes(e) ==
  /\ step[e] = "revoke"
  /\ mergeable' = FALSE
  /\ StepTo(e, "unhook")
  /\ UNCHANGED <<waiverFiles, lines, hookLive, stopped, closed, ends, endLock, mine, ending, readCopy,
                 postVars, crossed>>

EndUnhooks(e) ==
  /\ step[e] = "unhook"
  /\ hook' = 0
  /\ StepTo(e, "find")
  /\ UNCHANGED <<waiver, retired, operatorVars, ends, endLock, mine, ending, readCopy, postVars, crossed>>

\* A mutant: the end is filed before its comment.
EndFindsUnposted(e) ==
  /\ step[e] = "find"
  /\ StepTo(e, "file")
  /\ UNCHANGED <<waiverFiles, operatorVars, ends, endLock, mine, ending, readCopy, postVars, crossed>>

\* _existing_end_comment: this run's own comment is on the issue already.
EndFinds(e) ==
  /\ step[e] = "find"
  /\ StepTo(e, IF farewells[ending[e].run] > 0 THEN "file" ELSE "post")
  /\ UNCHANGED <<waiverFiles, operatorVars, ends, endLock, mine, ending, readCopy, postVars, crossed>>

EndPosts(e) ==
  /\ step[e] = "post"
  /\ farewells' = [farewells EXCEPT ![ending[e].run] = @ + 1]
  /\ StepTo(e, "file")
  /\ UNCHANGED <<waiverFiles, operatorVars, ends, endLock, mine, ending, readCopy, announced, crossed>>

EndFiles(e) ==
  /\ step[e] = "file"
  /\ retired' = retired \cup {[is |-> "ended", line |-> ending[e].line, run |-> ending[e].run]}
  /\ StepTo(e, "unlink")
  /\ UNCHANGED <<hook, waiver, operatorVars, ends, endLock, mine, ending, readCopy, postVars, crossed>>

EndUnlinks(e) ==
  /\ step[e] = "unlink"
  /\ waiver' = NoReceipt
  /\ endLock' = endLock \ {e}
  /\ ending' = [ending EXCEPT ![e] = [line |-> 0, run |-> 0]]
  /\ StepTo(e, "idle")
  /\ UNCHANGED <<hook, retired, operatorVars, ends, mine, readCopy, postVars, crossed>>

-----------------------------------------------------------------------------
(***************************************************************************)
(* retire: the issue is closed; an end that is under way goes first.       *)
(***************************************************************************)
RetireLocks(r) ==
  /\ step[r] = "idle" /\ closed /\ endLock = {}
  /\ hook # 0 \/ WaiverHeld
  /\ waiver.is # "ending"
  /\ endLock' = {r}
  /\ StepTo(r, "hook")
  /\ UNCHANGED <<waiverFiles, operatorVars, ends, mine, ending, readCopy, postVars, crossed>>

RetireMovesHook(r) ==
  /\ step[r] = "hook"
  /\ hook' = 0
  /\ StepTo(r, "look")
  /\ UNCHANGED <<waiver, retired, operatorVars, ends, endLock, mine, ending, readCopy, postVars, crossed>>

Unlocks(r) ==
  /\ endLock' = endLock \ {r}
  /\ readCopy' = [readCopy EXCEPT ![r] = NoReceipt]
  /\ StepTo(r, "idle")

RetireLooks(r) ==
  /\ step[r] = "look"
  /\ IF WaiverHeld
     THEN /\ readCopy' = [readCopy EXCEPT ![r] = waiver]
          /\ StepTo(r, "stamp")
          /\ UNCHANGED endLock
     ELSE Unlocks(r)
  /\ UNCHANGED <<waiverFiles, operatorVars, ends, mine, ending, postVars, crossed>>

\* The receipt as it was read, with the time it retired.
RetireStamps(r) ==
  /\ step[r] = "stamp"
  /\ waiver' = readCopy[r]
  /\ StepTo(r, "move")
  /\ UNCHANGED <<hook, retired, operatorVars, ends, endLock, mine, ending, readCopy, postVars, crossed>>

RetireMovesReceipt(r) ==
  /\ step[r] = "move"
  /\ retired' = retired \cup {waiver}
  /\ waiver' = NoReceipt
  /\ Unlocks(r)
  /\ UNCHANGED <<hook, operatorVars, ends, mine, ending, postVars, crossed>>

-----------------------------------------------------------------------------
ImcNext ==
  \/ TypeLine \/ LineExpires \/ GrantGoes \/ StopMoves \/ CloseIssue
  \/ \E s \in Scribes :
       RecordChecks(s) \/ RecordPends(s) \/ RecordPosts(s) \/ RecordConfirms(s)
  \/ \E e \in Enders :
       \/ EndLocks(e) \/ EndReads(e) \/ EndRevokes(e) \/ EndUnhooks(e)
       \/ EndFinds(e) \/ EndPosts(e) \/ EndFiles(e) \/ EndUnlinks(e)
  \/ \E r \in Retirers :
       \/ RetireLocks(r) \/ RetireMovesHook(r) \/ RetireLooks(r)
       \/ RetireStamps(r) \/ RetireMovesReceipt(r)
  \/ \E p \in Processes : Dies(p)

ImcSpec == ImcInit /\ [][ImcNext]_imcVars

-----------------------------------------------------------------------------
(***************************************************************************)
(* What must hold.                                                         *)
(***************************************************************************)

\* "A retry from any crash point resumes that journal": an end is announced at most once
\* however often it is interrupted, and is on file only once it was announced.
EndedOnce ==
  /\ \A n \in Ends : farewells[n] <= 1
  /\ \A a \in retired : a.is = "ended" => farewells[a.run] = 1

\* "so IMC stays enforced until the record is complete": a waiver that is on the issue
\* keeps a receipt in place until an archived one is of its line or a later one.  A record
\* that writes under a running end or retire, or over a later line's receipt, is outside it.
WaiverEnforced ==
  ~crossed => \A g \in announced : WaiverHeld \/ \E a \in retired : a.line >= g

\* _revoke_authority, "neither a lane merge nor a `record` re-run survives `end`": no record
\* starts on the line of an end that is on file.
EndedStaysEnded ==
  [][\A s \in Scribes :
       step[s] = "idle" /\ step'[s] = "checked" =>
         \A a \in retired : a.is = "ended" => a.line < mine'[s]]_imcVars
=============================================================================
