--------------------------- MODULE Lanes_proofs -----------------------------
(***************************************************************************)
(* Proofs about the IMC waiver, for any number of processes, lines and     *)
(* ends.  An end is safe to retry because its journal is the receipt; what *)
(* has to be shown is that no other process comes between the steps of one *)
(* under the lock, and that a record, which takes no lock, cannot bring    *)
(* back what an end removed.  At the end, BATCH, the review and the waiver *)
(* together.                                                               *)
(***************************************************************************)
EXTENDS MCLanes, BatchAuth_proofs, Preclose_proofs

\* ImcTypeOK, without the count of the lock's holders.
ImcTypes ==
  /\ lines \in Lines /\ hook \in Lines /\ hookLive \in BOOLEAN /\ mergeable \in BOOLEAN
  /\ waiver \in Receipts
  /\ ends \in Ends
  /\ retired \subseteq [is: {"pending", "recorded", "ended"}, line: Lines, run: Ends]
  /\ step \in [Processes -> Steps]
  /\ mine \in [Scribes -> Lines]
  /\ ending \in [Enders -> [line: Lines, run: Ends]]
  /\ readCopy \in [Retirers -> Receipts]
  /\ stopped \in BOOLEAN /\ closed \in BOOLEAN
  /\ announced \subseteq Lines
  /\ farewells \in [Ends -> Nat]
  /\ crossed \in BOOLEAN

EndSteps    == {"read", "revoke", "unhook", "find", "post", "file", "unlink"}
RetireSteps == {"hook", "look", "stamp", "move"}

\* Whoever is inside `end` or `retire` holds the lock, alone.
OneInside ==
  /\ endLock \subseteq Enders \cup Retirers
  /\ \A p, q \in endLock : p = q
  /\ \A p \in Enders \cup Retirers : step[p] # "idle" => p \in endLock
  /\ \A e \in Enders : step[e] \in {"idle"} \cup EndSteps
  /\ \A r \in Retirers : step[r] \in {"idle"} \cup RetireSteps
  /\ \A s \in Scribes : step[s] \in {"idle", "checked", "pended", "posted"}

\* No retire reads a receipt that is ending, and no record makes one.
RetireReads ==
  \A r \in Retirers :
    /\ step[r] \in RetireSteps => waiver.is # "ending"
    /\ step[r] = "stamp" => readCopy[r].is \in {"pending", "recorded"}
    /\ step[r] = "move" => waiver.is \in {"pending", "recorded"}

WaiverTypes == ImcTypes /\ OneInside /\ RetireReads

-----------------------------------------------------------------------------
\* The step of a process, whoever it is.
ScribeStep(s) == RecordChecks(s) \/ RecordPends(s) \/ RecordPosts(s) \/ RecordConfirms(s)

EndStep(e) ==
  \/ EndLocks(e) \/ EndReads(e) \/ EndRevokes(e) \/ EndUnhooks(e)
  \/ EndFinds(e) \/ EndPosts(e) \/ EndFiles(e) \/ EndUnlinks(e)

RetireStep(r) ==
  \/ RetireLocks(r) \/ RetireMovesHook(r) \/ RetireLooks(r)
  \/ RetireStamps(r) \/ RetireMovesReceipt(r)

Outside == TypeLine \/ LineExpires \/ GrantGoes \/ StopMoves \/ CloseIssue

LEMMA WaiverTypesInit == ImcInit => WaiverTypes
<1> SUFFICES ASSUME ImcInit PROVE WaiverTypes
  OBVIOUS
<1> USE ImcWaiverAssumption DEF ImcInit
<1>1. 0 \in Lines /\ 0 \in Ends
  BY DEF Lines, Ends
<1>2. ImcTypes
  BY <1>1 DEF ImcTypes, Receipts, NoReceipt, Steps
<1>3. OneInside /\ RetireReads
  BY DEF OneInside, RetireReads, NoReceipt, EndSteps, RetireSteps, Processes
<1> QED
  BY <1>2, <1>3 DEF WaiverTypes

LEMMA TypesStep ==
  ASSUME WaiverTypes, [ImcNext]_imcVars PROVE ImcTypes'
<1> USE ImcWaiverAssumption DEF WaiverTypes, ImcTypes, Lines, Ends
<1>1. CASE Outside
  <2>1. CASE TypeLine
    BY <2>1 DEF TypeLine, processVars, postVars
  <2>2. CASE LineExpires
    BY <2>2 DEF LineExpires, waiverFiles, processVars, postVars
  <2>3. CASE GrantGoes
    BY <2>3 DEF GrantGoes, waiverFiles, processVars, postVars
  <2>4. CASE StopMoves
    BY <2>4 DEF StopMoves, waiverFiles, processVars, postVars
  <2>5. CASE CloseIssue
    BY <2>5 DEF CloseIssue, waiverFiles, processVars, postVars
  <2> QED
    BY <1>1, <2>1, <2>2, <2>3, <2>4, <2>5 DEF Outside
<1>2. ASSUME NEW s \in Scribes, ScribeStep(s) PROVE ImcTypes'
  <2> s \in Processes
    BY DEF Processes
  <2>1. CASE RecordChecks(s)
    BY <2>1 DEF RecordChecks, StepTo, Steps, waiverFiles, operatorVars, postVars
  <2>2. CASE RecordPends(s)
    BY <2>2 DEF RecordPends, StepTo, Steps, Scribbles, Receipts, operatorVars, postVars
  <2>3. CASE RecordPosts(s)
    BY <2>3 DEF RecordPosts, StepTo, Steps, waiverFiles, operatorVars
  <2>4. CASE RecordConfirms(s)
    <3>1. waiver' \in Receipts
      BY <2>4 DEF RecordConfirms, Receipts
    <3>2. mine' \in [Scribes -> Lines] /\ step' \in [Processes -> Steps]
      BY <2>4 DEF RecordConfirms, StepTo, Steps
    <3> QED
      BY <2>4, <3>1, <3>2 DEF RecordConfirms, Scribbles, operatorVars, postVars
  <2> QED
    BY <1>2, <2>1, <2>2, <2>3, <2>4 DEF ScribeStep
<1>3. ASSUME NEW e \in Enders, EndStep(e) PROVE ImcTypes'
  <2> e \in Processes
    BY DEF Processes
  <2>1. CASE EndLocks(e)
    BY <2>1 DEF EndLocks, StepTo, Steps, waiverFiles, operatorVars, postVars
  <2>2. CASE EndReads(e)
    <3>1. waiver' \in Receipts /\ ends' \in Ends
      BY <2>2 DEF EndReads, Receipts
    <3>2. [line |-> waiver'.line, run |-> waiver'.run] \in [line: Lines, run: Ends]
      BY <3>1 DEF Receipts
    <3>3. ending' \in [Enders -> [line: Lines, run: Ends]]
      BY <2>2, <3>2 DEF EndReads
    <3> QED
      BY <2>2, <3>1, <3>3 DEF EndReads, StepTo, Steps, operatorVars, postVars
  <2>3. CASE EndRevokes(e)
    BY <2>3 DEF EndRevokes, StepTo, Steps, waiverFiles, postVars
  <2>4. CASE EndUnhooks(e)
    BY <2>4 DEF EndUnhooks, StepTo, Steps, operatorVars, postVars
  <2>5. CASE EndFinds(e)
    BY <2>5 DEF EndFinds, StepTo, Steps, waiverFiles, operatorVars, postVars
  <2>6. CASE EndPosts(e)
    BY <2>6 DEF EndPosts, StepTo, Steps, waiverFiles, operatorVars
  <2>7. CASE EndFiles(e)
    <3>1. [is |-> "ended", line |-> ending[e].line, run |-> ending[e].run]
            \in [is: {"pending", "recorded", "ended"}, line: Lines, run: Ends]
      OBVIOUS
    <3>2. step' \in [Processes -> Steps]
      BY <2>7 DEF EndFiles, StepTo, Steps
    <3> QED
      BY <2>7, <3>1, <3>2 DEF EndFiles, operatorVars, postVars
  <2>8. CASE EndUnlinks(e)
    <3>1. waiver' \in Receipts
      BY <2>8 DEF EndUnlinks, Receipts, NoReceipt
    <3>2. ending' \in [Enders -> [line: Lines, run: Ends]] /\ step' \in [Processes -> Steps]
      BY <2>8 DEF EndUnlinks, StepTo, Steps
    <3> QED
      BY <2>8, <3>1, <3>2 DEF EndUnlinks, operatorVars, postVars
  <2> QED
    BY <1>3, <2>1, <2>2, <2>3, <2>4, <2>5, <2>6, <2>7, <2>8 DEF EndStep
<1>4. ASSUME NEW r \in Retirers, RetireStep(r) PROVE ImcTypes'
  <2> r \in Processes
    BY DEF Processes
  <2> NoReceipt \in Receipts
    BY DEF NoReceipt, Receipts
  <2>1. CASE RetireLocks(r)
    BY <2>1 DEF RetireLocks, StepTo, Steps, waiverFiles, operatorVars, postVars
  <2>2. CASE RetireMovesHook(r)
    BY <2>2 DEF RetireMovesHook, StepTo, Steps, operatorVars, postVars
  <2>3. CASE RetireLooks(r)
    BY <2>3 DEF RetireLooks, StepTo, Steps, Unlocks, waiverFiles, operatorVars, postVars
  <2>4. CASE RetireStamps(r)
    BY <2>4 DEF RetireStamps, StepTo, Steps, operatorVars, postVars
  <2>5. CASE RetireMovesReceipt(r)
    <3>1. waiver.is \in {"pending", "recorded"}
      BY <2>5 DEF RetireMovesReceipt, RetireReads
    <3>2. waiver \in [is: {"pending", "recorded", "ended"}, line: Lines, run: Ends]
      BY <3>1 DEF Receipts
    <3> QED
      BY <2>5, <3>2 DEF RetireMovesReceipt, StepTo, Steps, Unlocks, operatorVars, postVars
  <2> QED
    BY <1>4, <2>1, <2>2, <2>3, <2>4, <2>5 DEF RetireStep
<1>5. ASSUME NEW p \in Processes, Dies(p) PROVE ImcTypes'
  BY <1>5 DEF Dies, StepTo, Steps, NoReceipt, Receipts, waiverFiles, operatorVars, postVars
<1>6. CASE UNCHANGED imcVars
  BY <1>6 DEF imcVars, waiverFiles, operatorVars, processVars, postVars
<1> QED
  BY <1>1, <1>2, <1>3, <1>4, <1>5, <1>6 DEF ImcNext, Outside, ScribeStep, EndStep, RetireStep

-----------------------------------------------------------------------------
LEMMA OneInsideStep ==
  ASSUME WaiverTypes, [ImcNext]_imcVars PROVE OneInside'
<1> USE ImcWaiverAssumption DEF WaiverTypes, ImcTypes, OneInside, EndSteps, RetireSteps, Processes
<1>1. CASE UNCHANGED <<step, endLock>>
  BY <1>1
<1>2. CASE Outside
  BY <1>1, <1>2 DEF Outside, TypeLine, LineExpires, GrantGoes, StopMoves, CloseIssue, processVars
<1>3. ASSUME NEW s \in Scribes, ScribeStep(s) PROVE OneInside'
  <2>1. PICK to \in {"idle", "checked", "pended", "posted"} : StepTo(s, to)
    BY <1>3 DEF ScribeStep, RecordChecks, RecordPends, RecordPosts, RecordConfirms
  <2>2. endLock' = endLock
    BY <1>3 DEF ScribeStep, RecordChecks, RecordPends, RecordPosts, RecordConfirms
  <2> QED
    BY <2>1, <2>2 DEF StepTo
<1>4. ASSUME NEW e \in Enders, EndStep(e) PROVE OneInside'
  <2>1. CASE EndLocks(e)
    BY <2>1 DEF EndLocks, StepTo
  <2>2. CASE EndUnlinks(e)
    BY <2>2 DEF EndUnlinks, StepTo
  <2>3. CASE ~EndLocks(e) /\ ~EndUnlinks(e)
    <3>1. PICK to \in EndSteps : StepTo(e, to) /\ step[e] # "idle"
      BY <1>4, <2>3 DEF EndStep, EndReads, EndRevokes, EndUnhooks, EndFinds, EndPosts, EndFiles
    <3>2. endLock' = endLock
      BY <1>4, <2>3 DEF EndStep, EndReads, EndRevokes, EndUnhooks, EndFinds, EndPosts, EndFiles
    <3> QED
      BY <3>1, <3>2 DEF StepTo
  <2> QED
    BY <2>1, <2>2, <2>3
<1>5. ASSUME NEW r \in Retirers, RetireStep(r) PROVE OneInside'
  <2>1. CASE RetireLocks(r)
    BY <2>1 DEF RetireLocks, StepTo
  <2>2. CASE Unlocks(r)
    BY <2>2 DEF Unlocks, StepTo
  <2>3. CASE ~RetireLocks(r) /\ ~Unlocks(r)
    <3>1. PICK to \in RetireSteps : StepTo(r, to) /\ step[r] # "idle"
      BY <1>5, <2>3 DEF RetireStep, RetireMovesHook, RetireLooks, RetireStamps, RetireMovesReceipt
    <3>2. endLock' = endLock
      BY <1>5, <2>3 DEF RetireStep, RetireMovesHook, RetireLooks, RetireStamps, RetireMovesReceipt
    <3> QED
      BY <3>1, <3>2 DEF StepTo
  <2> QED
    BY <2>1, <2>2, <2>3
<1>6. ASSUME NEW p \in Processes, Dies(p) PROVE OneInside'
  BY <1>6 DEF Dies, StepTo
<1>7. CASE UNCHANGED imcVars
  BY <1>1, <1>7 DEF imcVars, processVars
<1> QED
  BY <1>2, <1>3, <1>4, <1>5, <1>6, <1>7 DEF ImcNext, Outside, ScribeStep, EndStep, RetireStep

LEMMA RetireReadsStep ==
  ASSUME WaiverTypes, [ImcNext]_imcVars PROVE RetireReads'
<1> USE ImcWaiverAssumption DEF WaiverTypes, ImcTypes, RetireReads, EndSteps, RetireSteps, Processes
<1>1. CASE UNCHANGED <<step, waiver, readCopy>>
  BY <1>1
<1>2. CASE Outside
  BY <1>1, <1>2 DEF Outside, TypeLine, LineExpires, GrantGoes, StopMoves, CloseIssue, processVars, waiverFiles
<1>3. ASSUME NEW s \in Scribes, ScribeStep(s) PROVE RetireReads'
  <2>1. \A r \in Retirers : step'[r] = step[r]
    BY <1>3 DEF ScribeStep, RecordChecks, RecordPends, RecordPosts, RecordConfirms, StepTo
  <2>2. readCopy' = readCopy /\ (waiver' = waiver \/ waiver'.is \in {"pending", "recorded"})
    BY <1>3 DEF ScribeStep, RecordChecks, RecordPends, RecordPosts, RecordConfirms, waiverFiles
  <2> QED
    BY <2>1, <2>2
<1>4. ASSUME NEW e \in Enders, EndStep(e) PROVE RetireReads'
  <2>1. \A r \in Retirers : step'[r] = step[r]
    BY <1>4 DEF EndStep, EndLocks, EndReads, EndRevokes, EndUnhooks, EndFinds, EndPosts, EndFiles, EndUnlinks, StepTo
  <2>2. readCopy' = readCopy
    BY <1>4 DEF EndStep, EndLocks, EndReads, EndRevokes, EndUnhooks, EndFinds, EndPosts, EndFiles, EndUnlinks
  <2>3. waiver' = waiver \/ \A r \in Retirers : step[r] = "idle"
    <3>1. CASE EndReads(e) \/ EndUnlinks(e)
      BY <3>1 DEF EndReads, EndUnlinks, OneInside
    <3> QED
      BY <1>4, <3>1 DEF EndStep, EndLocks, EndRevokes, EndUnhooks, EndFinds, EndPosts, EndFiles, waiverFiles
  <2> QED
    BY <2>1, <2>2, <2>3
<1>5. ASSUME NEW r \in Retirers, RetireStep(r) PROVE RetireReads'
  <2>1. \A q \in Retirers \ {r} : step[q] = "idle" /\ step'[q] = "idle"
    BY <1>5 DEF RetireStep, RetireLocks, RetireMovesHook, RetireLooks, RetireStamps, RetireMovesReceipt, Unlocks,
                StepTo, OneInside
  <2>2. CASE RetireLocks(r) \/ RetireMovesHook(r)
    BY <2>1, <2>2 DEF RetireLocks, RetireMovesHook, StepTo, waiverFiles
  <2>3. CASE RetireLooks(r)
    BY <2>1, <2>3 DEF RetireLooks, Unlocks, StepTo, WaiverHeld, Receipts, waiverFiles
  <2>4. CASE RetireStamps(r)
    BY <2>1, <2>4 DEF RetireStamps, StepTo
  <2>5. CASE RetireMovesReceipt(r)
    BY <2>1, <2>5 DEF RetireMovesReceipt, Unlocks, StepTo
  <2> QED
    BY <1>5, <2>2, <2>3, <2>4, <2>5 DEF RetireStep
<1>6. ASSUME NEW p \in Processes, Dies(p) PROVE RetireReads'
  BY <1>6 DEF Dies, StepTo, waiverFiles
<1>7. CASE UNCHANGED imcVars
  BY <1>1, <1>7 DEF imcVars, processVars, waiverFiles
<1> QED
  BY <1>2, <1>3, <1>4, <1>5, <1>6, <1>7 DEF ImcNext, Outside, ScribeStep, EndStep, RetireStep

LEMMA WaiverTypesStep == WaiverTypes /\ [ImcNext]_imcVars => WaiverTypes'
  BY TypesStep, OneInsideStep, RetireReadsStep DEF WaiverTypes

\* At most one process is inside `end` or `retire`; the rest are types.
THEOREM ImcTypeCorrect == ImcSpec => []ImcTypeOK
<1>1. WaiverTypes => ImcTypeOK
  <2> SUFFICES ASSUME WaiverTypes PROVE Cardinality(endLock) <= 1
    BY DEF WaiverTypes, ImcTypes, OneInside, ImcTypeOK
  <2>1. CASE endLock = {}
    BY <2>1, FS_EmptySet
  <2>2. ASSUME NEW p \in endLock PROVE Cardinality(endLock) <= 1
    <3>1. endLock = {p}
      BY DEF WaiverTypes, OneInside
    <3>2. Cardinality({p}) = 1
      BY FS_Singleton, Zenon
    <3> QED
      BY <3>1, <3>2
  <2> QED
    BY <2>1, <2>2
<1> QED
  BY <1>1, WaiverTypesInit, WaiverTypesStep, PTL DEF ImcSpec

-----------------------------------------------------------------------------
(***************************************************************************)
(* An end is announced once.                                               *)
(***************************************************************************)

\* What an end found about its comment stays so until it has used it.
FoundStays ==
  \A e \in Enders :
    /\ step[e] = "post" => farewells[ending[e].run] = 0
    /\ step[e] \in {"file", "unlink"} => farewells[ending[e].run] = 1

EndedInv == WaiverTypes /\ FoundStays /\ EndedOnce

LEMMA EndedInit == ImcInit => EndedInv
  BY WaiverTypesInit DEF ImcInit, EndedInv, FoundStays, EndedOnce, Processes

\* Under the lock no other end has a step to take.
LEMMA OthersRest ==
  ASSUME WaiverTypes, NEW e \in Enders, EndStep(e)
  PROVE  \A f \in Enders \ {e} : step[f] = "idle" /\ step'[f] = "idle"
<1>1. \A f \in Enders \ {e} : step[f] = "idle"
  BY DEF WaiverTypes, OneInside, EndStep, EndLocks, EndReads, EndRevokes, EndUnhooks, EndFinds, EndPosts, EndFiles,
         EndUnlinks
<1>2. \A f \in Enders \ {e} : step'[f] = step[f]
  BY DEF WaiverTypes, ImcTypes, EndStep, EndLocks, EndReads, EndRevokes, EndUnhooks, EndFinds, EndPosts, EndFiles,
         EndUnlinks, StepTo, Processes
<1> QED
  BY <1>1, <1>2

LEMMA EndedStep == EndedInv /\ [ImcNext]_imcVars => EndedInv'
<1> SUFFICES ASSUME EndedInv, [ImcNext]_imcVars PROVE FoundStays' /\ EndedOnce'
  BY WaiverTypesStep DEF EndedInv
<1> USE ImcWaiverAssumption DEF EndedInv, WaiverTypes, ImcTypes, Processes
<1>1. CASE UNCHANGED <<step, ending, farewells, retired>>
  BY <1>1 DEF FoundStays, EndedOnce
<1>2. CASE Outside
  BY <1>1, <1>2 DEF Outside, TypeLine, LineExpires, GrantGoes, StopMoves, CloseIssue, processVars, waiverFiles, postVars
<1>3. ASSUME NEW s \in Scribes, ScribeStep(s) PROVE FoundStays' /\ EndedOnce'
  <2>1. \A e \in Enders : step'[e] = step[e]
    BY <1>3 DEF ScribeStep, RecordChecks, RecordPends, RecordPosts, RecordConfirms, StepTo
  <2>2. UNCHANGED <<ending, farewells, retired>>
    BY <1>3 DEF ScribeStep, RecordChecks, RecordPends, RecordPosts, RecordConfirms, waiverFiles, postVars
  <2> QED
    BY <2>1, <2>2 DEF FoundStays, EndedOnce
<1>4. ASSUME NEW e \in Enders, EndStep(e) PROVE FoundStays' /\ EndedOnce'
  <2> USE <1>4, OthersRest
  <2>1. CASE EndPosts(e)
    <3>1. farewells[ending[e].run] = 0
      BY <2>1 DEF EndPosts, FoundStays
    <3>2. farewells' = [farewells EXCEPT ![ending[e].run] = 1]
      BY <2>1, <3>1 DEF EndPosts
    <3>3. FoundStays'
      BY <2>1, <3>2 DEF EndPosts, FoundStays, StepTo
    <3>4. EndedOnce'
      BY <2>1, <3>1, <3>2 DEF EndPosts, EndedOnce, waiverFiles
    <3> QED
      BY <3>3, <3>4
  <2>2. CASE EndFinds(e)
    <3>1. ending[e].run \in Ends /\ farewells[ending[e].run] \in Nat /\ farewells[ending[e].run] <= 1
      BY DEF EndedOnce
    <3> QED
      BY <2>2, <3>1 DEF EndFinds, EndedOnce, FoundStays, StepTo, waiverFiles, postVars
  <2>3. CASE EndFiles(e)
    <3>1. farewells[ending[e].run] = 1
      BY <2>3 DEF EndFiles, FoundStays
    <3>2. FoundStays'
      BY <2>3, <3>1 DEF EndFiles, FoundStays, StepTo, postVars
    <3>3. EndedOnce'
      BY <2>3, <3>1 DEF EndFiles, EndedOnce, postVars
    <3> QED
      BY <3>2, <3>3
  <2>4. CASE EndLocks(e) \/ EndReads(e) \/ EndRevokes(e) \/ EndUnhooks(e) \/ EndUnlinks(e)
    <3>1. step'[e] \in {"read", "revoke", "unhook", "find", "idle"}
      BY <2>4 DEF EndLocks, EndReads, EndRevokes, EndUnhooks, EndUnlinks, StepTo
    <3>2. UNCHANGED <<farewells, retired>>
      BY <2>4 DEF EndLocks, EndReads, EndRevokes, EndUnhooks, EndUnlinks, waiverFiles, postVars
    <3> QED
      BY <3>1, <3>2 DEF FoundStays, EndedOnce
  <2> QED
    BY <1>4, <2>1, <2>2, <2>3, <2>4 DEF EndStep
<1>5. ASSUME NEW r \in Retirers, RetireStep(r) PROVE FoundStays' /\ EndedOnce'
  <2>1. \A e \in Enders : step'[e] = step[e]
    BY <1>5 DEF RetireStep, RetireLocks, RetireMovesHook, RetireLooks, RetireStamps, RetireMovesReceipt, Unlocks, StepTo
  <2>2. UNCHANGED <<ending, farewells>>
    BY <1>5 DEF RetireStep, RetireLocks, RetireMovesHook, RetireLooks, RetireStamps, RetireMovesReceipt, postVars
  <2>3. \A a \in retired' : a \in retired \/ a.is # "ended"
    BY <1>5 DEF RetireStep, RetireLocks, RetireMovesHook, RetireLooks, RetireStamps, RetireMovesReceipt, waiverFiles,
                RetireReads
  <2> QED
    BY <2>1, <2>2, <2>3 DEF FoundStays, EndedOnce
<1>6. ASSUME NEW p \in Processes, Dies(p) PROVE FoundStays' /\ EndedOnce'
  BY <1>6 DEF Dies, StepTo, waiverFiles, postVars, FoundStays, EndedOnce
<1>7. CASE UNCHANGED imcVars
  BY <1>1, <1>7 DEF imcVars, processVars, waiverFiles, postVars
<1> QED
  BY <1>2, <1>3, <1>4, <1>5, <1>6, <1>7 DEF ImcNext, Outside, ScribeStep, EndStep, RetireStep

\* `end` is safe to retry from any crash point: one announcement per end, and an end on
\* file was announced.
THEOREM EndedOnceAlways == ImcSpec => []EndedOnce
<1>1. EndedInv => EndedOnce
  BY DEF EndedInv
<1> QED
  BY <1>1, EndedInit, EndedStep, PTL DEF ImcSpec

-----------------------------------------------------------------------------
(***************************************************************************)
(* An ended waiver stays ended.                                            *)
(***************************************************************************)

\* Whatever a process or a file remembers is of a line that was typed.
LinesTyped ==
  /\ hook <= lines /\ waiver.line <= lines
  /\ \A s \in Scribes : mine[s] <= lines
  /\ \A e \in Enders : ending[e].line <= lines
  /\ \A r \in Retirers : readCopy[r].line <= lines
  /\ \A a \in retired : a.line <= lines

\* From the removal of the hook record on, only a later line has one.
UnhookedStays ==
  \A e \in Enders : step[e] \in {"find", "post", "file"} => hook = 0 \/ ending[e].line < hook

\* The hook record is of a later line than any end on file.
HookIsLater ==
  hook # 0 => \A a \in retired : a.is = "ended" => a.line < hook

HookInv == WaiverTypes /\ LinesTyped /\ UnhookedStays /\ HookIsLater

LEMMA HookInit == ImcInit => HookInv
  BY WaiverTypesInit DEF ImcInit, HookInv, LinesTyped, UnhookedStays, HookIsLater, NoReceipt, Processes

LEMMA LinesTypedStep ==
  ASSUME WaiverTypes, LinesTyped, [ImcNext]_imcVars PROVE LinesTyped'
<1> USE ImcWaiverAssumption DEF WaiverTypes, ImcTypes, LinesTyped, Lines, Receipts
<1>1. lines' \in Nat /\ lines <= lines'
  BY DEF ImcNext, TypeLine, LineExpires, GrantGoes, StopMoves, CloseIssue, RecordChecks, RecordPends, RecordPosts,
     RecordConfirms, EndLocks, EndReads, EndRevokes, EndUnhooks, EndFinds, EndPosts, EndFiles, EndUnlinks,
     RetireLocks, RetireMovesHook, RetireLooks, RetireStamps, RetireMovesReceipt, Dies, imcVars, operatorVars
<1>2. CASE UNCHANGED <<waiver, retired, mine, ending, readCopy>> /\ hook' \in {hook, 0, lines'}
  BY <1>1, <1>2
<1>3. CASE Outside
  BY <1>2, <1>3 DEF Outside, TypeLine, LineExpires, GrantGoes, StopMoves, CloseIssue, processVars, waiverFiles
<1>4. ASSUME NEW s \in Scribes, ScribeStep(s) PROVE LinesTyped'
  <2>1. CASE RecordChecks(s)
    BY <2>1 DEF RecordChecks, waiverFiles, operatorVars
  <2>2. CASE RecordPends(s)
    BY <2>2 DEF RecordPends, operatorVars
  <2>3. CASE RecordPosts(s)
    BY <2>3 DEF RecordPosts, waiverFiles, operatorVars
  <2>4. CASE RecordConfirms(s)
    BY <2>4 DEF RecordConfirms, operatorVars
  <2> QED
    BY <1>4, <2>1, <2>2, <2>3, <2>4 DEF ScribeStep
<1>5. ASSUME NEW e \in Enders, EndStep(e) PROVE LinesTyped'
  <2>1. CASE EndReads(e)
    <3>1. waiver'.line = waiver.line /\ ending' = [ending EXCEPT ![e] = [line |-> waiver'.line, run |-> waiver'.run]]
      BY <2>1 DEF EndReads
    <3>2. \A f \in Enders : ending'[f].line \in {ending[f].line, waiver.line}
      BY <3>1
    <3> QED
      BY <2>1, <3>1, <3>2 DEF EndReads, operatorVars
  <2>2. CASE EndUnlinks(e)
    <3>1. \A f \in Enders : ending'[f].line \in {ending[f].line, 0}
      BY <2>2 DEF EndUnlinks
    <3> QED
      BY <2>2, <3>1 DEF EndUnlinks, NoReceipt, operatorVars
  <2>3. CASE EndFiles(e)
    BY <2>3 DEF EndFiles, operatorVars
  <2> QED
    BY <1>2, <1>5, <2>1, <2>2, <2>3 DEF EndStep, EndLocks, EndRevokes, EndUnhooks, EndFinds, EndPosts, waiverFiles
<1>6. ASSUME NEW r \in Retirers, RetireStep(r) PROVE LinesTyped'
  <2>1. CASE RetireLocks(r) \/ RetireMovesHook(r)
    BY <1>2, <2>1 DEF RetireLocks, RetireMovesHook, waiverFiles
  <2>2. CASE RetireLooks(r)
    BY <2>2 DEF RetireLooks, Unlocks, NoReceipt, waiverFiles, operatorVars
  <2>3. CASE RetireStamps(r)
    BY <2>3 DEF RetireStamps, operatorVars
  <2>4. CASE RetireMovesReceipt(r)
    BY <2>4 DEF RetireMovesReceipt, Unlocks, NoReceipt, operatorVars
  <2> QED
    BY <1>6, <2>1, <2>2, <2>3, <2>4 DEF RetireStep
<1>7. ASSUME NEW p \in Processes, Dies(p) PROVE LinesTyped'
  BY <1>7 DEF Dies, NoReceipt, waiverFiles, operatorVars
<1>8. CASE UNCHANGED imcVars
  BY <1>2, <1>8 DEF imcVars, processVars, waiverFiles
<1> QED
  BY <1>3, <1>4, <1>5, <1>6, <1>7, <1>8 DEF ImcNext, Outside, ScribeStep, EndStep, RetireStep

LEMMA HookStep == HookInv /\ [ImcNext]_imcVars => HookInv'
<1> SUFFICES ASSUME HookInv, [ImcNext]_imcVars PROVE UnhookedStays' /\ HookIsLater'
  BY WaiverTypesStep, LinesTypedStep DEF HookInv
<1> USE ImcWaiverAssumption DEF HookInv, WaiverTypes, ImcTypes, Processes, Lines, UnhookedStays, HookIsLater
<1>1. CASE hook' \in {hook, 0} /\ UNCHANGED <<step, ending, retired>>
  BY <1>1
<1>2. CASE Outside
  <2>1. CASE TypeLine
    <3>1. hook' = lines + 1 /\ UNCHANGED <<step, ending, retired>>
      BY <2>1 DEF TypeLine, processVars
    <3>2. \A a \in retired : a.is = "ended" => a.line <= lines
      BY DEF LinesTyped
    <3> QED
      BY <3>1, <3>2 DEF LinesTyped
  <2> QED
    BY <1>1, <1>2, <2>1 DEF Outside, LineExpires, GrantGoes, StopMoves, CloseIssue, processVars, waiverFiles
<1>3. ASSUME NEW s \in Scribes, ScribeStep(s) PROVE UnhookedStays' /\ HookIsLater'
  <2>1. \A e \in Enders : step'[e] = step[e]
    BY <1>3 DEF ScribeStep, RecordChecks, RecordPends, RecordPosts, RecordConfirms, StepTo
  <2>2. UNCHANGED <<hook, ending, retired>>
    BY <1>3 DEF ScribeStep, RecordChecks, RecordPends, RecordPosts, RecordConfirms, waiverFiles
  <2> QED
    BY <2>1, <2>2
<1>4. ASSUME NEW e \in Enders, EndStep(e) PROVE UnhookedStays' /\ HookIsLater'
  <2>1. \A f \in Enders \ {e} : step'[f] = "idle"
    BY <1>4, OthersRest
  <2>2. CASE EndUnhooks(e)
    BY <2>1, <2>2 DEF EndUnhooks, StepTo
  <2>3. CASE EndFiles(e)
    BY <2>1, <2>3 DEF EndFiles, StepTo
  <2>4. CASE EndFinds(e) \/ EndPosts(e)
    BY <2>1, <2>4 DEF EndFinds, EndPosts, StepTo, waiverFiles
  <2>5. CASE EndLocks(e) \/ EndReads(e) \/ EndRevokes(e) \/ EndUnlinks(e)
    <3>1. step'[e] \notin {"find", "post", "file"}
      BY <2>5 DEF EndLocks, EndReads, EndRevokes, EndUnlinks, StepTo
    <3>2. UNCHANGED <<hook, retired>>
      BY <2>5 DEF EndLocks, EndReads, EndRevokes, EndUnlinks, waiverFiles
    <3> QED
      BY <2>1, <3>1, <3>2
  <2> QED
    BY <1>4, <2>2, <2>3, <2>4, <2>5 DEF EndStep
<1>5. ASSUME NEW r \in Retirers, RetireStep(r) PROVE UnhookedStays' /\ HookIsLater'
  <2>1. \A e \in Enders : step'[e] = step[e]
    BY <1>5 DEF RetireStep, RetireLocks, RetireMovesHook, RetireLooks, RetireStamps, RetireMovesReceipt, Unlocks, StepTo
  <2>2. ending' = ending /\ hook' \in {hook, 0}
    BY <1>5 DEF RetireStep, RetireLocks, RetireMovesHook, RetireLooks, RetireStamps, RetireMovesReceipt, waiverFiles
  <2>3. \A a \in retired' : a \in retired \/ a.is # "ended"
    BY <1>5 DEF RetireStep, RetireLocks, RetireMovesHook, RetireLooks, RetireStamps, RetireMovesReceipt, waiverFiles,
                RetireReads
  <2> QED
    BY <2>1, <2>2, <2>3
<1>6. ASSUME NEW p \in Processes, Dies(p) PROVE UnhookedStays' /\ HookIsLater'
  BY <1>6 DEF Dies, StepTo, waiverFiles
<1>7. CASE UNCHANGED imcVars
  BY <1>1, <1>7 DEF imcVars, processVars, waiverFiles
<1> QED
  BY <1>2, <1>3, <1>4, <1>5, <1>6, <1>7 DEF ImcNext, Outside, ScribeStep, EndStep, RetireStep

\* "Neither a lane merge nor a `record` re-run survives `end`": no record starts on the line
\* of an end that is on file.
THEOREM EndedStaysEndedAlways == ImcSpec => EndedStaysEnded
<1>1. ASSUME HookInv, [ImcNext]_imcVars
      PROVE  [\A s \in Scribes :
                step[s] = "idle" /\ step'[s] = "checked" =>
                  \A a \in retired : a.is = "ended" => a.line < mine'[s]]_imcVars
  <2> SUFFICES ASSUME NEW s \in Scribes, step[s] = "idle", step'[s] = "checked"
               PROVE  \A a \in retired : a.is = "ended" => a.line < mine'[s]
    OBVIOUS
  <2> USE <1>1, ImcWaiverAssumption DEF HookInv, WaiverTypes, ImcTypes, Processes
  <2>1. RecordChecks(s)
    <3>1. CASE Outside \/ UNCHANGED imcVars
      BY <3>1 DEF Outside, TypeLine, LineExpires, GrantGoes, StopMoves, CloseIssue, processVars, imcVars
    <3>2. ASSUME NEW q \in Scribes, ScribeStep(q) PROVE RecordChecks(s)
      BY <3>2 DEF ScribeStep, RecordChecks, RecordPends, RecordPosts, RecordConfirms, StepTo
    <3>3. ASSUME NEW e \in Enders, EndStep(e) PROVE FALSE
      BY <3>3 DEF EndStep, EndLocks, EndReads, EndRevokes, EndUnhooks, EndFinds, EndPosts, EndFiles, EndUnlinks, StepTo
    <3>4. ASSUME NEW r \in Retirers, RetireStep(r) PROVE FALSE
      BY <3>4 DEF RetireStep, RetireLocks, RetireMovesHook, RetireLooks, RetireStamps, RetireMovesReceipt, Unlocks, StepTo
    <3>5. ASSUME NEW p \in Processes, Dies(p) PROVE FALSE
      BY <3>5 DEF Dies, StepTo
    <3> QED
      BY <3>1, <3>2, <3>3, <3>4, <3>5 DEF ImcNext, Outside, ScribeStep, EndStep, RetireStep
  <2> QED
    BY <2>1 DEF RecordChecks, HookIsLater
<1> QED
  BY <1>1, HookInit, HookStep, PTL DEF ImcSpec, EndedStaysEnded

-----------------------------------------------------------------------------
(***************************************************************************)
(* A waiver on the issue is enforced.                                      *)
(***************************************************************************)
Covers ==
  {g \in Lines : (WaiverHeld /\ waiver.line >= g) \/ \E a \in retired : a.line >= g}

\* Whoever is inside works on the receipt that is on file; an end unlinks what it filed.
SameReceipt ==
  /\ \A e \in Enders :
       /\ step[e] \in EndSteps \ {"read"} => WaiverHeld /\ waiver.line = ending[e].line
       /\ step[e] = "unlink" => \E a \in retired : a.line = ending[e].line
  /\ \A r \in Retirers : step[r] = "stamp" => waiver = readCopy[r]

\* What is announced, or about to be, has a receipt of its line or of a later one.
AllCovered ==
  /\ announced \subseteq Covers
  /\ \A s \in Scribes : step[s] \in {"pended", "posted"} => mine[s] \in Covers

EnforcedInv == WaiverTypes /\ (~crossed => SameReceipt /\ AllCovered)

LEMMA EnforcedInit == ImcInit => EnforcedInv
  BY WaiverTypesInit DEF ImcInit, EnforcedInv, AllCovered, SameReceipt, Processes, EndSteps

\* What is covered stays so while receipts on file are only replaced by later ones, and
\* removed once they are archived.
LEMMA CoverKept ==
  ASSUME ImcTypes, ImcTypes', retired \subseteq retired',
         \/ WaiverHeld' /\ waiver'.line >= waiver.line
         \/ \E a \in retired' : a.line >= waiver.line
         \/ ~WaiverHeld
  PROVE  Covers \subseteq Covers'
  BY ImcWaiverAssumption DEF ImcTypes, Covers, WaiverHeld, Receipts, Lines

LEMMA SameCovers ==
  ASSUME UNCHANGED <<waiver, retired>> PROVE Covers' = Covers
  BY DEF Covers, WaiverHeld

LEMMA EnforcedStep == EnforcedInv /\ [ImcNext]_imcVars => EnforcedInv'
<1> SUFFICES ASSUME EnforcedInv, [ImcNext]_imcVars, ~crossed'
             PROVE  SameReceipt' /\ AllCovered'
  BY WaiverTypesStep DEF EnforcedInv
<1>types. WaiverTypes /\ ImcTypes /\ ImcTypes' /\ OneInside /\ RetireReads
  BY WaiverTypesStep DEF EnforcedInv, WaiverTypes
<1>crossed. ~crossed
  BY DEF ImcNext, TypeLine, LineExpires, GrantGoes, StopMoves, CloseIssue, RecordChecks, RecordPends, RecordPosts,
     RecordConfirms, EndLocks, EndReads, EndRevokes, EndUnhooks, EndFinds, EndPosts, EndFiles, EndUnlinks,
     RetireLocks, RetireMovesHook, RetireLooks, RetireStamps, RetireMovesReceipt, Dies, imcVars, Scribbles
<1>facts. SameReceipt /\ AllCovered
  BY <1>crossed DEF EnforcedInv
<1>lines. announced \subseteq Lines /\ \A s \in Scribes : mine[s] \in Lines
  BY <1>types DEF ImcTypes
\* A step that keeps the covers, announces nothing and moves no record.
<1>keeps. ASSUME Covers \subseteq Covers', announced' = announced,
                 \A s \in Scribes : step'[s] \in {step[s], "idle"} /\ (step'[s] # "idle" => mine'[s] = mine[s])
          PROVE  AllCovered'
  BY <1>keeps, <1>facts DEF AllCovered
<1>1. CASE Outside \/ UNCHANGED imcVars
  <2>1. UNCHANGED <<waiver, retired, step, mine, ending, readCopy, announced>>
    BY <1>1 DEF Outside, TypeLine, LineExpires, GrantGoes, StopMoves, CloseIssue, processVars, waiverFiles, postVars,
                imcVars
  <2>2. SameReceipt'
    BY <1>facts, <2>1 DEF SameReceipt, WaiverHeld
  <2> QED
    BY <1>keeps, SameCovers, <2>1, <2>2
<1>2. ASSUME NEW s \in Scribes, ScribeStep(s) PROVE SameReceipt' /\ AllCovered'
  <2>rest. \A p \in Enders \cup Retirers : step'[p] = step[p]
    BY <1>2, <1>types, ImcWaiverAssumption DEF ScribeStep, RecordChecks, RecordPends, RecordPosts, RecordConfirms, StepTo, ImcTypes, Processes
  <2>others. \A q \in Scribes \ {s} : step'[q] = step[q] /\ mine'[q] = mine[q]
    BY <1>2, <1>types DEF ScribeStep, RecordChecks, RecordPends, RecordPosts, RecordConfirms, StepTo, ImcTypes, Processes
  <2>kept. UNCHANGED <<ending, readCopy, retired>>
    BY <1>2 DEF ScribeStep, RecordChecks, RecordPends, RecordPosts, RecordConfirms, waiverFiles
  <2>1. CASE RecordChecks(s) \/ RecordPosts(s)
    <3>1. waiver' = waiver
      BY <2>1 DEF RecordChecks, RecordPosts, waiverFiles
    <3>2. SameReceipt'
      BY <1>facts, <2>rest, <2>kept, <3>1 DEF SameReceipt, WaiverHeld
    <3>3. Covers' = Covers
      BY SameCovers, <2>kept, <3>1
    <3>4. CASE RecordChecks(s)
      <4>1. step'[s] = "checked" /\ announced' = announced
        BY <1>types, <3>4 DEF RecordChecks, StepTo, ImcTypes, Processes, postVars
      <4> QED
        BY <1>facts, <2>others, <3>2, <3>3, <4>1 DEF AllCovered
    <3>5. CASE RecordPosts(s)
      <4>1. /\ step[s] = "pended" /\ step'[s] = "posted" /\ mine'[s] = mine[s]
            /\ announced' = announced \cup {mine[s]}
        BY <1>types, <3>5 DEF RecordPosts, StepTo, ImcTypes, Processes
      <4> QED
        BY <1>facts, <2>others, <3>2, <3>3, <4>1 DEF AllCovered
    <3> QED
      BY <2>1, <3>4, <3>5
  <2>2. CASE RecordPends(s) \/ RecordConfirms(s)
    <3>1. /\ waiver'.line = mine[s] /\ waiver'.is \in {"pending", "recorded"}
          /\ announced' = announced
      BY <2>2 DEF RecordPends, RecordConfirms, postVars
    <3>2. waiver.line \in Nat /\ mine[s] \in Nat
      BY <1>types, ImcWaiverAssumption DEF ImcTypes, Receipts, Lines
    <3>8. endLock = {} /\ ~(waiver.line > mine[s])
      <4>1. Scribbles(s)
        BY <2>2 DEF RecordPends, RecordConfirms
      <4> QED
        BY <1>types, <4>1 DEF Scribbles, ImcTypes
    <3>3. \A p \in Enders \cup Retirers : step[p] = "idle"
      BY <1>types, <3>8 DEF OneInside
    <3>4. SameReceipt'
      BY <2>rest, <3>3 DEF SameReceipt, EndSteps
    <3>9. WaiverHeld' /\ waiver'.line >= waiver.line
      BY <3>1, <3>2, <3>8 DEF WaiverHeld
    <3>5. Covers \subseteq Covers'
      BY <1>types, <2>kept, <3>9, CoverKept
    <3>6. mine[s] \in Covers'
      BY <1>lines, <3>1, <3>2, <3>9 DEF Covers
    <3>7. step'[s] = "idle" \/ mine'[s] = mine[s]
      BY <1>types, <2>2 DEF RecordPends, RecordConfirms, StepTo, ImcTypes, Processes
    <3> QED
      BY <1>facts, <2>others, <3>1, <3>4, <3>5, <3>6, <3>7 DEF AllCovered
  <2> QED
    BY <1>2, <2>1, <2>2 DEF ScribeStep
<1>3. ASSUME NEW e \in Enders, EndStep(e) PROVE SameReceipt' /\ AllCovered'
  <2>rest. \A f \in Enders \ {e} : step'[f] = "idle"
    BY <1>3, <1>types, OthersRest
  <2>retire. \A r \in Retirers : step'[r] = "idle"
    <3>1. \A r \in Retirers : step[r] = "idle"
      BY <1>3, <1>types, ImcWaiverAssumption DEF OneInside, EndStep, EndLocks, EndReads, EndRevokes, EndUnhooks, EndFinds,
         EndPosts, EndFiles, EndUnlinks
    <3> QED
      BY <1>3, <1>types, <3>1, ImcWaiverAssumption DEF EndStep, EndLocks, EndReads, EndRevokes, EndUnhooks, EndFinds, EndPosts,
         EndFiles, EndUnlinks, StepTo, ImcTypes, Processes
  <2>kept. /\ announced' = announced
           /\ \A s \in Scribes : step'[s] = step[s] /\ mine'[s] = mine[s]
    BY <1>3, <1>types, ImcWaiverAssumption DEF EndStep, EndLocks, EndReads, EndRevokes, EndUnhooks, EndFinds, EndPosts,
       EndFiles, EndUnlinks, StepTo, ImcTypes, Processes, postVars
  <2>1. CASE EndLocks(e)
    <3>1. UNCHANGED <<waiver, retired>> /\ step'[e] = "read"
      BY <2>1, <1>types DEF EndLocks, StepTo, ImcTypes, Processes, waiverFiles
    <3>2. SameReceipt'
      BY <2>rest, <2>retire, <3>1 DEF SameReceipt, EndSteps
    <3>3. AllCovered'
      BY <1>keeps, <2>kept, <3>1, SameCovers
    <3> QED
      BY <3>2, <3>3
  <2>2. CASE EndReads(e)
    <3>1. waiver'.line = waiver.line /\ waiver'.is = "ending" /\ retired' = retired
      BY <2>2 DEF EndReads, WaiverHeld
    <3>2. step'[e] = "revoke" /\ ending'[e].line = waiver'.line
      BY <2>2, <1>types DEF EndReads, StepTo, ImcTypes, Processes
    <3>3. WaiverHeld' /\ waiver'.line >= waiver.line
      BY <1>types, <3>1, ImcWaiverAssumption DEF WaiverHeld, ImcTypes, Receipts, Lines
    <3>4. Covers \subseteq Covers'
      BY <1>types, <3>1, <3>3, CoverKept
    <3>5. SameReceipt'
      BY <2>rest, <2>retire, <3>2, <3>3 DEF SameReceipt, EndSteps
    <3>6. AllCovered'
      BY <1>keeps, <2>kept, <3>4
    <3> QED
      BY <3>5, <3>6
  <2>3. CASE EndRevokes(e) \/ EndUnhooks(e) \/ EndFinds(e) \/ EndPosts(e)
    <3>1. UNCHANGED <<waiver, retired, ending>>
      BY <2>3 DEF EndRevokes, EndUnhooks, EndFinds, EndPosts, waiverFiles
    <3>2. step[e] \in EndSteps \ {"read"} /\ step'[e] # "unlink"
      BY <2>3, <1>types DEF EndRevokes, EndUnhooks, EndFinds, EndPosts, StepTo, ImcTypes, Processes, EndSteps
    <3>3. SameReceipt'
      BY <1>facts, <2>rest, <2>retire, <3>1, <3>2 DEF SameReceipt, WaiverHeld, EndSteps
    <3>4. AllCovered'
      BY <1>keeps, <2>kept, <3>1, SameCovers
    <3> QED
      BY <3>3, <3>4
  <2>4. CASE EndFiles(e)
    <3>1. waiver' = waiver /\ ending' = ending /\ step[e] = "file"
      BY <2>4 DEF EndFiles
    <3>2. \E a \in retired' : a.line = ending[e].line
      <4> DEFINE filed == [is |-> "ended", line |-> ending[e].line, run |-> ending[e].run]
      <4>1. filed \in retired'
        BY <2>4 DEF EndFiles
      <4>2. filed.line = ending[e].line
        OBVIOUS
      <4> HIDE DEF filed
      <4> QED
        BY <4>1, <4>2
    <3>3. retired \subseteq retired'
      BY <2>4 DEF EndFiles
    <3>4. WaiverHeld' /\ waiver'.line >= waiver.line
      BY <1>types, <1>facts, <3>1, ImcWaiverAssumption DEF WaiverHeld, SameReceipt, EndSteps, ImcTypes, Receipts, Lines
    <3>5. Covers \subseteq Covers'
      BY <1>types, <3>3, <3>4, CoverKept
    <3> QED
      BY <1>facts, <1>keeps, <2>rest, <2>retire, <2>kept, <3>1, <3>2, <3>5 DEF SameReceipt, WaiverHeld, EndSteps
  <2>5. CASE EndUnlinks(e)
    <3>1. retired' = retired /\ step[e] = "unlink" /\ step'[e] = "idle"
      BY <2>5, <1>types DEF EndUnlinks, StepTo, ImcTypes, Processes
    <3>2. \E a \in retired : a.line >= waiver.line
      BY <1>types, <1>facts, <3>1, ImcWaiverAssumption DEF SameReceipt, EndSteps, ImcTypes, Lines
    <3>3. Covers \subseteq Covers'
      BY <1>types, <3>1, <3>2, CoverKept
    <3> QED
      BY <1>keeps, <2>rest, <2>retire, <2>kept, <3>1, <3>3 DEF SameReceipt, EndSteps
  <2> QED
    BY <1>3, <2>1, <2>2, <2>3, <2>4, <2>5 DEF EndStep
<1>4. ASSUME NEW r \in Retirers, RetireStep(r) PROVE SameReceipt' /\ AllCovered'
  <2>rest. /\ \A q \in Retirers \ {r} : step'[q] = "idle"
           /\ \A e \in Enders : step'[e] = "idle"
    <3>1. /\ \A q \in Retirers \ {r} : step[q] = "idle"
          /\ \A e \in Enders : step[e] = "idle"
      BY <1>4, <1>types, ImcWaiverAssumption DEF OneInside, RetireStep, RetireLocks, RetireMovesHook, RetireLooks,
         RetireStamps, RetireMovesReceipt
    <3> QED
      BY <1>4, <1>types, <3>1, ImcWaiverAssumption DEF RetireStep, RetireLocks, RetireMovesHook, RetireLooks,
         RetireStamps, RetireMovesReceipt, Unlocks, StepTo, ImcTypes, Processes
  <2>kept. /\ announced' = announced
           /\ \A s \in Scribes : step'[s] = step[s] /\ mine'[s] = mine[s]
    BY <1>4, <1>types, ImcWaiverAssumption DEF RetireStep, RetireLocks, RetireMovesHook, RetireLooks,
       RetireStamps, RetireMovesReceipt, Unlocks, StepTo, ImcTypes, Processes, postVars
  <2>1. CASE RetireLocks(r) \/ RetireMovesHook(r)
    <3>1. UNCHANGED <<waiver, retired>> /\ step'[r] \in {"hook", "look"}
      BY <2>1, <1>types DEF RetireLocks, RetireMovesHook, StepTo, ImcTypes, Processes, waiverFiles
    <3> QED
      BY <1>keeps, <2>rest, <2>kept, <3>1, SameCovers DEF SameReceipt, EndSteps
  <2>2. CASE RetireLooks(r)
    <3>1. UNCHANGED <<waiver, retired>>
      BY <2>2 DEF RetireLooks, waiverFiles
    <3>2. step'[r] = "idle" \/ readCopy'[r] = waiver
      BY <2>2, <1>types DEF RetireLooks, Unlocks, StepTo, ImcTypes, Processes
    <3> QED
      BY <1>keeps, <2>rest, <2>kept, <3>1, <3>2, SameCovers DEF SameReceipt, EndSteps
  <2>3. CASE RetireStamps(r)
    <3>1. UNCHANGED <<waiver, retired>> /\ step'[r] = "move"
      BY <2>3, <1>types, <1>facts DEF RetireStamps, SameReceipt, StepTo, ImcTypes, Processes
    <3> QED
      BY <1>keeps, <2>rest, <2>kept, <3>1, SameCovers DEF SameReceipt, EndSteps
  <2>4. CASE RetireMovesReceipt(r)
    <3>1. step'[r] = "idle"
      BY <2>4, <1>types DEF RetireMovesReceipt, Unlocks, StepTo, ImcTypes, Processes
    <3>2. retired' = retired \cup {waiver} /\ waiver.line \in Nat
      BY <2>4, <1>types, ImcWaiverAssumption DEF RetireMovesReceipt, ImcTypes, Receipts, Lines
    <3>3. \E a \in retired' : a.line >= waiver.line
      BY <3>2
    <3>4. Covers \subseteq Covers'
      BY <1>types, <3>2, <3>3, CoverKept
    <3> QED
      BY <1>keeps, <2>rest, <2>kept, <3>1, <3>4 DEF SameReceipt, EndSteps
  <2> QED
    BY <1>4, <2>1, <2>2, <2>3, <2>4 DEF RetireStep
<1>5. ASSUME NEW p \in Processes, Dies(p) PROVE SameReceipt' /\ AllCovered'
  <2>1. UNCHANGED <<waiver, retired, announced>>
    BY <1>5 DEF Dies, waiverFiles, postVars
  <2>2. \A q \in Processes : step'[q] = IF q = p THEN "idle" ELSE step[q]
    BY <1>5, <1>types DEF Dies, StepTo, ImcTypes
  <2>3. \A s \in Scribes : s # p => mine'[s] = mine[s]
    BY <1>5 DEF Dies
  <2>4. /\ \A e \in Enders : e # p => ending'[e] = ending[e]
        /\ \A r \in Retirers : r # p => readCopy'[r] = readCopy[r]
    BY <1>5 DEF Dies
  <2>5. SameReceipt'
    BY <1>facts, <2>1, <2>2, <2>4 DEF SameReceipt, WaiverHeld, EndSteps, Processes
  <2> QED
    BY <1>keeps, SameCovers, <2>1, <2>2, <2>3, <2>5 DEF Processes
<1> QED
  BY <1>1, <1>2, <1>3, <1>4, <1>5 DEF ImcNext, Outside, ScribeStep, EndStep, RetireStep

\* "So IMC stays enforced until the record is complete": a waiver on the issue keeps a
\* receipt until one of its line or a later one is archived, unless a record wrote under a
\* running end or retire, or over a later line's receipt.
THEOREM WaiverEnforcedAlways == ImcSpec => []WaiverEnforced
<1>1. EnforcedInv => WaiverEnforced
  BY DEF EnforcedInv, AllCovered, Covers, WaiverEnforced
<1> QED
  BY <1>1, EnforcedInit, EnforcedStep, PTL DEF ImcSpec

-----------------------------------------------------------------------------
(***************************************************************************)
(* All that may merge a lane's work: a behaviour of MCLanes is one of each *)
(* part.                                                                   *)
(***************************************************************************)
LanesVars == <<side, vars, precloseVars, imcVars>>

LEMMA GatePart == LanesSpec => Spec
<1>1. LanesInit => Init
  BY DEF LanesInit
<1>2. [LanesNext]_LanesVars => [Next]_vars
  <2>1. GateNext => Next
    BY DEF GateNext, Next
  <2>2. ReviewNext \/ WaiverNext \/ UNCHANGED LanesVars => UNCHANGED vars
    BY DEF ReviewNext, WaiverNext, OnReview, OnWaiver, LanesVars
  <2> QED
    BY <2>1, <2>2 DEF LanesNext
<1> QED
  BY <1>1, <1>2, PTL DEF LanesSpec, Spec, LanesVars

LEMMA ReviewPart == LanesSpec => PrecloseSpec
<1>1. LanesInit => PrecloseInit
  BY DEF LanesInit
<1>2. [LanesNext]_LanesVars => [PrecloseNext]_precloseVars
  <2>1. ASSUME ReviewNext PROVE PrecloseNext
    <3>1. ASSUME NEW mode \in {"no", "plain", "reforge"}, NEW h \in BranchHeads, NEW replayed \in BOOLEAN,
                 Plan(mode, h, replayed)
          PROVE  LockedSteps
      <4>1. mode \in Modes \cup {"no"} /\ mode # "cluster"
        BY DEF Modes
      <4> QED
        BY <3>1, <4>1 DEF LockedSteps
    <3> QED
      BY <2>1, <3>1 DEF ReviewNext, PrecloseNext, LockedSteps, Others
  <2>2. GateNext \/ WaiverNext \/ UNCHANGED LanesVars => UNCHANGED precloseVars
    BY DEF GateNext, WaiverNext, OnGate, OnWaiver, LanesVars
  <2> QED
    BY <2>1, <2>2 DEF LanesNext
<1> QED
  BY <1>1, <1>2, PTL DEF LanesSpec, PrecloseSpec, LanesVars

LEMMA WaiverSide == LanesSpec => ImcSpec
<1>1. LanesInit => ImcInit
  BY DEF LanesInit
<1>2. [LanesNext]_LanesVars => [ImcNext]_imcVars
  <2>1. WaiverNext => ImcNext
    BY DEF WaiverNext, ImcNext
  <2>2. GateNext \/ ReviewNext \/ UNCHANGED LanesVars => UNCHANGED imcVars
    BY DEF GateNext, ReviewNext, OnGate, OnReview, LanesVars
  <2> QED
    BY <2>1, <2>2 DEF LanesNext
<1> QED
  BY <1>1, <1>2, PTL DEF LanesSpec, ImcSpec, LanesVars

\* The grants, the receipt and the waiver of a lane keep their types, whichever of the
\* three ways to merge its work is under way.
THEOREM LanesTypesCorrect == LanesSpec => []LanesTypeOK
  BY GatePart, ReviewPart, WaiverSide, TypeCorrect, PrecloseTypeCorrect, ImcTypeCorrect, PTL
  DEF LanesTypeOK

\* And each part keeps there what it keeps alone.
THEOREM LanesSafe ==
  LanesSpec =>
    /\ [](/\ LinkedOnce /\ MergedAsJudged /\ SpentOnMerge /\ SessionsKept
          /\ MergedWasReviewed /\ CapHolds /\ ForcesOnRecord /\ EndedOnce /\ WaiverEnforced)
    /\ GrantsStand /\ ForceContract /\ EndedStaysEnded
<1>1. LanesSpec => [](LinkedOnce /\ MergedAsJudged /\ SpentOnMerge /\ SessionsKept)
  BY GatePart, OneTargetPerLink, JudgedHeads, SpentTargetsMerged, NoSessionDropped, PTL
<1>2. LanesSpec => [](MergedWasReviewed /\ CapHolds /\ ForcesOnRecord)
  BY ReviewPart, MergedWasReviewedAlways, CapHoldsAlways, ForcesOnRecordAlways, PTL
<1>3. LanesSpec => [](EndedOnce /\ WaiverEnforced)
  BY WaiverSide, EndedOnceAlways, WaiverEnforcedAlways, PTL
<1>4. LanesSpec => GrantsStand /\ ForceContract /\ EndedStaysEnded
  BY GatePart, ReviewPart, WaiverSide, NoWriteLost, ForceContractAlways, EndedStaysEndedAlways
<1> QED
  BY <1>1, <1>2, <1>3, <1>4, PTL
=============================================================================
