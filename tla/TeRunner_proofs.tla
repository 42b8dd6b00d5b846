--------------------------- MODULE TeRunner_proofs ---------------------------
(***************************************************************************)
(* Proofs about TeRunner, for any number of items, runs, steps and         *)
(* versions.                                                               *)
(***************************************************************************)
EXTENDS TeRunner, FiniteSetTheorems, TLAPS

\* What the other invariants rest on.
Basic == TypeOK /\ MemoryIsFile /\ OncePerRun

\* What saving one entry of the run's memory does to the file.
LEMMA SaveOne ==
  ASSUME mem \in [Items -> Entries], cur \in Items, NEW e \in Entries, SaveEntry(e)
  PROVE  /\ mem' = queue'
         /\ queue' \in [Items -> Entries]
         /\ queue'[cur] = e
         /\ \A i \in Items : i # cur => queue'[i] = mem[i]
<1>. QED  BY DEF SaveEntry, Save

\* A starting run changes no more of an entry than its status, note and run.
LEMMA RestartedEntry ==
  ASSUME queue \in [Items -> Entries], NEW r \in 0..MaxRuns, NEW i \in Items
  PROVE  LET e == Restarted(r)[i] IN
         /\ e \in Entries
         /\ e.pushed = queue[i].pushed /\ e.pr = queue[i].pr /\ e.green = queue[i].green
         /\ e.last = queue[i].last /\ e.seen = queue[i].seen
         /\ e.status = queue[i].status \/ (e.status = "blocked" /\ queue[i].status \in {"blocked", "in_progress"})
         /\ queue[i].status \notin {"blocked", "in_progress"} => e = queue[i]
<1>. DEFINE f == Reconcile(queue[i])
<1>1. queue[i] \in Entries
  OBVIOUS
<1>2. /\ f \in Entries
      /\ f.pushed = queue[i].pushed /\ f.pr = queue[i].pr /\ f.green = queue[i].green
      /\ f.last = queue[i].last /\ f.seen = queue[i].seen
      /\ f.status = queue[i].status \/ (f.status = "blocked" /\ queue[i].status \in {"blocked", "in_progress"})
      /\ queue[i].status \notin {"blocked", "in_progress"} => f = queue[i]
  BY <1>1 DEF Reconcile, Recover, PushedUnseen, Entries
<1>3. Restarted(r)[i] = IF f.status # queue[i].status \/ f.note # queue[i].note
                        THEN [f EXCEPT !.run = r] ELSE f
  BY DEF Restarted
<1>. HIDE DEF f
<1>. QED  BY <1>1, <1>2, <1>3 DEF Entries

LEMMA RestartedType ==
  ASSUME queue \in [Items -> Entries], NEW r \in 0..MaxRuns
  PROVE  Restarted(r) \in [Items -> Entries]
<1>1. \A i \in Items : Restarted(r)[i] \in Entries
  BY RestartedEntry
<1>. QED  BY <1>1 DEF Restarted

\* Entries after the steps that change one.
LEMMA StatusTypes ==
  ASSUME NEW e \in Entries, NEW n \in 0..MaxRuns,
         NEW s \in {"absent", "pending", "in_progress", "done", "blocked"}
  PROVE  /\ [e EXCEPT !.status = s] \in Entries /\ [e EXCEPT !.status = s].status = s
         /\ [e EXCEPT !.status = s, !.run = n] \in Entries
         /\ [e EXCEPT !.status = s, !.note = "plain", !.run = n] \in Entries
         /\ [e EXCEPT !.pushed = n] \in Entries
         /\ [e EXCEPT !.pr = n] \in Entries
<1>. QED  BY DEF Entries

LEMMA OutcomeTypes ==
  ASSUME NEW e \in Entries, NEW n \in 0..MaxRuns, NEW m \in 0..MaxRuns,
         NEW reason \in Reasons, NEW x \in Inputs
  PROVE  /\ [e EXCEPT !.status = "done", !.note = "plain", !.run = n, !.green = FALSE,
                      !.last = reason, !.seen = x] \in Entries
         /\ [e EXCEPT !.status = "done", !.note = "plain", !.run = n, !.pr = m,
                      !.green = TRUE, !.last = "none", !.seen = x] \in Entries
<1>. QED  BY DEF Entries

LEMMA JudgementTypes ==
  \A j \in Judgements : j.verdict \in Reasons \cup {"green"}
<1>. SUFFICES ASSUME NEW f \in Facts PROVE Reduce(f) \in Reasons \cup {"green"}
  BY DEF Judgements
<1>1. CASE \A r \in Reasons : f[r] = "pass"
  BY <1>1 DEF Reduce
<1>2. CASE \E r \in Reasons : f[r] # "pass"
  <2>. DEFINE Fails(n) == f[Precedence[n]] # "pass"
  <2>1. \E n \in 1..7 : Fails(n)
    BY <1>2 DEF Reasons, Precedence
  <2>2. \E n \in 1..7 : Fails(n) /\ \A m \in 1..(n - 1) : ~Fails(m)
    <3>. HIDE DEF Fails
    <3>. QED  BY <2>1
  <2>3. DOMAIN Precedence = 1..7
    BY DEF Precedence
  <2>4. \E n \in DOMAIN Precedence :
          f[Precedence[n]] # "pass" /\ \A m \in 1..(n - 1) : f[Precedence[m]] = "pass"
    BY <2>2, <2>3
  <2>. QED  BY <1>2, <2>4 DEF Reduce, Reasons
<1>. QED  BY <1>1, <1>2

\* verdict.py fails closed: green is returned only when every clause passes.
THEOREM GreenOnlyWhenAllPass ==
  \A j \in Judgements : j.verdict = "green" => j.clean
<1>. SUFFICES ASSUME NEW f \in Facts, \E r \in Reasons : f[r] # "pass"
              PROVE  Reduce(f) # "green"
  BY DEF Judgements
<1>. DEFINE Fails(n) == f[Precedence[n]] # "pass"
<1>1. DOMAIN Precedence = 1..7
  BY DEF Precedence
<1>2. \E n \in 1..7 : Fails(n)
  BY DEF Reasons, Precedence
<1>3. \E n \in 1..7 : Fails(n) /\ \A m \in 1..(n - 1) : ~Fails(m)
  <2>. HIDE DEF Fails
  <2>. QED  BY <1>2
<1>4. \E n \in DOMAIN Precedence :
        f[Precedence[n]] # "pass" /\ \A m \in 1..(n - 1) : f[Precedence[m]] = "pass"
  BY <1>1, <1>3
<1>5. \A n \in DOMAIN Precedence : Precedence[n] # "green"
  BY DEF Precedence
<1>. QED  BY <1>4, <1>5 DEF Reduce

-----------------------------------------------------------------------------
(***************************************************************************)
(* Types.                                                                  *)
(***************************************************************************)
LEMMA BasicInit == Init => Basic
<1>. QED  BY ConstantsAssumption
          DEF Init, Basic, TypeOK, MemoryIsFile, OncePerRun, Absent, Blank, Entries, Inputs,
              Items, Attempts, Quiet, Working, Attempting

\* The environment's steps.
LEMMA BasicEnvironment ==
  ASSUME Basic, NEW i \in Items,
         Add(i) \/ Requeue(i) \/ ClosePr(i) \/ LaneOneChanges(i) \/ RunnerChanges
  PROVE  Basic'
<1>. USE ConstantsAssumption DEF Basic, TypeOK, MemoryIsFile, OncePerRun, Working, Attempting
<1>1. queue[i] \in Entries
  OBVIOUS
<1>2. /\ [queue[i] EXCEPT !.status = "pending"] \in Entries
      /\ [queue[i] EXCEPT !.status = "pending"].status = "pending"
  <2>1. run \in 0..MaxRuns
    OBVIOUS
  <2>. QED  BY ONLY <1>1, <2>1, StatusTypes
<1>3. CASE Add(i)
  BY <1>2, <1>3 DEF Add, MayAdd, Quiet, github, past
<1>4. CASE Requeue(i)
  BY <1>2, <1>4 DEF Requeue, Quiet, github
<1>5. CASE ClosePr(i)
  BY <1>5 DEF ClosePr, driver, past, Quiet
<1>6. CASE LaneOneChanges(i)
  <2>1. PICK d \in {"marker", "digest"} :
          inputs[i][d] < MaxChanges /\ inputs' = [inputs EXCEPT ![i] = [inputs[i] EXCEPT ![d] = inputs[i][d] + 1]]
    BY <1>6 DEF LaneOneChanges
  <2>2. inputs[i] \in Inputs
    OBVIOUS
  <2>3. [inputs[i] EXCEPT ![d] = inputs[i][d] + 1] \in Inputs
    BY ONLY <2>1, <2>2, ConstantsAssumption DEF Inputs, Deps
  <2>4. inputs' \in [Items -> Inputs]
    BY <2>1, <2>3
  <2>. QED  BY <1>6, <2>4 DEF LaneOneChanges, driver, past, github, Quiet
<1>7. CASE RunnerChanges
  <2>1. \A j \in Items : inputs[j] \in Inputs /\ inputs[j].tree < MaxChanges
    BY <1>7 DEF RunnerChanges
  <2>2. \A j \in Items : [inputs[j] EXCEPT !.tree = inputs[j].tree + 1] \in Inputs
    BY ONLY <2>1, ConstantsAssumption DEF Inputs, Deps
  <2>3. inputs' \in [Items -> Inputs]
    BY <1>7, <2>2 DEF RunnerChanges
  <2>. QED  BY <1>7, <2>3 DEF RunnerChanges, driver, past, github, Quiet
<1>. QED  BY <1>3, <1>4, <1>5, <1>6, <1>7

\* The steps of a run that leave the entries alone.
LEMMA BasicRun ==
  ASSUME Basic, FailToStart \/ Refuse \/ Survey \/ EndRun \/ Report \/ Crash \/ Begin
                \/ \E i \in Items : PassOver(i)
  PROVE  Basic'
<1>. USE ConstantsAssumption DEF Basic, TypeOK, MemoryIsFile, OncePerRun, Working, Attempting,
         Quiet, github, past, Items, Attempts
<1>1. CASE FailToStart
  <2>1. TypeOK'
    BY <1>1 DEF FailToStart
  <2>2. MemoryIsFile'
    BY <1>1 DEF FailToStart
  <2>3. OncePerRun'
    BY <1>1 DEF FailToStart
  <2>. QED  BY <2>1, <2>2, <2>3
<1>2. CASE Refuse
  BY <1>2 DEF Refuse
<1>3. CASE Survey
  BY <1>3 DEF Survey
<1>4. CASE EndRun
  BY <1>4 DEF EndRun
<1>5. CASE Report
  <2>1. \A i \in Items : queue[i].pr \in 0..MaxRuns
    BY DEF Entries
  <2>2. proposed' \subseteq Items \X Attempts \X (0..MaxRuns)
    BY <1>5, <2>1 DEF Report, Proposals
  <2>. QED  BY <1>5, <2>2 DEF Report
<1>6. CASE Crash
  BY <1>6 DEF Crash
<1>7. CASE Begin
  <2>1. /\ tries[cur] \in Nat /\ tries[cur] < run
        /\ tries' = [tries EXCEPT ![cur] = tries[cur] + 1]
    BY <1>7 DEF Begin
  <2>2. tries' \in [Items -> 0..MaxRuns] /\ tries'[cur] >= 1 /\ \A i \in Items : tries'[i] <= run
    BY <2>1
  <2>3. used' \in [Items -> Inputs]
    <3>1. inputs[cur] \in Inputs /\ loaded \in 0..MaxChanges
      OBVIOUS
    <3>2. [inputs[cur] EXCEPT !.tree = loaded] \in Inputs
      BY ONLY <3>1 DEF Inputs
    <3>. QED  BY <1>7, <3>2 DEF Begin
  <2>. QED  BY <1>7, <2>2, <2>3 DEF Begin
<1>8. CASE \E i \in Items : PassOver(i)
  BY <1>8 DEF PassOver
<1>. QED  BY <1>1, <1>2, <1>3, <1>4, <1>5, <1>6, <1>7, <1>8

LEMMA BasicStart ==
  ASSUME Basic, Start
  PROVE  Basic'
<1>. USE ConstantsAssumption DEF Basic, TypeOK, MemoryIsFile, OncePerRun, Working, Attempting,
         Quiet, github, past
<1>1. run' \in 1..MaxRuns /\ run' = run + 1
  BY DEF Start
<1>2. queue' = Restarted(run') /\ mem' = queue' /\ queue' \in [Items -> Entries]
  BY <1>1, RestartedType DEF Start, Save
<1>3. loaded' \in 0..MaxChanges
  <2>1. 1 \in Items /\ "tree" \in Deps
    BY DEF Items, Deps
  <2>. QED  BY <2>1 DEF Start, Inputs
<1>. QED  BY <1>1, <1>2, <1>3 DEF Start

LEMMA BasicPick ==
  ASSUME Basic, NEW i \in Items, Pick(i)
  PROVE  Basic'
<1>. USE ConstantsAssumption DEF Basic, TypeOK, MemoryIsFile, OncePerRun, Working, Attempting,
         Quiet, github, past
<1>1. /\ queue' = [mem EXCEPT ![i] = [mem[i] EXCEPT !.status = "in_progress", !.run = run]]
      /\ mem' = queue' /\ pc = "next" /\ pc' = "begun" /\ cur' = i
  BY DEF Pick, Save
<1>2. [mem[i] EXCEPT !.status = "in_progress", !.run = run] \in Entries
  BY StatusTypes
<1>3. mem[i].status = "pending" /\ queue'[i].status = "in_progress" /\ steps < MaxSteps
  BY <1>1, <1>2 DEF Pick, First, Ready, MayWork, Entries
<1>. QED  BY <1>1, <1>2, <1>3 DEF Pick

\* The steps that save what became of the item being worked.
LEMMA BasicBlock ==
  ASSUME Basic, Working, NEW next \in {"next", "ended"}, Block(mem[cur], next),
         fork' \in [Items -> SUBSET Attempts], prs' \in [Items -> SUBSET Attempts]
  PROVE  Basic'
<1>. USE ConstantsAssumption DEF Basic, TypeOK, MemoryIsFile, OncePerRun, Attempting, Quiet
<1>. DEFINE e == [mem[cur] EXCEPT !.status = "blocked", !.note = "plain", !.run = run]
<1>1. e \in Entries /\ e.status = "blocked" /\ SaveEntry(e)
  <2>1. mem[cur] \in Entries /\ run \in 0..MaxRuns
    OBVIOUS
  <2>2. e \in Entries
    BY ONLY <2>1, StatusTypes
  <2>3. e.status = "blocked"
    BY ONLY <2>1 DEF Entries
  <2>. QED  BY <2>2, <2>3 DEF Block
<1>. HIDE DEF e
<1>2. /\ mem' = queue' /\ queue' \in [Items -> Entries] /\ queue'[cur].status = "blocked"
      /\ \A i \in Items : i # cur => queue'[i] = queue[i]
  BY <1>1, SaveOne
<1>3. \A i \in Items : queue'[i].status = "pending" => queue[i].status = "pending"
  BY <1>2
<1>. QED  BY <1>2, <1>3 DEF Block, Working, past

LEMMA BasicSetAside ==
  ASSUME Basic, Working, NEW e \in Entries, NEW reason \in Reasons, SetAside(e, reason),
         fork' \in [Items -> SUBSET Attempts], prs' \in [Items -> SUBSET Attempts],
         clean' \in [Items -> SUBSET Attempts], greens' = greens
  PROVE  Basic'
<1>. USE ConstantsAssumption DEF Basic, TypeOK, MemoryIsFile, OncePerRun, Attempting, Quiet
<1>. DEFINE f == [e EXCEPT !.status = "done", !.note = "plain", !.run = run, !.green = FALSE,
                           !.last = reason, !.seen = Recorded]
<1>1. f \in Entries /\ f.status = "done" /\ SaveEntry(f)
  <2>1. run \in 0..MaxRuns /\ Recorded \in Inputs
    BY DEF Recorded
  <2>2. f \in Entries
    BY ONLY <2>1, OutcomeTypes, e \in Entries, reason \in Reasons
  <2>3. f.status = "done"
    BY ONLY e \in Entries DEF Entries
  <2>. QED  BY <2>2, <2>3 DEF SetAside
<1>. HIDE DEF f
<1>2. /\ mem' = queue' /\ queue' \in [Items -> Entries] /\ queue'[cur].status = "done"
      /\ \A i \in Items : i # cur => queue'[i] = queue[i]
  BY <1>1, SaveOne
<1>3. \A i \in Items : queue'[i].status = "pending" => queue[i].status = "pending"
  BY <1>2
<1>4. judged' \in [Items -> Inputs] /\ outrun' \subseteq Items
  BY DEF SetAside
<1>. QED  BY <1>2, <1>3, <1>4 DEF SetAside, Working

LEMMA BasicWork ==
  ASSUME Basic, SetAsideEarly \/ BlockItem \/ AbortRun \/ Judge \/ Push \/ CreatePr \/ ReadLive
  PROVE  Basic'
<1>. USE ConstantsAssumption
<1>0. /\ cur \in Items /\ mem \in [Items -> Entries] /\ mem[cur] \in Entries
      /\ fork \in [Items -> SUBSET Attempts] /\ prs \in [Items -> SUBSET Attempts]
      /\ clean \in [Items -> SUBSET Attempts] /\ tries \in [Items -> 0..MaxRuns]
      /\ run \in 0..MaxRuns
      /\ (Attempting => tries[cur] \in Attempts)
      /\ (pc # "idle" => run \in Attempts)
  BY DEF Basic, TypeOK, OncePerRun, Attempts
<1>1. CASE SetAsideEarly
  <2>1. PICK reason \in {"ineligible", "deny-path"} : SetAside(mem[cur], reason)
    BY <1>1 DEF SetAsideEarly
  <2>2. reason \in Reasons
    <3>1. 1 \in DOMAIN Precedence /\ 2 \in DOMAIN Precedence /\ reason \in {Precedence[1], Precedence[2]}
      BY DEF Precedence
    <3>. QED  BY <3>1 DEF Reasons
  <2>. QED  BY <1>0, <1>1, <2>1, <2>2, BasicSetAside DEF SetAsideEarly, github, Working
<1>2. CASE BlockItem
  BY <1>0, <1>2, BasicBlock DEF BlockItem, github, Working
<1>3. CASE AbortRun
  BY <1>0, <1>3, BasicBlock DEF AbortRun, github, Working
<1>4. CASE Judge
  <2>1. PICK j \in Judgements :
          /\ clean' = [clean EXCEPT ![cur] = IF j.clean THEN clean[cur] \cup {tries[cur]} ELSE clean[cur]]
          /\ \/ /\ j.verdict = "green"
                /\ SaveEntry([mem[cur] EXCEPT !.pushed = PushedBefore])
                /\ pc' = "push"
                /\ UNCHANGED <<lastRun, run, cur, passed, steps, loaded, snap, inputs, tries,
                               asked, used, judged, outrun, proposed>>
             \/ j.verdict # "green" /\ SetAside(mem[cur], j.verdict)
    BY <1>4 DEF Judge
  <2>2. clean' \in [Items -> SUBSET Attempts] /\ pc = "agent" /\ fork' = fork /\ prs' = prs /\ greens' = greens
    BY <1>0, <1>4, <2>1 DEF Judge, github, Attempting
  <2>3. CASE j.verdict = "green"
    <3>. DEFINE e == [mem[cur] EXCEPT !.pushed = PushedBefore]
    <3>1. e \in Entries /\ e.status = mem[cur].status
      <4>1. PushedBefore \in 0..MaxRuns
        BY <1>0 DEF PushedBefore
      <4>2. e \in Entries
        BY ONLY <1>0, <4>1, StatusTypes
      <4>3. e.status = mem[cur].status
        BY ONLY <1>0 DEF Entries
      <4>. QED  BY <4>2, <4>3
    <3>2. SaveEntry(e)
      BY <2>1, <2>3
    <3>. HIDE DEF e
    <3>3. /\ mem' = queue' /\ queue' \in [Items -> Entries]
          /\ \A i \in Items : queue'[i].status = mem[i].status
      BY <1>0, <3>1, <3>2, SaveOne
    <3>. QED  BY <2>1, <2>2, <2>3, <3>3
              DEF Basic, TypeOK, MemoryIsFile, OncePerRun, Working, Attempting, Quiet
  <2>4. CASE j.verdict # "green"
    <3>1. j.verdict \in Reasons
      BY <2>4, JudgementTypes
    <3>. QED  BY <1>0, <2>1, <2>2, <2>4, <3>1, BasicSetAside DEF Working
  <2>. QED  BY <2>3, <2>4
<1>5. CASE Push
  <2>1. pc = "push" /\ Working /\ prs' = prs /\ fork' \in [Items -> SUBSET Attempts]
    BY <1>0, <1>5 DEF Push, Attempting, Working
  <2>2. CASE pc' = "pr" /\ UNCHANGED <<queue, lastRun, mem, run, cur, passed, steps, loaded, snap, inputs,
                                       tries, past>>
    BY <2>1, <2>2 DEF Basic, TypeOK, MemoryIsFile, OncePerRun, Working, Attempting, Quiet, past
  <2>3. CASE Block(mem[cur], "next")
    BY <1>0, <2>1, <2>3, BasicBlock
  <2>. QED  BY <1>5, <2>2, <2>3 DEF Push
<1>6. CASE CreatePr
  <2>1. pc = "pr" /\ Working /\ fork' = fork /\ prs' \in [Items -> SUBSET Attempts]
    BY <1>0, <1>6 DEF CreatePr, Attempting, Working
  <2>2. CASE pc' = "live" /\ UNCHANGED <<queue, lastRun, mem, run, cur, passed, steps, loaded, snap, inputs,
                                       tries, past>>
    BY <2>1, <2>2 DEF Basic, TypeOK, MemoryIsFile, OncePerRun, Working, Attempting, Quiet, past
  <2>3. CASE Block(mem[cur], "next")
    BY <1>0, <2>1, <2>3, BasicBlock
  <2>. QED  BY <1>6, <2>2, <2>3 DEF CreatePr
<1>7. CASE ReadLive
  <2>. DEFINE e == [mem[cur] EXCEPT !.status = "done", !.note = "plain", !.run = run,
                                    !.pr = tries[cur], !.green = TRUE, !.last = "none",
                                    !.seen = Blank]
              f == [mem[cur] EXCEPT !.pr = tries[cur]]
  <2>1. pc = "live" /\ Working /\ Attempting /\ fork' = fork /\ prs' = prs /\ clean' = clean
    BY <1>7 DEF ReadLive, github, Working, Attempting
  <2>2. CASE /\ SaveEntry(e) /\ pc' = "next" /\ greens' = greens \cup {<<cur, run, tries[cur]>>}
             /\ UNCHANGED <<lastRun, run, cur, passed, steps, loaded, snap, inputs, tries,
                            asked, used, judged, outrun, proposed>>
    <3>1. Blank \in Inputs /\ tries[cur] \in 0..MaxRuns
      BY <1>0 DEF Blank, Inputs
    <3>2. e \in Entries
      <4>1. "ineligible" \in Reasons
        BY Precedence[1] = "ineligible", 1 \in DOMAIN Precedence DEF Reasons, Precedence
      <4>. QED  BY ONLY <1>0, <3>1, <4>1, OutcomeTypes
    <3>3. e.status = "done"
      BY ONLY <1>0 DEF Entries
    <3>. HIDE DEF e
    <3>4. /\ mem' = queue' /\ queue' \in [Items -> Entries] /\ queue'[cur].status = "done"
          /\ \A i \in Items : i # cur => queue'[i] = mem[i]
      BY <1>0, <2>2, <3>2, <3>3, SaveOne
    <3>5. greens' \subseteq Items \X Attempts \X Attempts
      BY <1>0, <2>1, <2>2 DEF Basic, TypeOK
    <3>. QED  BY <2>1, <2>2, <3>4, <3>5
              DEF Basic, TypeOK, MemoryIsFile, OncePerRun, Working, Attempting, Quiet
  <2>3. CASE SetAside(f, "check-fail") /\ UNCHANGED greens
    <3>1. f \in Entries
      <4>1. tries[cur] \in 0..MaxRuns
        BY <1>0
      <4>. QED  BY ONLY <1>0, <4>1, StatusTypes
    <3>2. "check-fail" \in Reasons
      BY Precedence[6] = "check-fail", 6 \in DOMAIN Precedence DEF Reasons, Precedence
    <3>. HIDE DEF f
    <3>. QED  BY <1>0, <2>1, <2>3, <3>1, <3>2, BasicSetAside
  <2>. QED  BY <1>7, <2>2, <2>3 DEF ReadLive
<1>. QED  BY <1>1, <1>2, <1>3, <1>4, <1>5, <1>6, <1>7

\* The queue file, the run's memory of it and all the rest keep their types; with
\* them, a run never takes more than its steps and no run attempts an item twice.
THEOREM BasicCorrect == Spec => []Basic
<1>1. Basic /\ [Next]_vars => Basic'
  <2>. SUFFICES ASSUME Basic, [Next]_vars PROVE Basic'
    OBVIOUS
  <2>1. CASE Next
    <3>1. CASE RunnerChanges
      <4>1. 1 \in Items
        BY ConstantsAssumption DEF Items
      <4>. QED  BY <3>1, <4>1, BasicEnvironment
    <3>2. CASE \E i \in Items : Add(i) \/ Requeue(i) \/ ClosePr(i) \/ LaneOneChanges(i)
      BY <3>2, BasicEnvironment
    <3>3. CASE \E i \in Items : Pick(i)
      BY <3>3, BasicPick
    <3>. QED  BY <2>1, <3>1, <3>2, <3>3, BasicRun, BasicStart, BasicWork DEF Next
  <2>2. CASE UNCHANGED vars
    BY <2>2 DEF vars, driver, github, past, Basic, TypeOK, MemoryIsFile, OncePerRun,
                Working, Attempting, Quiet
  <2>. QED  BY <2>1, <2>2
<1>. QED  BY <1>1, BasicInit, PTL DEF Spec

THEOREM TypeCorrect == Spec => []TypeOK
<1>. QED  BY BasicCorrect, PTL DEF Basic

-----------------------------------------------------------------------------
(***************************************************************************)
(* What the steps do to the entries.                                       *)
(***************************************************************************)
\* Everything of an entry but its status, its note and its run.
Kept(e, f) ==
  /\ e.pushed = f.pushed /\ e.pr = f.pr /\ e.green = f.green
  /\ e.last = f.last /\ e.seen = f.seen

LEMMA StartEffect ==
  ASSUME Basic, Start, NEW i \in Items
  PROVE  /\ Kept(queue'[i], queue[i])
         /\ \/ queue'[i].status = queue[i].status
            \/ queue'[i].status = "blocked" /\ queue[i].status \in {"blocked", "in_progress"}
         /\ queue[i].status \notin {"blocked", "in_progress"} => queue'[i] = queue[i]
<1>1. run' \in 0..MaxRuns /\ queue' = Restarted(run') /\ queue \in [Items -> Entries]
  BY ConstantsAssumption DEF Start, Save, Basic, TypeOK
<1>. QED  BY <1>1, RestartedEntry DEF Kept

LEMMA PickEffect ==
  ASSUME Basic, NEW i \in Items, Pick(i)
  PROVE  /\ queue[i].status = "pending"
         /\ queue'[i].status = "in_progress" /\ Kept(queue'[i], queue[i])
         /\ \A j \in Items : j # i => queue'[j] = queue[j]
<1>1. /\ queue' = [queue EXCEPT ![i] = [queue[i] EXCEPT !.status = "in_progress", !.run = run]]
      /\ queue[i] \in Entries /\ queue \in [Items -> Entries] /\ i \in Ready /\ mem = queue
  BY DEF Pick, Save, First, Basic, TypeOK, MemoryIsFile
<1>. QED  BY <1>1 DEF Ready, Entries, Kept

LEMMA PendingEffect ==
  ASSUME Basic, NEW i \in Items, Add(i) \/ Requeue(i)
  PROVE  /\ queue'[i].status = "pending" /\ Kept(queue'[i], queue[i])
         /\ \A j \in Items : j # i => queue'[j] = queue[j]
<1>1. /\ queue' = [queue EXCEPT ![i] = [queue[i] EXCEPT !.status = "pending"]]
      /\ queue[i] \in Entries /\ queue \in [Items -> Entries]
  BY DEF Add, Requeue, Basic, TypeOK
<1>. QED  BY <1>1 DEF Entries, Kept

LEMMA BlockEffect ==
  ASSUME Basic, NEW next, Block(mem[cur], next)
  PROVE  /\ queue'[cur].status = "blocked" /\ Kept(queue'[cur], queue[cur])
         /\ \A i \in Items : i # cur => queue'[i] = queue[i]
<1>1. /\ queue' = [queue EXCEPT ![cur] = [queue[cur] EXCEPT !.status = "blocked", !.note = "plain", !.run = run]]
      /\ queue[cur] \in Entries /\ queue \in [Items -> Entries] /\ cur \in Items
  BY DEF Block, SaveEntry, Save, Basic, TypeOK, MemoryIsFile
<1>. DEFINE f == [queue[cur] EXCEPT !.status = "blocked", !.note = "plain", !.run = run]
<1>2. f.status = "blocked" /\ Kept(f, queue[cur])
  BY ONLY <1>1 DEF Entries, Kept
<1>. HIDE DEF f
<1>. QED  BY <1>1, <1>2 DEF f

LEMMA SetAsideEffect ==
  ASSUME Basic, NEW e \in Entries, NEW reason, SetAside(e, reason)
  PROVE  /\ queue'[cur].status = "done" /\ queue'[cur].green = FALSE
         /\ queue'[cur].pushed = e.pushed /\ queue'[cur].pr = e.pr
         /\ queue'[cur].last = reason /\ queue'[cur].seen = snap
         /\ \A i \in Items : i # cur => queue'[i] = queue[i]
<1>1. /\ queue' = [queue EXCEPT ![cur] = [e EXCEPT !.status = "done", !.note = "plain", !.run = run,
                                            !.green = FALSE, !.last = reason, !.seen = snap]]
      /\ queue \in [Items -> Entries] /\ cur \in Items
  BY DEF SetAside, SaveEntry, Save, Recorded, Basic, TypeOK, MemoryIsFile
<1>. DEFINE f == [e EXCEPT !.status = "done", !.note = "plain", !.run = run,
                           !.green = FALSE, !.last = reason, !.seen = snap]
<1>2. /\ f.status = "done" /\ f.green = FALSE /\ f.pushed = e.pushed /\ f.pr = e.pr
      /\ f.last = reason /\ f.seen = snap
  BY ONLY e \in Entries DEF Entries
<1>. HIDE DEF f
<1>. QED  BY <1>1, <1>2 DEF f

\* The seven steps of work: the item is blocked, set aside, recorded as pushed, or
\* found green, and the push and the pull request leave the entry alone.
Outcome ==
  \/ \E next \in {"next", "ended"} : Block(mem[cur], next)
  \/ \E e \in Entries, reason \in Reasons :
       /\ SetAside(e, reason)
       /\ e.pushed = queue[cur].pushed
  \/ /\ pc = "agent" /\ pc' = "push"
     /\ \E j \in Judgements :
          j.verdict = "green" /\ clean' = [clean EXCEPT ![cur] = IF j.clean THEN @ \cup {tries[cur]} ELSE @]
     /\ queue' = [queue EXCEPT ![cur].pushed = tries[cur]]
  \/ /\ \/ pc = "push" /\ pc' = "pr"
        \/ pc = "pr" /\ pc' = "live"
     /\ queue' = queue /\ clean' = clean
  \/ /\ pc = "live" /\ pc' = "next" /\ clean' = clean
     /\ queue' = [queue EXCEPT ![cur] = [queue[cur] EXCEPT
                    !.status = "done", !.note = "plain", !.run = run, !.pr = tries[cur],
                    !.green = TRUE, !.last = "none", !.seen = Blank]]

LEMMA WorkEffect ==
  ASSUME Basic, SetAsideEarly \/ BlockItem \/ AbortRun \/ Judge \/ Push \/ CreatePr \/ ReadLive
  PROVE  /\ Working /\ cur \in Items /\ queue[cur].status = "in_progress"
         /\ UNCHANGED <<run, cur, steps, loaded, snap, inputs, tries, asked, used, proposed>>
         /\ Outcome
<1>0. /\ cur \in Items /\ mem = queue /\ queue \in [Items -> Entries] /\ queue[cur] \in Entries
      /\ (Working => queue[cur].status = "in_progress") /\ tries[cur] \in 0..MaxRuns
  BY DEF Basic, TypeOK, MemoryIsFile
<1>1. Working /\ UNCHANGED <<run, cur, steps, loaded, snap, inputs, tries, asked, used, proposed>>
  BY DEF SetAsideEarly, BlockItem, AbortRun, Judge, Push, CreatePr, ReadLive, Working, Block,
         SetAside, past
<1>2. Outcome
  <2>1. CASE SetAsideEarly
    <3>1. PICK reason \in {"ineligible", "deny-path"} : SetAside(mem[cur], reason)
      BY <2>1 DEF SetAsideEarly
    <3>2. reason \in Reasons
      BY 1 \in DOMAIN Precedence, 2 \in DOMAIN Precedence, reason \in {Precedence[1], Precedence[2]}
      DEF Reasons, Precedence
    <3>. QED  BY <1>0, <3>1, <3>2 DEF Outcome
  <2>2. CASE BlockItem \/ AbortRun
    BY <2>2 DEF BlockItem, AbortRun, Outcome, Block
  <2>3. CASE Judge
    <3>1. PICK j \in Judgements :
            /\ clean' = [clean EXCEPT ![cur] = IF j.clean THEN clean[cur] \cup {tries[cur]} ELSE clean[cur]]
            /\ \/ /\ j.verdict = "green"
                  /\ SaveEntry([mem[cur] EXCEPT !.pushed = PushedBefore])
                  /\ pc' = "push"
               \/ j.verdict # "green" /\ SetAside(mem[cur], j.verdict)
      BY <2>3 DEF Judge
    <3>2. pc = "agent"
      BY <2>3 DEF Judge
    <3>3. CASE j.verdict = "green"
      <4>1. queue' = [queue EXCEPT ![cur].pushed = tries[cur]]
        BY <1>0, <3>1, <3>3 DEF SaveEntry, Save, PushedBefore
      <4>. QED  BY <3>1, <3>2, <3>3, <4>1 DEF Outcome
    <3>4. CASE j.verdict # "green"
      BY <1>0, <3>1, <3>4, JudgementTypes DEF Outcome
    <3>. QED  BY <3>3, <3>4
  <2>4. CASE Push
    <3>1. CASE Block(mem[cur], "next")
      BY <3>1 DEF Outcome, Block
    <3>2. CASE pc' = "pr" /\ UNCHANGED <<queue, past>>
      BY <2>4, <3>2 DEF Push, Outcome, past
    <3>. QED  BY <2>4, <3>1, <3>2 DEF Push
  <2>5. CASE CreatePr
    <3>1. CASE Block(mem[cur], "next")
      BY <3>1 DEF Outcome, Block
    <3>2. CASE pc' = "live" /\ UNCHANGED <<queue, past>>
      BY <2>5, <3>2 DEF CreatePr, Outcome, past
    <3>. QED  BY <2>5, <3>1, <3>2 DEF CreatePr
  <2>6. CASE ReadLive
    <3>1. CASE SaveEntry([mem[cur] EXCEPT !.status = "done", !.note = "plain", !.run = run,
                            !.pr = tries[cur], !.green = TRUE, !.last = "none", !.seen = Blank])
               /\ pc' = "next"
      BY <1>0, <2>6, <3>1 DEF ReadLive, Outcome, SaveEntry, Save
    <3>2. CASE SetAside([mem[cur] EXCEPT !.pr = tries[cur]], "check-fail")
      <4>1. "check-fail" \in Reasons
        BY Precedence[6] = "check-fail", 6 \in DOMAIN Precedence DEF Reasons, Precedence
      <4>2. /\ [queue[cur] EXCEPT !.pr = tries[cur]] \in Entries
            /\ [queue[cur] EXCEPT !.pr = tries[cur]].pushed = queue[cur].pushed
        BY <1>0 DEF Entries
      <4>. QED  BY <1>0, <3>2, <4>1, <4>2 DEF Outcome
    <3>. QED  BY <2>6, <3>1, <3>2 DEF ReadLive
  <2>. QED  BY <2>1, <2>2, <2>3, <2>4, <2>5, <2>6
<1>. QED  BY <1>0, <1>1, <1>2

\* The steps that concern neither an entry nor an attempt.
Elsewhere ==
  \/ FailToStart \/ Refuse \/ Survey \/ EndRun \/ Report \/ Crash
  \/ RunnerChanges
  \/ \E i \in Items : PassOver(i) \/ ClosePr(i) \/ LaneOneChanges(i)
  \/ UNCHANGED vars

Work == SetAsideEarly \/ BlockItem \/ AbortRun \/ Judge \/ Push \/ CreatePr \/ ReadLive

LEMMA ElsewhereEffect ==
  ASSUME Elsewhere
  PROVE  /\ UNCHANGED <<queue, cur, tries, asked, used, judged, outrun, clean, greens, fork, loaded, snap>>
         /\ pc' = pc \/ pc' \in {"idle", "ended", "next"}
<1>. QED  BY DEF Elsewhere, FailToStart, Refuse, Survey, EndRun, Report, Crash, PassOver, ClosePr,
               LaneOneChanges, RunnerChanges, vars, driver, github, past

LEMMA StepCases ==
  ASSUME [Next]_vars
  PROVE  \/ Elsewhere \/ Start \/ Begin \/ Work
         \/ \E i \in Items : Pick(i)
         \/ \E i \in Items : Add(i) \/ Requeue(i)
<1>. QED  BY DEF Next, Elsewhere, Work

-----------------------------------------------------------------------------
(***************************************************************************)
(* Crash-ambiguous work is not redone unasked.                             *)
(***************************************************************************)
LEMMA RequestStep ==
  ASSUME Basic, RequestLeft, [Next]_vars
  PROVE  RequestLeft'
<1>0. /\ tries \in [Items -> 0..MaxRuns] /\ asked \in [Items -> 0..MaxRuns]
      /\ (Working => queue[cur].status = "in_progress") /\ cur \in Items
      /\ MaxRuns \in Nat
  BY ConstantsAssumption DEF Basic, TypeOK, MemoryIsFile
<1>1. CASE Elsewhere
  BY <1>0, <1>1, ElsewhereEffect DEF RequestLeft
<1>2. CASE Start
  <2>1. UNCHANGED <<tries, asked, cur>> /\ pc' = "ready"
    BY <1>2 DEF Start, past
  <2>. QED  BY <1>0, <1>2, <2>1, StartEffect DEF RequestLeft
<1>3. CASE Begin
  <2>1. /\ tries' = [tries EXCEPT ![cur] = tries[cur] + 1] /\ pc = "begun" /\ pc' = "agent"
        /\ UNCHANGED <<queue, asked, cur>>
    BY <1>3 DEF Begin
  <2>. QED  BY <1>0, <2>1 DEF RequestLeft, Working
<1>4. CASE Work
  <2>1. /\ UNCHANGED <<cur, tries, asked>> /\ Outcome /\ queue[cur].status = "in_progress" /\ Working
    BY <1>4, WorkEffect DEF Work
  <2>2. pc' # "begun"
    BY <2>1 DEF Outcome, Block, SetAside, Working
  <2>3. /\ \A i \in Items : i # cur => queue'[i] = queue[i]
        /\ queue'[cur].status \notin {"absent", "pending"}
    <3>1. CASE \E next \in {"next", "ended"} : Block(mem[cur], next)
      BY <3>1, BlockEffect
    <3>2. CASE \E e \in Entries, reason \in Reasons : SetAside(e, reason)
      BY <3>2, SetAsideEffect
    <3>3. CASE queue' = [queue EXCEPT ![cur].pushed = tries[cur]]
      <4>1. queue \in [Items -> Entries] /\ queue[cur] \in Entries
        BY <1>0 DEF Basic, TypeOK
      <4>. QED  BY <1>0, <2>1, <3>3, <4>1 DEF Entries
    <3>4. CASE queue' = [queue EXCEPT ![cur] = [queue[cur] EXCEPT
                    !.status = "done", !.note = "plain", !.run = run, !.pr = tries[cur],
                    !.green = TRUE, !.last = "none", !.seen = Blank]]
      <4>1. queue \in [Items -> Entries] /\ queue[cur] \in Entries
        BY <1>0 DEF Basic, TypeOK
      <4>. QED  BY <1>0, <3>4, <4>1 DEF Entries
    <3>. QED  BY <2>1, <3>1, <3>2, <3>3, <3>4 DEF Outcome
  <2>. QED  BY <1>0, <2>1, <2>2, <2>3 DEF RequestLeft
<1>5. CASE \E i \in Items : Pick(i)
  <2>1. PICK i \in Items : Pick(i)
    BY <1>5
  <2>2. UNCHANGED <<tries, asked>> /\ cur' = i
    BY <2>1 DEF Pick, past
  <2>. QED  BY <1>0, <2>1, <2>2, PickEffect DEF RequestLeft
<1>6. CASE \E i \in Items : Add(i) \/ Requeue(i)
  <2>1. PICK i \in Items : Add(i) \/ Requeue(i)
    BY <1>6
  <2>2. /\ pc' = pc /\ UNCHANGED tries
        /\ \/ queue[i].status = "absent" /\ UNCHANGED asked
           \/ asked' = [asked EXCEPT ![i] = asked[i] + 1]
    BY <2>1 DEF Add, Requeue, past
  <2>3. pc # "begun"
    BY <2>1 DEF Add, MayAdd, Requeue, Quiet
  <2>. QED  BY <1>0, <2>1, <2>2, <2>3, PendingEffect DEF RequestLeft
<1>. QED  BY <1>1, <1>2, <1>3, <1>4, <1>5, <1>6, StepCases

\* queue_state.recover blocks what a killed run was at: no item is attempted more
\* often than once and once more per re-queue, wherever the runs were killed.
THEOREM NotRedoneUnaskedHolds == Spec => []NotRedoneUnasked
<1>1. Init => RequestLeft
  BY DEF Init, RequestLeft
<1>2. Basic /\ RequestLeft /\ [Next]_vars => RequestLeft'
  BY RequestStep
<1>3. RequestLeft => NotRedoneUnasked
  BY DEF RequestLeft, NotRedoneUnasked
<1>. QED  BY <1>1, <1>2, <1>3, BasicCorrect, PTL DEF Spec

-----------------------------------------------------------------------------
(***************************************************************************)
(* Every pushed branch is known to the queue file, and passed every clause.*)
(***************************************************************************)
\* What the seven steps of work do to a recorded push.
LEMMA PushedEffect ==
  ASSUME Basic, Work
  PROVE  /\ \A i \in Items : i # cur => queue'[i] = queue[i]
         /\ \/ queue'[cur].pushed = queue[cur].pushed
            \/ pc = "agent" /\ pc' = "push" /\ queue'[cur].pushed = tries[cur]
<1>0. cur \in Items /\ queue \in [Items -> Entries] /\ queue[cur] \in Entries /\ Outcome
  BY WorkEffect DEF Work, Basic, TypeOK
<1>1. CASE \E next \in {"next", "ended"} : Block(mem[cur], next)
  BY <1>1, BlockEffect DEF Kept
<1>2. CASE \E e \in Entries, reason \in Reasons :
             SetAside(e, reason) /\ e.pushed = queue[cur].pushed
  BY <1>2, SetAsideEffect
<1>3. CASE pc = "agent" /\ pc' = "push" /\ queue' = [queue EXCEPT ![cur].pushed = tries[cur]]
  BY <1>0, <1>3 DEF Entries
<1>4. CASE queue' = [queue EXCEPT ![cur] = [queue[cur] EXCEPT
                    !.status = "done", !.note = "plain", !.run = run, !.pr = tries[cur],
                    !.green = TRUE, !.last = "none", !.seen = Blank]]
  BY <1>0, <1>4 DEF Entries
<1>. QED  BY <1>0, <1>1, <1>2, <1>3, <1>4 DEF Outcome

\* And to the fork and to what passed the clauses.
LEMMA ForkEffect ==
  ASSUME Basic, Work, NEW i \in Items
  PROVE  /\ clean[i] \subseteq clean'[i]
         /\ \/ fork'[i] = fork[i]
            \/ pc = "push" /\ i = cur /\ fork'[i] = fork[i] \cup {tries[i]}
<1>1. /\ clean \in [Items -> SUBSET Attempts] /\ fork \in [Items -> SUBSET Attempts]
      /\ cur \in Items
  BY DEF Basic, TypeOK
<1>2. clean[i] \subseteq clean'[i]
  BY <1>1 DEF Work, SetAsideEarly, BlockItem, AbortRun, Judge, Push, CreatePr, ReadLive, Block, past
<1>3. \/ fork'[i] = fork[i]
      \/ pc = "push" /\ i = cur /\ fork'[i] = fork[i] \cup {tries[i]}
  BY <1>1 DEF Work, SetAsideEarly, BlockItem, AbortRun, Judge, Push, CreatePr, ReadLive, github
<1>. QED  BY <1>2, <1>3

\* Where the work goes from the push on.
LEMMA PushPath ==
  ASSUME Basic, Work, pc' \in {"push", "pr", "live"}
  PROVE  \/ pc = "agent" /\ pc' = "push" /\ queue'[cur].pushed = tries[cur]
              /\ tries[cur] \in clean'[cur]
         \/ pc \in {"push", "pr"} /\ queue' = queue /\ clean' = clean
<1>0. /\ cur \in Items /\ queue \in [Items -> Entries] /\ queue[cur] \in Entries /\ Outcome
      /\ clean \in [Items -> SUBSET Attempts] /\ tries[cur] \in Nat
  BY WorkEffect, ConstantsAssumption DEF Work, Basic, TypeOK
<1>1. CASE pc = "agent" /\ pc' = "push"
  <2>1. PICK j \in Judgements :
          /\ j.verdict = "green"
          /\ clean' = [clean EXCEPT ![cur] = IF j.clean THEN clean[cur] \cup {tries[cur]} ELSE clean[cur]]
    BY <1>0, <1>1 DEF Outcome, Block, SetAside
  <2>2. queue' = [queue EXCEPT ![cur].pushed = tries[cur]]
    BY <1>0, <1>1 DEF Outcome, Block, SetAside
  <2>3. j.clean
    BY <2>1, GreenOnlyWhenAllPass
  <2>4. queue'[cur].pushed = tries[cur]
    BY <1>0, <2>2 DEF Entries
  <2>. QED  BY <1>0, <1>1, <2>1, <2>3, <2>4
<1>2. CASE ~(pc = "agent" /\ pc' = "push")
  BY <1>0, <1>2 DEF Outcome, Block, SetAside
<1>. QED  BY <1>1, <1>2

LEMMA PushStep ==
  ASSUME Basic, PushKnown, [Next]_vars
  PROVE  PushKnown'
<1>. USE DEF PushKnown, PushRecorded, OnlyGreenPushed
<1>0. /\ tries \in [Items -> 0..MaxRuns] /\ cur \in Items /\ MaxRuns \in Nat
      /\ queue \in [Items -> Entries] /\ fork \in [Items -> SUBSET Attempts]
      /\ \A i \in Items : queue[i].pushed \in Nat
  BY ConstantsAssumption DEF Basic, TypeOK, Entries
<1>1. CASE Elsewhere
  BY <1>0, <1>1, ElsewhereEffect
<1>2. CASE Start
  <2>1. UNCHANGED <<tries, cur, fork, clean>> /\ pc' = "ready"
    BY <1>2 DEF Start, past, github
  <2>2. \A i \in Items : queue'[i].pushed = queue[i].pushed
    BY <1>2, StartEffect DEF Kept
  <2>. QED  BY <1>0, <2>1, <2>2
<1>3. CASE Begin
  <2>1. /\ tries' = [tries EXCEPT ![cur] = tries[cur] + 1] /\ pc' = "agent"
        /\ UNCHANGED <<queue, cur, fork, clean>>
    BY <1>3 DEF Begin, github
  <2>2. \A i \in Items : tries[i] <= tries'[i]
    BY <1>0, <2>1
  <2>3. \A i \in Items : tries[i] \in Nat /\ tries'[i] \in Nat
    BY <1>0, <2>1
  <2>. QED  BY <1>0, <2>1, <2>2, <2>3
<1>4. CASE Work
  <2>1. UNCHANGED <<cur, tries>>
    BY <1>4, WorkEffect DEF Work
  <2>2. \A i \in Items : queue'[i].pushed <= tries[i] /\ queue[i].pushed <= queue'[i].pushed
    BY <1>0, <1>4, PushedEffect
  <2>3. pc' \in {"push", "pr", "live"} =>
          queue'[cur].pushed = tries[cur] /\ tries[cur] \in clean'[cur]
    BY <1>4, PushPath
  <2>4. ASSUME NEW i \in Items, NEW a \in fork'[i]
        PROVE  a <= queue'[i].pushed /\ a \in clean'[i]
    <3>1. CASE a \in fork[i]
      <4>1. a \in Nat /\ queue'[i].pushed \in Nat
        <5>1. queue'[i].pushed = queue[i].pushed \/ queue'[i].pushed = tries[i]
          BY <1>4, PushedEffect
        <5>. QED  BY <1>0, <3>1, <5>1 DEF Attempts
      <4>. QED  BY <1>0, <1>4, <2>2, <3>1, <4>1, ForkEffect
    <3>2. CASE a \notin fork[i]
      <4>1. pc = "push" /\ i = cur /\ a = tries[i]
        BY <1>4, <3>2, ForkEffect
      <4>2. queue[i].pushed = tries[i] /\ tries[i] \in clean[i]
        BY <4>1
      <4>3. queue'[i].pushed = queue[i].pushed
        BY <1>4, <4>1, PushedEffect
      <4>. QED  BY <1>0, <1>4, <4>1, <4>2, <4>3, ForkEffect
    <3>. QED  BY <3>1, <3>2
  <2>. QED  BY <2>1, <2>2, <2>3, <2>4
<1>5. CASE \E i \in Items : Pick(i)
  <2>1. PICK i \in Items : Pick(i)
    BY <1>5
  <2>2. UNCHANGED <<tries, fork, clean>> /\ cur' = i /\ pc' = "begun"
    BY <2>1 DEF Pick, past, github
  <2>3. \A j \in Items : queue'[j].pushed = queue[j].pushed
    BY <2>1, PickEffect DEF Kept
  <2>. QED  BY <1>0, <2>2, <2>3
<1>6. CASE \E i \in Items : Add(i) \/ Requeue(i)
  <2>1. PICK i \in Items : Add(i) \/ Requeue(i)
    BY <1>6
  <2>2. UNCHANGED <<tries, fork, clean, pc, cur>> /\ pc \in {"idle", "ended"}
    BY <2>1 DEF Add, MayAdd, Requeue, Quiet, past, github
  <2>3. \A j \in Items : queue'[j].pushed = queue[j].pushed
    BY <2>1, PendingEffect DEF Kept
  <2>. QED  BY <1>0, <2>2, <2>3
<1>. QED  BY <1>1, <1>2, <1>3, <1>4, <1>5, <1>6, StepCases

LEMMA PushCorrect == Spec => []PushKnown
<1>1. Init => PushKnown
  BY DEF Init, PushKnown, PushRecorded, OnlyGreenPushed, Absent
<1>. QED  BY <1>1, PushStep, BasicCorrect, PTL DEF Spec

\* pushed_sha is saved before the push: wherever the run is killed, there is no
\* branch on the runner's fork the queue file does not know of.
THEOREM PushRecordedHolds == Spec => []PushRecorded
<1>. QED  BY PushCorrect, PTL DEF PushKnown

\* Only green is pushed: every branch on the fork passed every clause of the verdict.
THEOREM OnlyGreenPushedHolds == Spec => []OnlyGreenPushed
<1>. QED  BY PushCorrect, PTL DEF PushKnown

-----------------------------------------------------------------------------
(***************************************************************************)
(* What was queued stays queued.                                           *)
(***************************************************************************)
\* What the seven steps of work make of the status of an entry.
LEMMA StatusEffect ==
  ASSUME Basic, Work
  PROVE  /\ \A i \in Items : i # cur => queue'[i] = queue[i]
         /\ queue'[cur].status \in {"in_progress", "blocked", "done"}
<1>0. /\ cur \in Items /\ queue \in [Items -> Entries] /\ queue[cur] \in Entries /\ Outcome
      /\ queue[cur].status = "in_progress"
  BY WorkEffect DEF Work, Basic, TypeOK
<1>1. CASE \E next \in {"next", "ended"} : Block(mem[cur], next)
  BY <1>1, BlockEffect
<1>2. CASE \E e \in Entries, reason \in Reasons : SetAside(e, reason)
  BY <1>2, SetAsideEffect
<1>3. CASE queue' = [queue EXCEPT ![cur].pushed = tries[cur]]
  BY <1>0, <1>3 DEF Entries
<1>4. CASE queue' = [queue EXCEPT ![cur] = [queue[cur] EXCEPT
                    !.status = "done", !.note = "plain", !.run = run, !.pr = tries[cur],
                    !.green = TRUE, !.last = "none", !.seen = Blank]]
  BY <1>0, <1>4 DEF Entries
<1>. QED  BY <1>0, <1>1, <1>2, <1>3, <1>4 DEF Outcome

LEMMA StatusStep ==
  ASSUME Basic, [Next]_vars, NEW i \in Items, queue[i].status # "absent"
  PROVE  queue'[i].status # "absent"
<1>0. cur \in Items
  BY DEF Basic, TypeOK
<1>1. CASE Elsewhere
  BY <1>1, ElsewhereEffect
<1>2. CASE Start
  BY <1>2, StartEffect
<1>3. CASE Begin
  BY <1>3 DEF Begin
<1>4. CASE Work
  BY <1>0, <1>4, StatusEffect
<1>5. CASE \E j \in Items : Pick(j)
  BY <1>5, PickEffect
<1>6. CASE \E j \in Items : Add(j) \/ Requeue(j)
  BY <1>6, PendingEffect
<1>. QED  BY <1>1, <1>2, <1>3, <1>4, <1>5, <1>6, StepCases

\* Whatever is saved, by the run or by te_queue.py, from whatever was loaded: no item
\* that was in the file is missing after it.
THEOREM QueuedStaysHolds == Spec => QueuedStays
<1>1. Basic /\ [Next]_vars =>
        [\A i \in Items : queue[i].status # "absent" => queue'[i].status # "absent"]_vars
  BY StatusStep
<1>. QED  BY <1>1, BasicCorrect, PTL DEF Spec, QueuedStays

-----------------------------------------------------------------------------
(***************************************************************************)
(* A report proposes what its own run judged green.                        *)
(***************************************************************************)
LEMMA GreenEffect ==
  ASSUME Basic, Work
  PROVE  /\ greens \subseteq greens'
         /\ queue'[cur].status = "done" /\ queue'[cur].green
              => <<cur, queue'[cur].run, queue'[cur].pr>> \in greens'
<1>0. /\ cur \in Items /\ queue \in [Items -> Entries] /\ queue[cur] \in Entries
      /\ queue[cur].status = "in_progress" /\ mem = queue
  BY WorkEffect DEF Work, Basic, TypeOK, MemoryIsFile
<1>1. greens \subseteq greens'
  BY DEF Work, SetAsideEarly, BlockItem, AbortRun, Judge, Push, CreatePr, ReadLive, Block, past
<1>2. CASE \E next \in {"next", "ended"} : Block(mem[cur], next)
  BY <1>1, <1>2, BlockEffect
<1>3. CASE \E e \in Entries, reason \in Reasons : SetAside(e, reason)
  BY <1>1, <1>3, SetAsideEffect
<1>4. CASE queue' = queue \/ queue' = [queue EXCEPT ![cur].pushed = tries[cur]]
  <2>1. queue'[cur].status = "in_progress"
    BY <1>0, <1>4 DEF Entries
  <2>. QED  BY <1>1, <2>1
<1>5. CASE /\ queue' = [queue EXCEPT ![cur] = [queue[cur] EXCEPT
                    !.status = "done", !.note = "plain", !.run = run, !.pr = tries[cur],
                    !.green = TRUE, !.last = "none", !.seen = Blank]]
           /\ pc = "live" /\ pc' = "next"
  <2>1. /\ queue'[cur].run = run /\ queue'[cur].pr = tries[cur] /\ queue'[cur].green = TRUE
    BY <1>0, <1>5 DEF Entries
  <2>2. ReadLive
    BY <1>5 DEF Work, SetAsideEarly, BlockItem, AbortRun, Judge, Push, CreatePr, Block
  <2>3. ~ SetAside([mem[cur] EXCEPT !.pr = tries[cur]], "check-fail")
    <3>1. [mem[cur] EXCEPT !.pr = tries[cur]] \in Entries
      BY <1>0 DEF Basic, TypeOK, Entries
    <3>. QED  BY <2>1, <3>1, SetAsideEffect
  <2>4. greens' = greens \cup {<<cur, run, tries[cur]>>}
    BY <2>2, <2>3 DEF ReadLive
  <2>. QED  BY <1>1, <2>1, <2>4
<1>. QED  BY <1>2, <1>3, <1>4, <1>5, WorkEffect DEF Outcome, Work

LEMMA GreenStep ==
  ASSUME Basic, GreenKnown, [Next]_vars
  PROVE  GreenKnown'
<1>. USE DEF GreenKnown, ProposedWasGreen
<1>0. cur \in Items
  BY DEF Basic, TypeOK
<1>1. CASE Elsewhere
  <2>1. UNCHANGED <<queue, greens>>
    BY <1>1, ElsewhereEffect
  <2>2. CASE Report
    <3>1. lastRun = run => \A i \in Proposals : <<i, run, queue[i].pr>> \in greens
      BY DEF Proposals
    <3>. QED  BY <2>1, <2>2, <3>1 DEF Report
  <2>3. CASE ~Report
    <3>1. proposed' = proposed
      BY <1>1, <2>3 DEF Elsewhere, FailToStart, Refuse, Survey, EndRun, Crash, PassOver, ClosePr,
                        LaneOneChanges, RunnerChanges, vars, past
    <3>. QED  BY <2>1, <3>1
  <2>. QED  BY <2>2, <2>3
<1>2. CASE Start
  <2>1. UNCHANGED <<greens, proposed>>
    BY <1>2 DEF Start, past
  <2>2. \A i \in Items : queue'[i].status = "done" => queue'[i] = queue[i]
    BY <1>2, StartEffect
  <2>. QED  BY <2>1, <2>2
<1>3. CASE Begin
  BY <1>3 DEF Begin
<1>4. CASE Work
  <2>1. proposed' = proposed
    BY <1>4, WorkEffect DEF Work
  <2>2. greens \subseteq greens' /\ \A i \in Items : i # cur => queue'[i] = queue[i]
    BY <1>4, GreenEffect, StatusEffect
  <2>3. queue'[cur].status = "done" /\ queue'[cur].green
           => <<cur, queue'[cur].run, queue'[cur].pr>> \in greens'
    BY <1>4, GreenEffect
  <2>4. ASSUME NEW i \in Items, queue'[i].status = "done", queue'[i].green
        PROVE  <<i, queue'[i].run, queue'[i].pr>> \in greens'
    BY <2>2, <2>3, <2>4
  <2>. QED  BY <2>1, <2>2, <2>4
<1>5. CASE \E i \in Items : Pick(i)
  <2>1. PICK i \in Items : Pick(i)
    BY <1>5
  <2>2. UNCHANGED <<greens, proposed>>
    BY <2>1 DEF Pick, past
  <2>. QED  BY <2>1, <2>2, PickEffect
<1>6. CASE \E i \in Items : Add(i) \/ Requeue(i)
  <2>1. PICK i \in Items : Add(i) \/ Requeue(i)
    BY <1>6
  <2>2. UNCHANGED <<greens, proposed>>
    BY <2>1 DEF Add, Requeue, past
  <2>. QED  BY <2>1, <2>2, PendingEffect
<1>. QED  BY <1>1, <1>2, <1>3, <1>4, <1>5, <1>6, StepCases

\* report.py selects by the id of the run that stopped: what it proposes for merge, that
\* run judged green, with the pull request of that very attempt.
THEOREM ProposedWasGreenHolds == Spec => []ProposedWasGreen
<1>1. Init => GreenKnown
  BY DEF Init, GreenKnown, ProposedWasGreen, Absent
<1>2. GreenKnown => ProposedWasGreen
  BY DEF GreenKnown
<1>. QED  BY <1>1, <1>2, GreenStep, BasicCorrect, PTL DEF Spec

-----------------------------------------------------------------------------
(***************************************************************************)
(* One open pull request.                                                  *)
(***************************************************************************)
LEMMA PrStep ==
  ASSUME Basic, PrKnown, [Next]_vars
  PROVE  PrKnown'
<1>. USE DEF PrKnown
<1>0. cur \in Items /\ prs \in [Items -> SUBSET Attempts]
  BY DEF Basic, TypeOK
<1>1. CASE Elsewhere
  <2>1. UNCHANGED cur /\ (pc' = pc \/ pc' \in {"idle", "ended", "next"})
    BY <1>1, ElsewhereEffect
  <2>2. \A i \in Items : prs'[i] \subseteq prs[i]
    BY <1>0, <1>1 DEF Elsewhere, FailToStart, Refuse, Survey, EndRun, Report, Crash, PassOver,
                      ClosePr, LaneOneChanges, RunnerChanges, vars, github
  <2>. QED  BY <1>0, <2>1, <2>2
<1>2. CASE Start
  BY <1>2 DEF Start, github
<1>3. CASE Begin
  BY <1>3 DEF Begin, MayBegin, github
<1>4. CASE Work
  <2>1. cur' = cur
    BY <1>4, WorkEffect DEF Work
  <2>2. CASE ~CreatePr
    <3>1. prs' = prs
      BY <1>4, <2>2 DEF Work, SetAsideEarly, BlockItem, AbortRun, Judge, Push, ReadLive, github
    <3>2. pc' \in {"agent", "push", "pr"} => pc \in {"agent", "push", "pr"}
      BY <1>4, <2>2 DEF Work, SetAsideEarly, BlockItem, AbortRun, Judge, Push, ReadLive, SetAside,
                        Block
    <3>. QED  BY <2>1, <3>1, <3>2
  <2>3. CASE CreatePr
    <3>1. pc = "pr" /\ pc' \in {"live", "next"} /\ prs[cur] = {}
      BY <2>3 DEF CreatePr, Block
    <3>2. tries[cur] \in Attempts
      BY <1>0, <3>1, ConstantsAssumption DEF Basic, TypeOK, OncePerRun, Attempting, Attempts
    <3>3. \/ prs' = prs
          \/ prs' = [prs EXCEPT ![cur] = prs[cur] \cup {tries[cur]}]
      BY <2>3 DEF CreatePr
    <3>4. ASSUME NEW i \in Items  PROVE \E a \in Attempts : prs'[i] \subseteq {a}
      <4>1. CASE prs'[i] = prs[i]
        BY <4>1
      <4>2. CASE prs'[i] # prs[i]
        <5>1. prs'[i] = {tries[cur]}
          BY <1>0, <3>1, <3>3, <4>2
        <5>. QED  BY <3>2, <5>1
      <4>. QED  BY <4>1, <4>2
    <3>. QED  BY <3>1, <3>4
  <2>. QED  BY <2>2, <2>3
<1>5. CASE \E i \in Items : Pick(i)
  BY <1>5 DEF Pick, github
<1>6. CASE \E i \in Items : Add(i) \/ Requeue(i)
  BY <1>6 DEF Add, MayAdd, Requeue, Quiet, github
<1>. QED  BY <1>1, <1>2, <1>3, <1>4, <1>5, <1>6, StepCases

\* A new attempt never competes with one under review: an item has at most one open pull
\* request of the runner's, though a failed `gh pr create` may have opened one.
THEOREM OneOpenPrHolds == Spec => []OneOpenPr
<1>1. Init => PrKnown
  BY ConstantsAssumption DEF Init, PrKnown, Attempts
<1>2. PrKnown => OneOpenPr
  <2>. SUFFICES ASSUME NEW S, NEW a, S \subseteq {a}  PROVE Cardinality(S) <= 1
    BY DEF PrKnown, OneOpenPr
  <2>1. CASE S = {}
    BY <2>1, FS_EmptySet
  <2>2. CASE S = {a}
    BY <2>2, FS_Singleton
  <2>. QED  BY <2>1, <2>2
<1>. QED  BY <1>1, <1>2, PrStep, BasicCorrect, PTL DEF Spec

-----------------------------------------------------------------------------
(***************************************************************************)
(* An item is passed over only on a judgement that is still current.       *)
(***************************************************************************)
\* Versions are numbers, and only grow.
LEMMA VersionsGrow ==
  ASSUME Basic, [Next]_vars, NEW i \in Items, NEW d \in Deps
  PROVE  inputs[i][d] \in Nat /\ inputs'[i][d] \in Nat /\ inputs[i][d] <= inputs'[i][d]
<1>1. inputs \in [Items -> Inputs] /\ inputs[i] \in Inputs /\ inputs[i][d] \in Nat
  BY ConstantsAssumption DEF Basic, TypeOK, Inputs
<1>2. CASE inputs' = inputs
  BY <1>1, <1>2
<1>3. CASE \E j \in Items : LaneOneChanges(j)
  <2>1. PICK j \in Items, c \in {"marker", "digest"} :
          inputs' = [inputs EXCEPT ![j] = [inputs[j] EXCEPT ![c] = inputs[j][c] + 1]]
    BY <1>3 DEF LaneOneChanges
  <2>2. CASE j = i
    <3>1. inputs'[i] = [inputs[i] EXCEPT ![c] = inputs[i][c] + 1]
      BY <1>1, <2>1, <2>2
    <3>2. inputs'[i][d] = IF d = c THEN inputs[i][d] + 1 ELSE inputs[i][d]
      BY <1>1, <3>1 DEF Inputs
    <3>. QED  BY <1>1, <3>2
  <2>3. CASE j # i
    BY <1>1, <2>1, <2>3
  <2>. QED  BY <2>2, <2>3
<1>4. CASE RunnerChanges
  <2>1. inputs'[i] = [inputs[i] EXCEPT !.tree = inputs[i].tree + 1]
    BY <1>4 DEF RunnerChanges
  <2>2. inputs'[i][d] = IF d = "tree" THEN inputs[i][d] + 1 ELSE inputs[i][d]
    BY <1>1, <2>1 DEF Inputs
  <2>. QED  BY <1>1, <2>2
<1>. QED
  BY <1>2, <1>3, <1>4
  DEF Next, FailToStart, Start, Refuse, Survey, EndRun, Report, Crash, SetAsideEarly, BlockItem,
      AbortRun, Begin, Judge, Push, CreatePr, ReadLive, PassOver, Pick, Add, Requeue, ClosePr,
      SetAside, Block, vars

\* No dependency is recorded for a reason that is none of the agent's work.
LEMMA NothingWatched ==
  /\ Watched("none") = {}
  /\ \A reason \in {"ineligible", "deny-path"} : Watched(reason) = {}
<1>. QED  BY DEF Watched

\* One checkout serves every item, and a process runs the code of a version it had.
LEMMA CheckoutStep ==
  ASSUME Basic, SeenBeforeJudged, [Next]_vars
  PROVE  /\ \A i \in Items : inputs'[i].tree = inputs'[1].tree
         /\ loaded' <= inputs'[1].tree
<1>. USE DEF SeenBeforeJudged
<1>0. /\ inputs \in [Items -> Inputs] /\ 1 \in Items /\ "tree" \in Deps /\ loaded \in Nat
      /\ \A i \in Items : inputs[i].tree \in Nat
  <2>1. /\ inputs \in [Items -> Inputs] /\ loaded \in Nat /\ 1 \in Items
    BY ConstantsAssumption DEF Basic, TypeOK, Items
  <2>2. "tree" \in Deps
    BY DEF Deps
  <2>. QED  BY <2>1, <2>2, ConstantsAssumption DEF Inputs
<1>1. CASE \E j \in Items : LaneOneChanges(j)
  <2>1. PICK j \in Items, c \in {"marker", "digest"} :
          inputs' = [inputs EXCEPT ![j] = [inputs[j] EXCEPT ![c] = inputs[j][c] + 1]]
    BY <1>1 DEF LaneOneChanges
  <2>2. \A i \in Items : inputs'[i].tree = inputs[i].tree
    <3>1. inputs[j] \in Inputs
      BY <1>0
    <3>2. [inputs[j] EXCEPT ![c] = inputs[j][c] + 1].tree = inputs[j].tree
      BY ONLY <1>0, <3>1 DEF Inputs
    <3>. QED  BY <1>0, <2>1, <3>2
  <2>3. loaded' = loaded
    BY <1>1 DEF LaneOneChanges, driver
  <2>. QED  BY <1>0, <2>2, <2>3
<1>2. CASE RunnerChanges
  <2>1. \A i \in Items : inputs'[i] = [inputs[i] EXCEPT !.tree = inputs[i].tree + 1]
    BY <1>2 DEF RunnerChanges
  <2>2. ASSUME NEW i \in Items  PROVE inputs'[i].tree = inputs[i].tree + 1
    <3>1. inputs[i] \in Inputs
      BY <1>0
    <3>2. [inputs[i] EXCEPT !.tree = inputs[i].tree + 1].tree = inputs[i].tree + 1
      BY ONLY <1>0, <3>1 DEF Inputs
    <3>. QED  BY <2>1, <3>2
  <2>3. loaded' = loaded
    BY <1>2 DEF RunnerChanges, driver
  <2>. QED  BY <1>0, <2>2, <2>3
<1>3. CASE Start
  BY <1>0, <1>3 DEF Start
<1>4. CASE inputs' = inputs /\ loaded' = loaded
  BY <1>4
<1>. QED
  BY <1>1, <1>2, <1>3, <1>4
  DEF Next, FailToStart, Refuse, Survey, EndRun, Report, Crash, SetAsideEarly, BlockItem,
      AbortRun, Begin, Judge, Push, CreatePr, ReadLive, PassOver, Pick, Add, Requeue, ClosePr,
      SetAside, Block, vars, driver

\* What a set-aside writes of the histories: what the attempt used, and whether what it
\* recorded was newer than the code at work.
Histories ==
  /\ judged' = [judged EXCEPT ![cur] = used[cur]]
  /\ outrun' = IF snap.tree = loaded THEN outrun \ {cur} ELSE outrun \cup {cur}

\* What the seven steps of work record of an item's dependencies: nothing new, nothing that
\* is watched, or what was read before the attempt that is judged.
LEMMA SeenEffect ==
  ASSUME Basic, Work
  PROVE  \/ /\ queue'[cur].last = queue[cur].last /\ queue'[cur].seen = queue[cur].seen
            /\ UNCHANGED <<judged, outrun>>
         \/ Watched(queue'[cur].last) = {} /\ (UNCHANGED <<judged, outrun>> \/ Histories)
         \/ Attempting /\ queue'[cur].seen = snap /\ Histories
<1>0. /\ cur \in Items /\ queue \in [Items -> Entries] /\ queue[cur] \in Entries /\ mem = queue
  BY WorkEffect DEF Work, Basic, TypeOK, MemoryIsFile
<1>1. CASE \E next \in {"next", "ended"} : Block(mem[cur], next)
  BY <1>1, BlockEffect DEF Block, past, Kept
<1>2. CASE SetAsideEarly
  <2>1. PICK reason \in {"ineligible", "deny-path"} : SetAside(mem[cur], reason)
    BY <1>2 DEF SetAsideEarly
  <2>. QED  BY <1>0, <2>1, SetAsideEffect, NothingWatched DEF SetAside, Histories
<1>3. CASE Judge
  <2>1. PICK j \in Judgements :
          \/ /\ SaveEntry([mem[cur] EXCEPT !.pushed = PushedBefore])
             /\ UNCHANGED <<judged, outrun>>
          \/ SetAside(mem[cur], j.verdict)
    BY <1>3 DEF Judge
  <2>2. CASE SetAside(mem[cur], j.verdict)
    BY <1>0, <1>3, <2>2, SetAsideEffect DEF SetAside, Judge, Attempting, Histories
  <2>3. CASE SaveEntry([mem[cur] EXCEPT !.pushed = PushedBefore]) /\ UNCHANGED <<judged, outrun>>
    <3>1. queue' = [queue EXCEPT ![cur] = [queue[cur] EXCEPT !.pushed = PushedBefore]]
      BY <1>0, <2>3 DEF SaveEntry, Save
    <3>2. queue'[cur].last = queue[cur].last /\ queue'[cur].seen = queue[cur].seen
      BY <1>0, <3>1 DEF Entries
    <3>. QED  BY <2>3, <3>2
  <2>. QED  BY <2>1, <2>2, <2>3
<1>4. CASE UNCHANGED <<queue, judged, outrun>>
  BY <1>4
<1>5. CASE ReadLive
  <2>1. CASE SetAside([mem[cur] EXCEPT !.pr = tries[cur]], "check-fail")
    <3>1. [mem[cur] EXCEPT !.pr = tries[cur]] \in Entries
      BY <1>0 DEF Basic, TypeOK, Entries
    <3>. QED  BY <1>5, <2>1, <3>1, SetAsideEffect DEF SetAside, ReadLive, Attempting, Histories
  <2>2. CASE /\ SaveEntry([mem[cur] EXCEPT !.status = "done", !.note = "plain", !.run = run,
                              !.pr = tries[cur], !.green = TRUE, !.last = "none", !.seen = Blank])
             /\ UNCHANGED <<judged, outrun>>
    <3>1. queue' = [queue EXCEPT ![cur] = [queue[cur] EXCEPT !.status = "done", !.note = "plain",
                      !.run = run, !.pr = tries[cur], !.green = TRUE, !.last = "none", !.seen = Blank]]
      BY <1>0, <2>2 DEF SaveEntry, Save
    <3>2. queue'[cur].last = "none"
      BY <1>0, <3>1 DEF Entries
    <3>. QED  BY <2>2, <3>2, NothingWatched
  <2>. QED  BY <1>5, <2>1, <2>2 DEF ReadLive
<1>. QED
  BY <1>1, <1>2, <1>3, <1>4, <1>5 DEF Work, BlockItem, AbortRun, Push, CreatePr, past

\* What is recorded of one item is no newer than what its last set-aside was judged from.
SeenFirst(i) ==
  \A d \in Deps :
    /\ used[i][d] <= inputs[i][d]
    /\ judged[i][d] <= inputs[i][d]
    /\ d \in Watched(queue[i].last) /\ ~(d = "tree" /\ i \in outrun)
         => queue[i].seen[d] <= judged[i][d]

\* What was recorded of the item at work is no newer than it is now.
SnapFirst ==
  /\ Working => \A d \in Deps : snap[d] <= inputs[cur][d]
  /\ Attempting => /\ \A d \in Deps \ {"tree"} : snap[d] <= used[cur][d]
                   /\ used[cur].tree = loaded

LEMMA SeenParts ==
  SeenBeforeJudged <=> /\ \A i \in Items : inputs[i].tree = inputs[1].tree
                       /\ loaded <= inputs[1].tree
                       /\ SnapFirst
                       /\ \A i \in Items : SeenFirst(i)
<1>. QED  BY DEF SeenBeforeJudged, SnapFirst, SeenFirst

\* An item is judged as it was, and what it depends on only grows.
LEMMA SeenKept ==
  ASSUME Basic, [Next]_vars, NEW i \in Items, SeenFirst(i),
         used'[i] = used[i], judged'[i] = judged[i], (i \in outrun') <=> (i \in outrun),
         queue'[i].last = queue[i].last, queue'[i].seen = queue[i].seen
  PROVE  SeenFirst(i)'
<1>1. \A d \in Deps : /\ inputs[i][d] \in Nat /\ inputs'[i][d] \in Nat
                      /\ inputs[i][d] <= inputs'[i][d]
                      /\ used[i][d] \in Nat /\ judged[i][d] \in Nat
  <2>1. used[i] \in Inputs /\ judged[i] \in Inputs
    BY DEF Basic, TypeOK
  <2>2. \A d \in Deps : used[i][d] \in Nat /\ judged[i][d] \in Nat
    BY <2>1, ConstantsAssumption DEF Inputs
  <2>. QED  BY <2>2, VersionsGrow
<1>. QED  BY <1>1 DEF SeenFirst

LEMMA SeenWork ==
  ASSUME Basic, SeenBeforeJudged, Work, [Next]_vars, NEW i \in Items
  PROVE  SeenFirst(i)'
<1>0. /\ cur \in Items /\ Working /\ UNCHANGED <<cur, loaded, snap, inputs, used>>
      /\ judged \in [Items -> Inputs] /\ SeenFirst(i) /\ SnapFirst
  BY WorkEffect, SeenParts DEF Work, Basic, TypeOK
<1>1. i # cur => queue'[i] = queue[i]
  BY StatusEffect
<1>2. CASE UNCHANGED <<judged, outrun>> /\ queue'[i].last = queue[i].last
             /\ queue'[i].seen = queue[i].seen
  BY <1>0, <1>2, SeenKept
<1>3. CASE UNCHANGED <<judged, outrun>> /\ i = cur /\ Watched(queue'[i].last) = {}
  BY <1>0, <1>3 DEF SeenFirst
<1>4. CASE Histories /\ i # cur
  BY <1>0, <1>1, <1>4, SeenKept DEF Histories
<1>5. CASE Histories /\ i = cur
  <2>1. /\ judged'[i] = used[i] /\ used'[i] = used[i] /\ inputs'[i] = inputs[i]
        /\ i \notin outrun' => snap.tree = loaded
    BY <1>0, <1>5 DEF Histories
  <2>2. CASE Watched(queue'[i].last) = {}
    BY <1>0, <2>1, <2>2 DEF SeenFirst
  <2>3. CASE Attempting /\ queue'[i].seen = snap
    <3>1. \A d \in Deps \ {"tree"} : snap[d] <= used[i][d]
      BY <1>0, <1>5, <2>3 DEF SnapFirst
    <3>2. i \notin outrun' => snap["tree"] <= used[i]["tree"]
      <4>1. i \notin outrun' => snap["tree"] = used[i]["tree"]
        BY <1>0, <1>5, <2>1, <2>3 DEF SnapFirst
      <4>2. snap["tree"] \in Nat
        BY ConstantsAssumption DEF Basic, TypeOK, Inputs, Deps
      <4>. QED  BY <4>1, <4>2
    <3>. QED  BY <1>0, <2>1, <2>3, <3>1, <3>2 DEF SeenFirst
  <2>4. CASE queue'[i].last = queue[i].last /\ queue'[i].seen = queue[i].seen
             /\ UNCHANGED <<judged, outrun>>
    BY <1>2, <2>4
  <2>. QED  BY <1>5, <2>2, <2>3, <2>4, SeenEffect
<1>. QED  BY <1>1, <1>2, <1>3, <1>4, <1>5, SeenEffect

\* The steps besides the work, of any item.
LEMMA SeenElse ==
  ASSUME Basic, SeenBeforeJudged, ~Work, [Next]_vars, NEW i \in Items
  PROVE  SeenFirst(i)'
<1>0. SeenFirst(i)
  BY SeenParts
<1>1. CASE ~Begin
  <2>1. UNCHANGED <<used, judged, outrun>>
    BY <1>1, StepCases, ElsewhereEffect DEF Start, Pick, Add, Requeue, past
  <2>2. queue'[i].last = queue[i].last /\ queue'[i].seen = queue[i].seen
    <3>1. CASE Elsewhere
      BY <3>1, ElsewhereEffect
    <3>2. CASE Start
      BY <3>2, StartEffect DEF Kept
    <3>3. CASE \E j \in Items : Pick(j)
      BY <3>3, PickEffect DEF Kept
    <3>4. CASE \E j \in Items : Add(j) \/ Requeue(j)
      BY <3>4, PendingEffect DEF Kept
    <3>. QED  BY <1>1, <3>1, <3>2, <3>3, <3>4, StepCases
  <2>. QED  BY <1>0, <2>1, <2>2, SeenKept
<1>2. CASE Begin
  <2>1. /\ UNCHANGED <<queue, inputs, judged, outrun>> /\ cur \in Items
        /\ used \in [Items -> Inputs] /\ inputs \in [Items -> Inputs]
        /\ used' = [used EXCEPT ![cur] = [inputs[cur] EXCEPT !.tree = loaded]]
    BY <1>2 DEF Begin, Basic, TypeOK
  <2>2. CASE i # cur
    BY <1>0, <2>1, <2>2 DEF SeenFirst
  <2>3. CASE i = cur
    <3>1. used'[i] = [inputs[i] EXCEPT !.tree = loaded] /\ inputs[i] \in Inputs
      BY <2>1, <2>3
    <3>2. \A d \in Deps : /\ used'[i][d] = IF d = "tree" THEN loaded ELSE inputs[i][d]
                          /\ inputs[i][d] \in Nat
      BY <3>1, ConstantsAssumption DEF Inputs
    <3>3. loaded <= inputs[i].tree
      BY DEF SeenBeforeJudged
    <3>4. \A d \in Deps : used'[i][d] <= inputs[i][d]
      BY <3>2, <3>3
    <3>. QED  BY <1>0, <2>1, <3>4 DEF SeenFirst
  <2>. QED  BY <2>2, <2>3
<1>. QED  BY <1>1, <1>2

LEMMA SnapStep ==
  ASSUME Basic, SeenBeforeJudged, [Next]_vars
  PROVE  SnapFirst'
<1>0. /\ cur \in Items /\ inputs \in [Items -> Inputs] /\ SnapFirst
      /\ \A d \in Deps : snap[d] \in Nat /\ inputs[cur][d] \in Nat
  BY SeenParts, ConstantsAssumption DEF Basic, TypeOK, Inputs
<1>1. ASSUME UNCHANGED <<cur, snap, loaded, used>>, Working' => Working, Attempting' => Attempting
      PROVE  SnapFirst'
  <2>1. \A d \in Deps : inputs[cur][d] <= inputs'[cur][d] /\ inputs'[cur][d] \in Nat
    BY <1>0, VersionsGrow
  <2>. QED  BY <1>0, <1>1, <2>1 DEF SnapFirst
<1>2. CASE Elsewhere
  <2>1. /\ UNCHANGED <<cur, used, loaded, snap>>
        /\ pc' = pc \/ pc' \in {"idle", "ended", "next"}
    BY <1>2, ElsewhereEffect
  <2>. QED  BY <1>1, <2>1 DEF Working, Attempting
<1>3. CASE Start
  BY <1>3 DEF Start, SnapFirst, Working, Attempting
<1>4. CASE \E i \in Items : Add(i) \/ Requeue(i)
  BY <1>1, <1>4 DEF Add, Requeue, past, Working, Attempting
<1>5. CASE \E i \in Items : Pick(i)
  <2>1. PICK i \in Items : Pick(i)
    BY <1>5
  <2>2. inputs' = inputs /\ snap' = inputs[i] /\ cur' = i /\ pc' = "begun"
    BY <2>1 DEF Pick
  <2>3. \A d \in Deps : inputs[i][d] \in Nat
    BY <2>1, VersionsGrow
  <2>. QED  BY <2>2, <2>3 DEF SnapFirst, Attempting
<1>6. CASE Begin
  <2>1. /\ UNCHANGED <<cur, snap, loaded, inputs>> /\ pc = "begun"
        /\ used' = [used EXCEPT ![cur] = [inputs[cur] EXCEPT !.tree = loaded]]
        /\ used \in [Items -> Inputs] /\ inputs[cur] \in Inputs
    BY <1>0, <1>6 DEF Begin, Basic, TypeOK
  <2>2. used'[cur] = [inputs[cur] EXCEPT !.tree = loaded]
    BY <1>0, <2>1
  <2>3. \A d \in Deps : used'[cur][d] = IF d = "tree" THEN loaded ELSE inputs[cur][d]
    BY <2>1, <2>2 DEF Inputs
  <2>4. "tree" \in Deps /\ \A d \in Deps : snap[d] <= inputs[cur][d]
    BY <1>0, <2>1 DEF SnapFirst, Working, Deps
  <2>. QED  BY <2>1, <2>3, <2>4 DEF SnapFirst
<1>7. CASE Work
  <2>1. Working /\ UNCHANGED <<cur, loaded, snap, used>>
    BY <1>7, WorkEffect DEF Work
  <2>2. Attempting' => Attempting
    BY <1>7 DEF Work, SetAsideEarly, BlockItem, AbortRun, Judge, Push, CreatePr, ReadLive,
                SetAside, Block, Attempting
  <2>. QED  BY <1>1, <2>1, <2>2
<1>. QED  BY <1>2, <1>3, <1>4, <1>5, <1>6, <1>7, StepCases

LEMMA SeenStep ==
  ASSUME Basic, SeenBeforeJudged, [Next]_vars
  PROVE  SeenBeforeJudged'
<1>1. \A i \in Items : SeenFirst(i)'
  BY SeenWork, SeenElse
<1>. QED  BY <1>1, CheckoutStep, SnapStep DEF SeenBeforeJudged, SnapFirst, SeenFirst

\* The dependencies are read before the work: an item that is passed over as unchanged was
\* set aside by an attempt that worked from what Lane 1 holds now, with the code the runner
\* has now, so that a post or a commit that landed during the work is never slept through.
\* Only of an item picked by a process that the checkout had outrun was a newer tree recorded.
THEOREM SkippedWasJudgedHolds == Spec => []SkippedWasJudged
<1>1. Init => SeenBeforeJudged
  <2>1. \A d \in Deps : Blank[d] = 0
    BY DEF Blank
  <2>2. 1 \in Items /\ "tree" \in Deps
    BY ConstantsAssumption DEF Items, Deps
  <2>. QED  BY <2>1, <2>2, NothingWatched DEF Init, SeenBeforeJudged, Absent, Working, Attempting
<1>2. Basic /\ SeenBeforeJudged => SkippedWasJudged
  <2>. SUFFICES ASSUME Basic, SeenBeforeJudged, NEW i \in Items, Unchanged(i, queue[i]),
                       NEW d \in Watched(queue[i].last), ~(d = "tree" /\ i \in outrun)
                PROVE  judged[i][d] = inputs[i][d]
    BY DEF SkippedWasJudged
  <2>1. d \in Deps
    BY DEF Watched, Deps
  <2>2. queue[i].seen[d] = inputs[i][d]
    BY DEF Unchanged
  <2>3. queue[i].seen[d] <= judged[i][d] /\ judged[i][d] <= inputs[i][d]
    BY <2>1 DEF SeenBeforeJudged
  <2>4. judged[i][d] \in Nat /\ inputs[i][d] \in Nat
    BY <2>1, ConstantsAssumption DEF Basic, TypeOK, Inputs
  <2>. QED  BY <2>2, <2>3, <2>4
<1>. QED  BY <1>1, <1>2, SeenStep, BasicCorrect, PTL DEF Spec

-----------------------------------------------------------------------------
(***************************************************************************)
(* A first push that nobody was told of is made visible.                   *)
(***************************************************************************)
\* An item the operator never put back has no pull request on record before it is done, and
\* no note before it is blocked.
Unnoted(i) ==
  asked[i] = 0 =>
    /\ queue[i].status # "done" => queue[i].pr = 0
    /\ queue[i].status \in {"absent", "pending", "in_progress"} => queue[i].note = "plain"

\* What queue_state.recover and the reconciliation make of an entry.
LEMMA RestartNotes ==
  ASSUME queue \in [Items -> Entries], NEW r \in 0..MaxRuns, NEW i \in Items
  PROVE  LET e == Restarted(r)[i] IN
         /\ e.status # "in_progress" /\ e.pr = queue[i].pr
         /\ queue[i].status \notin {"blocked", "in_progress"} => e = queue[i]
         /\ e.status = "done" <=> queue[i].status = "done"
         /\ PushedUnseen(queue[i]) => e.note = "reconciled"
         /\ queue[i].status = "blocked" /\ queue[i].note = "reconciled" => e.note = "reconciled"
<1>. DEFINE f == Reconcile(queue[i])
<1>1. queue[i] \in Entries
  OBVIOUS
<1>2. /\ f \in Entries
      /\ f.status # "in_progress" /\ f.pr = queue[i].pr
      /\ queue[i].status \notin {"blocked", "in_progress"} => f = queue[i]
      /\ f.status = "done" <=> queue[i].status = "done"
      /\ PushedUnseen(queue[i]) => f.note = "reconciled"
      /\ queue[i].status = "blocked" /\ queue[i].note = "reconciled" => f.note = "reconciled"
  BY <1>1 DEF Reconcile, Recover, PushedUnseen, Entries
<1>3. Restarted(r)[i] = IF f.status # queue[i].status \/ f.note # queue[i].note
                        THEN [f EXCEPT !.run = r] ELSE f
  BY DEF Restarted
<1>. HIDE DEF f
<1>. QED  BY <1>1, <1>2, <1>3 DEF Entries

LEMMA UnnotedStep ==
  ASSUME Basic, \A i \in Items : Unnoted(i), [Next]_vars, NEW i \in Items
  PROVE  Unnoted(i)'
<1>0. /\ cur \in Items /\ mem = queue /\ queue \in [Items -> Entries] /\ queue[i] \in Entries
      /\ asked \in [Items -> 0..MaxRuns] /\ asked[i] \in Nat /\ Unnoted(i)
  BY DEF Basic, TypeOK, MemoryIsFile
<1>1. CASE Elsewhere \/ Begin
  BY <1>0, <1>1, ElsewhereEffect DEF Begin, Unnoted
<1>2. CASE Start
  <2>1. run' \in 0..MaxRuns /\ queue' = Restarted(run') /\ asked' = asked
    BY <1>2, ConstantsAssumption DEF Start, Save, past, Basic, TypeOK
  <2>. DEFINE e == Restarted(run')[i]
  <2>2. /\ e.status # "in_progress" /\ e.pr = queue[i].pr
        /\ queue[i].status \notin {"blocked", "in_progress"} => e = queue[i]
        /\ e.status = "done" <=> queue[i].status = "done"
    BY <1>0, <2>1, RestartNotes
  <2>3. queue[i].status \in {"blocked", "in_progress"} => e.status = "blocked"
    BY <1>0, <2>1, <2>2, RestartedEntry
  <2>. HIDE DEF e
  <2>4. queue'[i] = e
    BY <2>1 DEF e
  <2>. QED  BY <1>0, <2>1, <2>2, <2>3, <2>4 DEF Unnoted
<1>3. CASE Work
  <2>1. /\ UNCHANGED asked /\ Outcome /\ queue[cur].status = "in_progress"
        /\ \A j \in Items : j # cur => queue'[j] = queue[j]
    BY <1>3, WorkEffect, StatusEffect DEF Work
  <2>2. CASE i # cur
    BY <1>0, <2>1, <2>2 DEF Unnoted
  <2>3. CASE i = cur
    <3>1. CASE \E next \in {"next", "ended"} : Block(mem[cur], next)
      BY <1>0, <2>1, <2>3, <3>1, BlockEffect DEF Kept, Unnoted
    <3>2. CASE \E e \in Entries, reason \in Reasons : SetAside(e, reason)
      BY <2>3, <3>2, SetAsideEffect DEF Unnoted
    <3>3. CASE queue' = [queue EXCEPT ![cur].pushed = tries[cur]]
      <4>1. /\ queue'[i].status = queue[i].status /\ queue'[i].note = queue[i].note
            /\ queue'[i].pr = queue[i].pr
        BY <1>0, <2>3, <3>3 DEF Entries
      <4>. QED  BY <1>0, <2>1, <4>1 DEF Unnoted
    <3>4. CASE queue' = queue
      BY <1>0, <2>1, <3>4 DEF Unnoted
    <3>5. CASE queue' = [queue EXCEPT ![cur] = [queue[cur] EXCEPT
                    !.status = "done", !.note = "plain", !.run = run, !.pr = tries[cur],
                    !.green = TRUE, !.last = "none", !.seen = Blank]]
      <4>1. queue'[i].status = "done" /\ queue'[i].note = "plain"
        BY <1>0, <2>3, <3>5 DEF Entries
      <4>. QED  BY <4>1 DEF Unnoted
    <3>. QED  BY <2>1, <3>1, <3>2, <3>3, <3>4, <3>5 DEF Outcome
  <2>. QED  BY <2>2, <2>3
<1>4. CASE \E j \in Items : Pick(j)
  <2>1. PICK j \in Items : Pick(j)
    BY <1>4
  <2>2. /\ queue' = [queue EXCEPT ![j] = [queue[j] EXCEPT !.status = "in_progress", !.run = run]]
        /\ queue[j].status = "pending" /\ asked' = asked
    BY <1>0, <2>1, PickEffect DEF Pick, Save, past
  <2>3. /\ queue'[i].note = queue[i].note /\ queue'[i].pr = queue[i].pr
        /\ queue'[i].status = queue[i].status \/ queue[i].status = "pending"
    BY <1>0, <2>2 DEF Entries
  <2>. QED  BY <1>0, <2>2, <2>3 DEF Unnoted
<1>5. CASE \E j \in Items : Add(j) \/ Requeue(j)
  <2>1. PICK j \in Items : Add(j) \/ Requeue(j)
    BY <1>5
  <2>2. queue' = [queue EXCEPT ![j] = [queue[j] EXCEPT !.status = "pending"]]
    BY <2>1 DEF Add, Requeue
  <2>3. /\ queue'[i].note = queue[i].note /\ queue'[i].pr = queue[i].pr
        /\ i # j => queue'[i] = queue[i]
    BY <1>0, <2>2 DEF Entries
  <2>4. \/ queue[j].status = "absent" /\ asked' = asked
        \/ asked' = [asked EXCEPT ![j] = asked[j] + 1]
    BY <2>1 DEF Add, Requeue, past
  <2>5. CASE i # j
    BY <1>0, <2>3, <2>4, <2>5 DEF Unnoted
  <2>6. CASE i = j /\ queue[j].status = "absent" /\ asked' = asked
    BY <1>0, <2>3, <2>6 DEF Unnoted
  <2>7. CASE i = j /\ asked' = [asked EXCEPT ![j] = asked[j] + 1]
    <3>1. asked'[i] # 0
      BY <1>0, <2>7
    <3>. QED  BY <3>1 DEF Unnoted
  <2>. QED  BY <2>4, <2>5, <2>6, <2>7
<1>. QED  BY <1>1, <1>2, <1>3, <1>4, <1>5, StepCases

LEMMA VisibleStep ==
  ASSUME Basic, PushKnown, \A i \in Items : Unnoted(i), FirstPushVisible, [Next]_vars
  PROVE  FirstPushVisible'
<1>1. CASE Elsewhere
  BY <1>1, ElsewhereEffect DEF FirstPushVisible
<1>2. CASE Start
  <2>1. /\ run' \in 0..MaxRuns /\ queue' = Restarted(run') /\ queue \in [Items -> Entries]
        /\ UNCHANGED <<asked, fork, tries>> /\ fork \in [Items -> SUBSET Attempts]
    BY <1>2, ConstantsAssumption DEF Start, Save, past, github, Basic, TypeOK
  <2>2. ASSUME NEW i \in Items, asked[i] = 0, queue'[i].status = "blocked", tries[i] \in fork[i]
        PROVE  queue'[i].note = "reconciled"
    <3>1. queue[i].status \in {"blocked", "in_progress"}
      BY <2>1, <2>2, StartEffect, <1>2
    <3>2. queue[i].pr = 0 /\ (queue[i].note = "reconciled" => queue[i].status = "blocked")
      BY <2>2, <3>1 DEF Unnoted
    <3>3. queue[i].pushed # 0
      <4>1. tries[i] >= 1 /\ tries[i] <= queue[i].pushed
        BY <2>1, <2>2 DEF PushKnown, PushRecorded, Attempts
      <4>2. queue[i].pushed \in Nat /\ tries[i] \in Nat
        BY <2>1 DEF Entries, Basic, TypeOK
      <4>. QED  BY <4>1, <4>2
    <3>4. PushedUnseen(queue[i]) \/ queue[i].note = "reconciled"
      BY <3>1, <3>2, <3>3 DEF PushedUnseen
    <3>. QED  BY <2>1, <3>2, <3>4, RestartNotes
  <2>. QED  BY <2>1, <2>2 DEF FirstPushVisible
<1>3. CASE Begin \/ Work \/ \E i \in Items : Pick(i)
  <2>1. pc' # "ready"
    BY <1>3 DEF Begin, Pick, Work, SetAsideEarly, BlockItem, AbortRun, Judge, Push, CreatePr,
       ReadLive, SetAside, Block
  <2>. QED  BY <2>1 DEF FirstPushVisible
<1>4. CASE \E i \in Items : Add(i) \/ Requeue(i)
  <2>1. pc' # "ready"
    BY <1>4 DEF Add, MayAdd, Requeue, Quiet
  <2>. QED  BY <2>1 DEF FirstPushVisible
<1>. QED  BY <1>1, <1>2, <1>3, <1>4, StepCases

\* "Make the pushed branch visible": once a run has started, a stopped item the operator
\* never put back, whose last attempt is on the fork without a recorded pull request, says
\* so, wherever the earlier runs were killed or failed.
THEOREM FirstPushVisibleHolds == Spec => []FirstPushVisible
<1>1. Init => (\A i \in Items : Unnoted(i)) /\ FirstPushVisible
  BY DEF Init, Unnoted, FirstPushVisible, Absent
<1>2. Basic /\ (\A i \in Items : Unnoted(i)) /\ [Next]_vars => (\A i \in Items : Unnoted(i))'
  BY UnnotedStep
<1>3. Basic /\ PushKnown /\ (\A i \in Items : Unnoted(i)) /\ FirstPushVisible /\ [Next]_vars
        => FirstPushVisible'
  BY VisibleStep
<1>. QED  BY <1>1, <1>2, <1>3, BasicCorrect, PushCorrect, PTL DEF Spec
=============================================================================
