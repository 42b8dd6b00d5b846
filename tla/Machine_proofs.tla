--------------------------- MODULE Machine_proofs ---------------------------
(***************************************************************************)
(* Proofs about what the processes of one machine share: the heavy slots,  *)
(* the board cache and the belt candidates, each for any number of         *)
(* processes and any bounds its ASSUME allows.                             *)
(***************************************************************************)
EXTENDS MCMachine, FiniteSetTheorems, WellFoundedInduction, TLAPS

-----------------------------------------------------------------------------
(***************************************************************************)
(* Sums over jobs.  Total is a fold, a recursive function: it is shown to  *)
(* satisfy its equation and then to add up like a sum, each time by        *)
(* looking at a smallest set for which it would not.                       *)
(***************************************************************************)

\* Of the finite subsets of a set, any collection that has one has a smallest.
LEMMA SmallestSubset ==
  ASSUME NEW S, NEW Bad, Bad \subseteq FiniteSubsetsOf(S), Bad # {}
  PROVE  \E B \in Bad : \A A \in Bad : A \subseteq B => A = B
<1>1. PICK B \in Bad : \A A \in Bad : ~ (<<A, B>> \in StrictSubsetOrdering(S))
  BY FS_StrictSubsetOrderingWellFounded, WFMin, Zenon
<1>2. \A A \in Bad : A \subseteq B => A = B
  BY <1>1 DEF StrictSubsetOrdering, FiniteSubsetsOf
<1>. QED  BY <1>2

\* One step of the sum of a set.
Adds(w, g, U) == IF U = {} THEN 0 ELSE LET j == CHOOSE j \in U : TRUE IN w[j] + g[U \ {j}]

Sums(w, g, S) == g = [U \in SUBSET S |-> Adds(w, g, U)]

LEMMA TotalIsChosen ==
  ASSUME NEW w, NEW S
  PROVE  Total(w, S) = (CHOOSE g : Sums(w, g, S))[S]
  BY DEF Total, MapThenSumSet, MapThenFoldSet, Adds, Sums

\* Two functions that sum agree on the finite sets both know.
LEMMA SumsAgree ==
  ASSUME NEW w, NEW S, NEW T, NEW g, NEW h, Sums(w, g, S), Sums(w, h, T), IsFiniteSet(S)
  PROVE  \A U \in SUBSET (S \cap T) : g[U] = h[U]
<1>. DEFINE Bad == {U \in SUBSET (S \cap T) : g[U] # h[U]}
<1>1. Bad \subseteq FiniteSubsetsOf(S)
  BY FS_Subset DEF FiniteSubsetsOf
<1>2. SUFFICES ASSUME Bad # {} PROVE FALSE
  OBVIOUS
<1>3. PICK B \in Bad : \A A \in Bad : A \subseteq B => A = B
  <2>. HIDE DEF Bad
  <2>. QED  BY <1>1, <1>2, SmallestSubset
<1>4. g[B] = Adds(w, g, B) /\ h[B] = Adds(w, h, B)
  <2>1. B \in SUBSET S /\ B \in SUBSET T
    OBVIOUS
  <2>2. g[B] = [U \in SUBSET S |-> Adds(w, g, U)][B] /\ h[B] = [U \in SUBSET T |-> Adds(w, h, U)][B]
    BY DEF Sums
  <2>. QED  BY <2>1, <2>2
<1>5. CASE B = {}
  BY <1>4, <1>5 DEF Adds
<1>6. CASE B # {}
  <2>. DEFINE j == CHOOSE i \in B : TRUE
  <2>1. j \in B
    BY <1>6
  <2>2. g[B \ {j}] = h[B \ {j}]
    BY <1>3, <2>1
  <2>. QED  BY <1>4, <1>6, <2>2 DEF Adds
<1>. QED  BY <1>5, <1>6

\* The sum of a finite set is one of its members and the sum of the rest.
LEMMA TotalStep ==
  ASSUME NEW w, NEW S, IsFiniteSet(S)
  PROVE  /\ Total(w, {}) = 0
         /\ S # {} => \E j \in S : Total(w, S) = w[j] + Total(w, S \ {j})
<1>. DEFINE G(U) == CHOOSE g : Sums(w, g, U)
            Bad == {U \in SUBSET S : ~ Sums(w, G(U), U)}
<1>1. Bad = {}
  <2>1. SUFFICES ASSUME Bad # {} PROVE FALSE
    OBVIOUS
  <2>2. Bad \subseteq FiniteSubsetsOf(S)
    BY FS_Subset DEF FiniteSubsetsOf
  <2>3. PICK B \in Bad : \A A \in Bad : A \subseteq B => A = B
    <3>. HIDE DEF Bad
    <3>. QED  BY <2>1, <2>2, SmallestSubset
  <2>. DEFINE Rest(U) == U \ {CHOOSE i \in U : TRUE}
              f == [U \in SUBSET B |->
                     IF U = {} THEN 0 ELSE w[CHOOSE i \in U : TRUE] + G(Rest(U))[Rest(U)]]
  <2>4. \A U \in SUBSET B : U # B => Sums(w, G(U), U) /\ IsFiniteSet(U) /\ f[U] = G(U)[U]
    <3>. SUFFICES ASSUME NEW U \in SUBSET B, U # B
                  PROVE  Sums(w, G(U), U) /\ IsFiniteSet(U) /\ f[U] = G(U)[U]
      OBVIOUS
    <3>1. U \in SUBSET S /\ U \notin Bad
      BY <2>3
    <3>2. Sums(w, G(U), U) /\ IsFiniteSet(U)
      <4>1. Sums(w, G(U), U)
        BY <3>1
      <4>. QED  BY <3>1, <4>1, FS_Subset
    <3>3. G(U)[U] = Adds(w, G(U), U)
      <4>. HIDE DEF G
      <4>. QED  BY <3>2 DEF Sums
    <3>. HIDE DEF G
    <3>4. CASE U = {}
      BY <3>2, <3>3, <3>4 DEF Adds
    <3>5. CASE U # {}
      <4>1. Rest(U) \in SUBSET U /\ Rest(U) # U /\ Rest(U) # B
        BY <3>5
      <4>2. Rest(U) \in SUBSET S /\ Rest(U) \notin Bad
        BY <4>1, <3>1, <2>3
      <4>3. Sums(w, G(Rest(U)), Rest(U)) /\ IsFiniteSet(Rest(U))
        BY <4>2, FS_Subset
      <4>4. G(Rest(U))[Rest(U)] = G(U)[Rest(U)]
        <5>1. Rest(U) \in SUBSET (Rest(U) \cap U)
          BY <4>1
        <5>. HIDE DEF G, Rest
        <5>. QED  BY <5>1, <4>3, <3>2, SumsAgree
      <4>. QED  BY <3>2, <3>3, <3>5, <4>4 DEF Adds
    <3>. QED  BY <3>2, <3>4, <3>5
  <2>5. Sums(w, f, B)
    <3>1. \A U \in SUBSET B : f[U] = Adds(w, f, U)
      <4>. SUFFICES ASSUME NEW U \in SUBSET B PROVE f[U] = Adds(w, f, U)
        OBVIOUS
      <4>1. CASE U = {}
        BY <4>1 DEF Adds
      <4>2. CASE U # {}
        <5>1. Rest(U) \in SUBSET B /\ Rest(U) # B
          BY <4>2
        <5>2. f[Rest(U)] = G(Rest(U))[Rest(U)]
          <6>. HIDE DEF f, Rest, G
          <6>. QED  BY <5>1, <2>4
        <5>. QED  BY <4>2, <5>2 DEF Adds
      <4>. QED  BY <4>1, <4>2
    <3>2. f = [U \in SUBSET B |-> f[U]]
      OBVIOUS
    <3>. HIDE DEF f
    <3>. QED  BY <3>1, <3>2 DEF Sums
  <2>6. Sums(w, G(B), B)
    <3>. HIDE DEF f
    <3>. QED  BY <2>5
  <2>. QED  BY <2>6
<1>2. \A U \in SUBSET S : Total(w, U) = Adds(w, G(U), U)
  <2>. SUFFICES ASSUME NEW U \in SUBSET S PROVE Total(w, U) = Adds(w, G(U), U)
    OBVIOUS
  <2>1. Sums(w, G(U), U)
    BY <1>1
  <2>2. Total(w, U) = G(U)[U]
    BY TotalIsChosen
  <2>. HIDE DEF G
  <2>. QED  BY <2>1, <2>2 DEF Sums
<1>3. Total(w, {}) = 0
  BY <1>2 DEF Adds
<1>4. ASSUME S # {} PROVE \E j \in S : Total(w, S) = w[j] + Total(w, S \ {j})
  <2>. DEFINE j == CHOOSE i \in S : TRUE
  <2>1. j \in S
    BY <1>4
  <2>2. Sums(w, G(S), S) /\ Sums(w, G(S \ {j}), S \ {j})
    BY <1>1
  <2>3. G(S)[S \ {j}] = G(S \ {j})[S \ {j}]
    <3>. HIDE DEF G, j
    <3>. QED  BY <2>2, SumsAgree
  <2>4. Total(w, S \ {j}) = G(S \ {j})[S \ {j}]
    BY TotalIsChosen
  <2>5. Total(w, S) = w[j] + G(S)[S \ {j}]
    BY <1>2, <1>4 DEF Adds
  <2>. QED  BY <2>1, <2>3, <2>4, <2>5
<1>. QED  BY <1>3, <1>4

LEMMA TotalType ==
  ASSUME NEW w \in [Jobs -> Nat], NEW S \in SUBSET Jobs
  PROVE  Total(w, S) \in Nat
<1>. DEFINE Bad == {U \in SUBSET S : Total(w, U) \notin Nat}
<1>1. IsFiniteSet(S)
  BY ConstantsAssumption, FS_Subset
<1>2. \A U \in SUBSET S : IsFiniteSet(U)
  BY <1>1, FS_Subset
<1>3. SUFFICES ASSUME Bad # {} PROVE FALSE
  OBVIOUS
<1>4. PICK B \in Bad : \A A \in Bad : A \subseteq B => A = B
  <2>1. Bad \subseteq FiniteSubsetsOf(S)
    BY <1>2 DEF FiniteSubsetsOf
  <2>. HIDE DEF Bad
  <2>. QED  BY <1>3, <2>1, SmallestSubset
<1>5. B \in SUBSET S /\ Total(w, B) \notin Nat /\ IsFiniteSet(B)
  BY <1>2
<1>6. B # {}
  <2>1. Total(w, {}) = 0
    BY TotalStep, FS_EmptySet
  <2>. HIDE DEF Bad
  <2>. QED  BY <1>5, <2>1
<1>7. PICK j \in B : Total(w, B) = w[j] + Total(w, B \ {j})
  BY <1>5, <1>6, TotalStep
<1>8. Total(w, B \ {j}) \in Nat
  BY <1>4, <1>5
<1>9. w[j] \in Nat
  BY <1>5, ConstantsAssumption
<1>. QED  BY <1>5, <1>7, <1>8, <1>9

\* It does not matter which member is taken first.
LEMMA TotalWithout ==
  ASSUME NEW w \in [Jobs -> Nat], NEW S \in SUBSET Jobs, NEW k \in S
  PROVE  Total(w, S) = w[k] + Total(w, S \ {k})
<1>. DEFINE Bad == {U \in SUBSET S : \E i \in U : Total(w, U) # w[i] + Total(w, U \ {i})}
<1>1. \A U \in SUBSET S : IsFiniteSet(U)
  BY ConstantsAssumption, FS_Subset
<1>2. SUFFICES ASSUME Bad # {} PROVE FALSE
  OBVIOUS
<1>3. PICK B \in Bad : \A A \in Bad : A \subseteq B => A = B
  <2>1. Bad \subseteq FiniteSubsetsOf(S)
    BY <1>1 DEF FiniteSubsetsOf
  <2>. HIDE DEF Bad
  <2>. QED  BY <1>2, <2>1, SmallestSubset
<1>4. PICK i \in B : Total(w, B) # w[i] + Total(w, B \ {i})
  OBVIOUS
<1>5. B \in SUBSET S /\ B # {} /\ IsFiniteSet(B)
  BY <1>1, <1>4
<1>6. PICK j \in B : Total(w, B) = w[j] + Total(w, B \ {j})
  BY <1>5, TotalStep
<1>7. i # j
  BY <1>4, <1>6
<1>8. Total(w, B \ {j}) = w[i] + Total(w, (B \ {j}) \ {i})
  <2>1. B \ {j} \in SUBSET S /\ B \ {j} # B /\ i \in B \ {j}
    BY <1>5, <1>7
  <2>. QED  BY <1>3, <2>1
<1>9. Total(w, B \ {i}) = w[j] + Total(w, (B \ {i}) \ {j})
  <2>1. B \ {i} \in SUBSET S /\ B \ {i} # B /\ j \in B \ {i}
    BY <1>5, <1>7
  <2>. QED  BY <1>3, <2>1
<1>10. Total(w, B \ {i}) = w[j] + Total(w, (B \ {j}) \ {i})
  <2>1. (B \ {i}) \ {j} = (B \ {j}) \ {i}
    OBVIOUS
  <2>. HIDE DEF Bad
  <2>. QED  BY <1>9, <2>1
<1>11. w[i] \in Nat /\ w[j] \in Nat /\ Total(w, (B \ {j}) \ {i}) \in Nat
  <2>1. (B \ {j}) \ {i} \in SUBSET Jobs
    BY <1>5
  <2>. QED  BY <1>5, <2>1, TotalType
<1>12. Total(w, B) = w[i] + Total(w, B \ {i})
  <2>. HIDE DEF Bad
  <2>. QED  BY <1>6, <1>8, <1>10, <1>11
<1>. QED  BY <1>4, <1>12

\* Fewer jobs come to no more.
LEMMA TotalOfFewer ==
  ASSUME NEW w \in [Jobs -> Nat], NEW S \in SUBSET Jobs, NEW T \in SUBSET S
  PROVE  Total(w, T) <= Total(w, S)
<1>. DEFINE Bad == {U \in SUBSET S : \E r \in SUBSET U : ~ (Total(w, r) <= Total(w, U))}
<1>1. \A U \in SUBSET S : IsFiniteSet(U)
  BY ConstantsAssumption, FS_Subset
<1>2. SUFFICES ASSUME Bad # {} PROVE FALSE
  OBVIOUS
<1>3. PICK B \in Bad : \A A \in Bad : A \subseteq B => A = B
  <2>1. Bad \subseteq FiniteSubsetsOf(S)
    BY <1>1 DEF FiniteSubsetsOf
  <2>. HIDE DEF Bad
  <2>. QED  BY <1>2, <2>1, SmallestSubset
<1>4. PICK r \in SUBSET B : ~ (Total(w, r) <= Total(w, B))
  OBVIOUS
<1>5. B \in SUBSET Jobs /\ B \in SUBSET S
  OBVIOUS
<1>6. Total(w, B) \in Nat /\ Total(w, r) \in Nat
  BY <1>5, TotalType
<1>7. r # B
  BY <1>4, <1>6
<1>8. PICK k \in B : k \notin r
  BY <1>7
<1>9. Total(w, B) = w[k] + Total(w, B \ {k})
  BY <1>5, TotalWithout
<1>10. Total(w, r) <= Total(w, B \ {k})
  <2>1. B \ {k} \in SUBSET S /\ B \ {k} # B /\ r \in SUBSET (B \ {k})
    BY <1>5, <1>8
  <2>. QED  BY <1>3, <2>1
<1>11. w[k] \in Nat /\ Total(w, B \ {k}) \in Nat
  BY <1>5, TotalType, ConstantsAssumption
<1>12. Total(w, r) <= Total(w, B)
  <2>. HIDE DEF Bad
  <2>. QED  BY <1>6, <1>9, <1>10, <1>11
<1>. QED  BY <1>4, <1>12

\* Jobs counted twice only add.
LEMMA TotalOfUnion ==
  ASSUME NEW w \in [Jobs -> Nat], NEW S \in SUBSET Jobs, NEW T \in SUBSET Jobs
  PROVE  Total(w, S \cup T) <= Total(w, S) + Total(w, T)
<1>. DEFINE Bad == {U \in SUBSET S : ~ (Total(w, U \cup T) <= Total(w, U) + Total(w, T))}
<1>1. \A U \in SUBSET S : IsFiniteSet(U)
  BY ConstantsAssumption, FS_Subset
<1>2. SUFFICES ASSUME Bad # {} PROVE FALSE
  OBVIOUS
<1>3. PICK B \in Bad : \A A \in Bad : A \subseteq B => A = B
  <2>1. Bad \subseteq FiniteSubsetsOf(S)
    BY <1>1 DEF FiniteSubsetsOf
  <2>. HIDE DEF Bad
  <2>. QED  BY <1>2, <2>1, SmallestSubset
<1>4. B \in SUBSET S /\ ~ (Total(w, B \cup T) <= Total(w, B) + Total(w, T))
  OBVIOUS
<1>5. B # {}
  <2>1. Total(w, {}) = 0 /\ Total(w, T) \in Nat
    BY TotalStep, TotalType, FS_EmptySet
  <2>. SUFFICES ASSUME B = {} PROVE FALSE
    OBVIOUS
  <2>2. B \cup T = T
    OBVIOUS
  <2>. HIDE DEF Bad
  <2>. QED  BY <1>4, <2>1, <2>2
<1>6. PICK k \in B : TRUE
  BY <1>5
<1>7. Total(w, (B \ {k}) \cup T) <= Total(w, B \ {k}) + Total(w, T)
  BY <1>3, <1>4, <1>6
<1>8. Total(w, B) = w[k] + Total(w, B \ {k})
  BY <1>4, <1>6, TotalWithout
<1>9. Total(w, B \cup T) <= w[k] + Total(w, (B \ {k}) \cup T)
  <2>1. B \cup T \in SUBSET Jobs /\ k \in B \cup T /\ (B \ {k}) \cup T \in SUBSET Jobs
    BY <1>4
  <2>2. Total(w, B \cup T) = w[k] + Total(w, (B \cup T) \ {k})
    BY <2>1, TotalWithout
  <2>3. Total(w, (B \cup T) \ {k}) <= Total(w, (B \ {k}) \cup T)
    BY <2>1, TotalOfFewer
  <2>4. w[k] \in Nat /\ Total(w, (B \cup T) \ {k}) \in Nat /\ Total(w, (B \ {k}) \cup T) \in Nat
    BY <2>1, <1>4, TotalType, ConstantsAssumption
  <2>. HIDE DEF Bad
  <2>. QED  BY <2>2, <2>3, <2>4
<1>10. /\ w[k] \in Nat /\ Total(w, T) \in Nat /\ Total(w, B \ {k}) \in Nat
       /\ Total(w, (B \ {k}) \cup T) \in Nat /\ Total(w, B \cup T) \in Nat
  BY <1>4, TotalType, ConstantsAssumption
<1>11. Total(w, B \cup T) <= Total(w, B) + Total(w, T)
  <2>. HIDE DEF Bad
  <2>. QED  BY <1>7, <1>8, <1>9, <1>10
<1>. QED  BY <1>4, <1>11

\* Less for each comes to no more.
LEMMA TotalOfLess ==
  ASSUME NEW w \in [Jobs -> Nat], NEW v \in [Jobs -> Nat], NEW S \in SUBSET Jobs,
         \A k \in S : v[k] <= w[k]
  PROVE  Total(v, S) <= Total(w, S)
<1>. DEFINE Bad == {U \in SUBSET S : ~ (Total(v, U) <= Total(w, U))}
<1>1. \A U \in SUBSET S : IsFiniteSet(U)
  BY ConstantsAssumption, FS_Subset
<1>2. SUFFICES ASSUME Bad # {} PROVE FALSE
  OBVIOUS
<1>3. PICK B \in Bad : \A A \in Bad : A \subseteq B => A = B
  <2>1. Bad \subseteq FiniteSubsetsOf(S)
    BY <1>1 DEF FiniteSubsetsOf
  <2>. HIDE DEF Bad
  <2>. QED  BY <1>2, <2>1, SmallestSubset
<1>4. B \in SUBSET S /\ ~ (Total(v, B) <= Total(w, B))
  OBVIOUS
<1>5. B # {}
  <2>1. Total(v, {}) = 0 /\ Total(w, {}) = 0
    BY TotalStep, FS_EmptySet
  <2>. HIDE DEF Bad
  <2>. QED  BY <1>4, <2>1
<1>6. PICK k \in B : TRUE
  BY <1>5
<1>7. Total(v, B \ {k}) <= Total(w, B \ {k})
  BY <1>3, <1>4, <1>6
<1>8. B \in SUBSET Jobs /\ B \ {k} \in SUBSET Jobs
  BY <1>4
<1>9. Total(v, B) = v[k] + Total(v, B \ {k}) /\ Total(w, B) = w[k] + Total(w, B \ {k})
  BY <1>6, <1>8, TotalWithout
<1>10. v[k] <= w[k] /\ v[k] \in Nat /\ w[k] \in Nat
  BY <1>4, <1>6
<1>11. Total(v, B \ {k}) \in Nat /\ Total(w, B \ {k}) \in Nat
  BY <1>8, TotalType
<1>12. Total(v, B) <= Total(w, B)
  <2>. HIDE DEF Bad
  <2>. QED  BY <1>7, <1>9, <1>10, <1>11
<1>. QED  BY <1>4, <1>12

-----------------------------------------------------------------------------
(***************************************************************************)
(* HeavySlot, for any jobs, reservations and limits with Ramp + ReadGap <= *)
(* Recent <= Bound.                                                        *)
(***************************************************************************)

\* Types and files are kept by a sweep and by the passing of time.
LEMMA TypeShared ==
  ASSUME TypeOK, Sweep \/ Tick
  PROVE  TypeOK'
<1>. USE ConstantsAssumption DEF TypeOK, Waiting, Started
<1>1. CASE Sweep
  BY <1>1 DEF Sweep, reading, memory, LiveTickets, LiveHolders
<1>2. CASE Tick
  <2>1. /\ pc' \in [Jobs -> {"idle", "named", "admitted", "done"} \cup Waiting \cup Started]
        /\ \A j \in Jobs : pc'[j] \in Waiting \cup {"admitted"} => pc[j] \in Waiting \cup {"admitted"}
        /\ \A j \in Jobs : pc'[j] \in {"admitted", "running"} => pc[j] \in {"admitted", "running"}
    BY <1>2 DEF Tick
  <2>2. waited' \in [Jobs -> 0..Bound] /\ since' \in [Jobs -> 0..Bound]
    BY <1>2 DEF Tick, OneMore
  <2>3. readAge' \in [Jobs -> 0..ReadGap]
    BY <1>2 DEF Tick
  <2>. QED  BY <1>2, <2>1, <2>2, <2>3 DEF Tick, memory
<1>. QED  BY <1>1, <1>2

\* And by every step of a job.
LEMMA TypeJob ==
  ASSUME TypeOK, NEW j \in Jobs,
         Arrive(j) \/ Moves(j) \/ Allocate(j) \/ FailOpen(j) \/ Die(j)
  PROVE  TypeOK'
<1>. USE ConstantsAssumption DEF TypeOK, Waiting, Started, Goes, reading, memory
<1>1. CASE Arrive(j)
  BY <1>1 DEF Arrive, CanArrive, LiveTickets, LiveHolders
<1>2. CASE Enqueue(j)
  BY <1>2 DEF Enqueue
<1>3. CASE Read(j)
  <2>1. Total(use, Using) \in Nat
    BY TotalType DEF Using
  <2>. QED  BY <1>3, <2>1 DEF Read
<1>4. CASE Decide(j)
  <2>1. /\ shown' \in [Jobs -> Nat] /\ calm' \in [Jobs -> BOOLEAN]
        /\ readAge' \in [Jobs -> 0..ReadGap]
    BY <1>4 DEF Decide
  <2>2. late' \in [Jobs -> BOOLEAN] /\ since' \in [Jobs -> 0..Bound]
    <3>1. Overdue(j) \in BOOLEAN
      BY DEF Overdue
    <3>. QED  BY <1>4, <3>1 DEF Decide
  <2>. QED  BY <1>4, <2>1, <2>2 DEF Decide, LiveTickets, LiveHolders
<1>5. CASE Start(j)
  BY <1>5 DEF Start
<1>6. CASE Finish(j)
  BY <1>6 DEF Finish
<1>7. CASE FailOpen(j)
  BY <1>7 DEF FailOpen
<1>8. CASE Die(j)
  BY <1>8 DEF Die
<1>9. CASE Allocate(j)
  BY <1>9 DEF Allocate
<1>. QED  BY <1>1, <1>2, <1>3, <1>4, <1>5, <1>6, <1>7, <1>8, <1>9 DEF Moves

\* TypeOK is an invariant: files never lie about a living owner, though every
\* process removes the files of the dead.
THEOREM SlotTypeCorrect == Spec => []TypeOK
<1>1. Init => TypeOK
  BY ConstantsAssumption DEF Init, TypeOK, Waiting, Started
<1>2. TypeOK /\ [Next]_vars => TypeOK'
  <2>1. TypeOK /\ UNCHANGED vars => TypeOK'
    BY DEF TypeOK, vars
  <2>. QED  BY <2>1, TypeShared, TypeJob DEF Next
<1>. QED  BY <1>1, <1>2, PTL DEF Spec

-----------------------------------------------------------------------------
\* The inductive invariant is kept by a sweep and by the passing of time: a reading
\* and the jobs it does not show grow old together.
LEMMA SlotInvShared ==
  ASSUME TypeOK, SlotInv, Sweep \/ Tick
  PROVE  SlotInv'
<1>. USE ConstantsAssumption DEF TypeOK, Waiting, Started, Managed
<1>1. CASE Sweep
  BY <1>1 DEF Sweep, reading, SlotInv, StartsAtOnce, AheadSortsBefore,
              FirstComeFirstServed, OverdueOneAtATime, memory
<1>2. CASE Tick
  <2>1. \A k \in Jobs : /\ pc'[k] = "read" <=> pc[k] = "read"
                        /\ pc'[k] \in Waiting <=> pc[k] \in Waiting
                        /\ pc'[k] \in {"idle", "named"} <=> pc[k] \in {"idle", "named"}
    BY <1>2 DEF Tick
  <2>2. Managed' = Managed /\ \A k \in Managed : pc[k] = "running"
    BY <1>2 DEF Tick
  <2>3. \A k \in Managed : since'[k] \in Nat /\ since'[k] <= since[k] + 1
                                             /\ since'[k] >= since[k]
    BY <1>2, <2>2 DEF Tick, OneMore
  <2>5. AheadSortsBefore' /\ FirstComeFirstServed'
    <3>1. ahead' = ahead /\ before' = before
      BY <1>2 DEF Tick
    <3>. QED  BY <2>1, <2>2, <3>1 DEF SlotInv, AheadSortsBefore, FirstComeFirstServed
  <2>6. OverdueOneAtATime'
    <3>1. late' = late
      BY <1>2 DEF Tick
    <3>. QED  BY <2>2, <2>3, <3>1 DEF SlotInv, OverdueOneAtATime
  <2>7. StartsAtOnce'
    BY <1>2 DEF Tick, StartsAtOnce
  <2>. QED  BY <2>5, <2>6, <2>7 DEF SlotInv
<1>. QED  BY <1>1, <1>2

\* A job that only changes its place, and not into the queue or a slot, disturbs
\* nothing when nothing else moves.
LEMMA SlotInvLeave ==
  ASSUME TypeOK, SlotInv, NEW j \in Jobs, NEW to \in {"unmanaged", "orphan", "done"},
         Goes(j, to), pc[j] # "idle" \/ to = "unmanaged",
         \A k \in Jobs : k # j => since'[k] = since[k] /\ late'[k] = late[k],
         UNCHANGED <<before, ahead>>
  PROVE  SlotInv'
<1>. USE DEF TypeOK, Goes, Waiting, Started, Managed
<1>1. pc'[j] = to /\ \A k \in Jobs : k # j => pc'[k] = pc[k]
  OBVIOUS
<1>2. StartsAtOnce'
  BY <1>1 DEF SlotInv, StartsAtOnce
<1>3. AheadSortsBefore' /\ FirstComeFirstServed'
  BY <1>1 DEF SlotInv, AheadSortsBefore, FirstComeFirstServed
<1>4. OverdueOneAtATime'
  BY <1>1 DEF SlotInv, OverdueOneAtATime
<1>. QED  BY <1>2, <1>3, <1>4 DEF SlotInv

\* Every step of a job keeps it: a job is put into a slot only from the head of the
\* queue, and as an overdue one only when no slot is young.
LEMMA SlotInvJob ==
  ASSUME TypeOK, SlotInv, NEW j \in Jobs,
         Arrive(j) \/ Moves(j) \/ Allocate(j) \/ FailOpen(j) \/ Die(j)
  PROVE  SlotInv'
<1>. USE ConstantsAssumption
<1>1. CASE Arrive(j)
  <2>. USE <1>1 DEF Arrive, CanArrive, Goes, Waiting, Started, Managed, TypeOK, reading
  <2>1. /\ Managed' = Managed
        /\ \A k \in Jobs : pc'[k] \in Waiting <=> pc[k] \in Waiting
        /\ \A k \in Jobs : pc'[k] = "read" <=> pc[k] = "read"
    OBVIOUS
  <2>2. StartsAtOnce' /\ OverdueOneAtATime'
    BY <2>1 DEF SlotInv, StartsAtOnce, OverdueOneAtATime
  <2>3. AheadSortsBefore'
    BY DEF SlotInv, AheadSortsBefore, LiveTickets
  <2>4. FirstComeFirstServed'
    BY <2>1 DEF SlotInv, FirstComeFirstServed
  <2>. QED  BY <2>2, <2>3, <2>4 DEF SlotInv
<1>2. CASE Enqueue(j)
  <2>. USE <1>2 DEF Enqueue, Goes, Waiting, Started, Managed, TypeOK, reading
  <2>1. StartsAtOnce' /\ OverdueOneAtATime'
    BY DEF SlotInv, StartsAtOnce, OverdueOneAtATime
  <2>2. AheadSortsBefore' /\ FirstComeFirstServed'
    BY DEF SlotInv, AheadSortsBefore, FirstComeFirstServed
  <2>. QED  BY <2>1, <2>2 DEF SlotInv
<1>3. CASE Read(j)
  <2>. USE <1>3 DEF Read, Goes, Waiting, Started, Managed, TypeOK
  <2>2. /\ AheadSortsBefore' /\ FirstComeFirstServed'
        /\ StartsAtOnce' /\ OverdueOneAtATime'
    BY DEF SlotInv, AheadSortsBefore, FirstComeFirstServed, StartsAtOnce, OverdueOneAtATime
  <2>. QED  BY <2>2 DEF SlotInv
<1>4. CASE Decide(j)
  <2>. USE DEF Goes, Waiting, Started, Managed, TypeOK
  <2>1. CASE pc'[j] = "admitted"
    <3>1. /\ MayStart(j) /\ pc[j] = "read" /\ Goes(j, "admitted")
          /\ since' = [since EXCEPT ![j] = 0] /\ late' = [late EXCEPT ![j] = Overdue(j)]
          /\ UNCHANGED <<before, ahead>>
          /\ \A k \in Jobs : k # j => shown'[k] = shown[k] /\ readAge'[k] = readAge[k]
      BY <1>4, <2>1 DEF Decide
    <3>2. StartsAtOnce'
      BY <3>1 DEF SlotInv, StartsAtOnce
    <3>3. FirstComeFirstServed'
      <4>1. \A k \in ahead[j] : pc[k] \notin Waiting
        BY <3>1 DEF SlotInv, AheadSortsBefore, MayStart, IsHead, LiveTickets
      <4>. QED  BY <3>1, <4>1 DEF SlotInv, FirstComeFirstServed
    <3>4. AheadSortsBefore'
      BY <3>1 DEF SlotInv, AheadSortsBefore
    <3>5. OverdueOneAtATime'
      <4>1. Overdue(j) => \A k \in Managed : since[k] >= Bound
        BY DEF Overdue, LiveHolders
      <4>2. \A k \in Jobs : k # j => since'[k] = since[k] /\ late'[k] = late[k]
        BY <3>1
      <4>3. late'[j] = Overdue(j)
        BY <3>1
      <4>4. \A k \in Managed' : k = j \/ k \in Managed
        BY <3>1
      <4>. QED  BY <4>1, <4>2, <4>3, <4>4 DEF SlotInv, OverdueOneAtATime
    <3>. QED  BY <3>2, <3>3, <3>4, <3>5 DEF SlotInv
  <2>2. CASE pc'[j] = "unmanaged"
    <3>1. Goes(j, "unmanaged")
      BY <1>4, <2>2 DEF Decide
    <3>. QED  BY <1>4, <3>1, SlotInvLeave DEF Decide
  <2>3. CASE pc'[j] = "asleep"
    <3>1. /\ Goes(j, "asleep") /\ UNCHANGED <<before, ahead, since, late>> /\ pc[j] = "read"
          /\ \A k \in Jobs : k # j => shown'[k] = shown[k] /\ readAge'[k] = readAge[k]
      BY <1>4, <2>3 DEF Decide
    <3>2. StartsAtOnce' /\ OverdueOneAtATime'
      BY <3>1 DEF SlotInv, StartsAtOnce, OverdueOneAtATime
    <3>3. AheadSortsBefore' /\ FirstComeFirstServed'
      BY <3>1 DEF SlotInv, AheadSortsBefore, FirstComeFirstServed
    <3>. QED  BY <3>2, <3>3 DEF SlotInv
  <2>. QED  BY <1>4, <2>1, <2>2, <2>3 DEF Decide
<1>5. CASE Start(j)
  <2>. USE <1>5 DEF Start, Goes, Waiting, Started, Managed, TypeOK, reading
  <2>1. StartsAtOnce' /\ OverdueOneAtATime'
    BY DEF SlotInv, StartsAtOnce, OverdueOneAtATime
  <2>2. AheadSortsBefore' /\ FirstComeFirstServed'
    BY DEF SlotInv, AheadSortsBefore, FirstComeFirstServed
  <2>. QED  BY <2>1, <2>2 DEF SlotInv
<1>6. CASE Finish(j)
  BY <1>6, SlotInvLeave DEF Finish, Started, reading
<1>7. CASE FailOpen(j)
  BY <1>7, SlotInvLeave DEF FailOpen, TypeOK
<1>8. CASE Die(j)
  BY <1>8, SlotInvLeave DEF Die, TypeOK, Waiting
<1>9. CASE Allocate(j)
  BY <1>9 DEF Allocate, reading, Waiting, Managed, SlotInv, StartsAtOnce, AheadSortsBefore,
              FirstComeFirstServed, OverdueOneAtATime
<1>. QED  BY <1>1, <1>2, <1>3, <1>4, <1>5, <1>6, <1>7, <1>8, <1>9 DEF Moves

\* What the properties of the queue and of the slots rest on.
THEOREM SlotInvCorrect == Spec => [](TypeOK /\ SlotInv)
<1>1. Init => SlotInv
  BY DEF Init, SlotInv, StartsAtOnce, AheadSortsBefore, FirstComeFirstServed,
         OverdueOneAtATime, Managed
<1>2. TypeOK /\ SlotInv /\ [Next]_vars => SlotInv'
  <2>1. TypeOK /\ SlotInv /\ UNCHANGED vars => SlotInv'
    BY DEF SlotInv, StartsAtOnce, AheadSortsBefore, FirstComeFirstServed,
           OverdueOneAtATime, Managed, Waiting, vars, reading
  <2>. QED  BY <2>1, SlotInvShared, SlotInvJob DEF Next
<1>. QED  BY <1>1, <1>2, SlotTypeCorrect, PTL DEF Spec

\* A job in a slot left nobody waiting who was queued before it came.
THEOREM FirstComeFirstServedHolds == Spec => []FirstComeFirstServed
<1>1. TypeOK /\ SlotInv => FirstComeFirstServed
  BY DEF SlotInv
<1>. QED  BY <1>1, SlotInvCorrect, PTL

\* Of two overdue jobs in slots, one is older than the bound.
THEOREM OverdueOneAtATimeHolds == Spec => []OverdueOneAtATime
<1>1. TypeOK /\ SlotInv => OverdueOneAtATime
  BY DEF SlotInv
<1>. QED  BY <1>1, SlotInvCorrect, PTL

-----------------------------------------------------------------------------
(***************************************************************************)
(* Why the queue cannot wedge itself: the order of the names.              *)
(***************************************************************************)

\* A job that comes sorts after everyone it sees, and nobody sorts after it yet.
LEMMA NamesStep ==
  ASSUME TypeOK, NamesInOrder, [Next]_vars
  PROVE  NamesInOrder'
<1>1. CASE UNCHANGED vars \/ Sweep \/ Tick
  <2>1. before' = before /\ \A k \in Jobs : pc'[k] = "idle" => pc[k] = "idle"
    BY <1>1 DEF vars, Sweep, Tick, TypeOK
  <2>. QED  BY <2>1 DEF NamesInOrder
<1>2. ASSUME NEW j \in Jobs, Moves(j) \/ Allocate(j) \/ FailOpen(j) \/ Die(j)
      PROVE  NamesInOrder'
  <2>1. before' = before /\ \A k \in Jobs : pc'[k] = "idle" => pc[k] = "idle"
    BY <1>2 DEF Moves, Enqueue, Read, Decide, Start, Finish, Allocate, FailOpen, Die, Goes, TypeOK
  <2>. QED  BY <2>1 DEF NamesInOrder
<1>3. ASSUME NEW j \in Jobs, Arrive(j)
      PROVE  NamesInOrder'
  <2>1. /\ pc[j] = "idle" /\ pc'[j] # "idle"
        /\ \A k \in Jobs : k # j => pc'[k] = pc[k] /\ before'[k] = before[k]
        /\ before'[j] = before[j] \/ before'[j] = {k \in Jobs : pc[k] = "named"} \cup LiveTickets
    BY <1>3 DEF Arrive, CanArrive, Goes, TypeOK
  <2>2. \A k \in Jobs : j \notin before[k]
    BY <2>1 DEF NamesInOrder
  <2>3. \A k \in Jobs : pc'[k] = "idle" => k \notin before'[j]
    BY <2>1 DEF NamesInOrder, LiveTickets, Waiting
  <2>4. j \notin before'[j]
    BY <2>1, <2>2 DEF LiveTickets, Waiting
  <2>5. ASSUME NEW S \in SUBSET Jobs, S # {}
        PROVE  \E k \in S : before'[k] \cap S = {}
    <3>1. CASE S \ {j} = {}
      BY <2>4, <2>5, <3>1
    <3>2. CASE S \ {j} # {}
      <4>1. PICK k \in S \ {j} : before[k] \cap (S \ {j}) = {}
        BY <3>2 DEF NamesInOrder
      <4>. QED  BY <4>1, <2>1, <2>2
    <3>. QED  BY <3>1, <3>2
  <2>6. \A i, k \in Jobs : pc'[k] = "idle" => k \notin before'[i]
    BY <2>1, <2>3 DEF NamesInOrder
  <2>. QED  BY <2>5, <2>6 DEF NamesInOrder
<1>. QED  BY <1>1, <1>2, <1>3 DEF Next

\* While anyone waits, somebody living is the head of the queue: no ring of waiters,
\* and no ticket of a dead one, can stop it.
THEOREM SomeoneIsNextHolds == Spec => []SomeoneIsNext
<1>1. Init => NamesInOrder
  BY DEF Init, NamesInOrder
<1>2. TypeOK /\ NamesInOrder => SomeoneIsNext
  <2>. SUFFICES ASSUME TypeOK, NamesInOrder, Queued # {}
                PROVE  \E j \in Queued : IsHead(j)
    BY DEF SomeoneIsNext
  <2>1. LiveTickets = Queued
    BY DEF LiveTickets, Queued, TypeOK
  <2>. QED  BY <2>1 DEF NamesInOrder, IsHead, Queued
<1>. QED  BY <1>1, <1>2, NamesStep, SlotTypeCorrect, PTL DEF Spec

\* Those that a job still has to let go first: with a ticket, or on the way to one.
StillAhead(j) == {k \in before[j] : pc[k] \in {"named", "admitted"} \cup Waiting}

\* Being the head of the queue does not last, since a job with an earlier name may make its
\* ticket later; but from its arrival on, those a job has to let go first only grow fewer.
THEOREM NobodyJoinsAhead ==
  Spec => [][\A j \in Jobs : pc[j] # "idle" => StillAhead(j)' \subseteq StillAhead(j)]_vars
<1>1. TypeOK /\ NamesInOrder /\ [Next]_vars =>
        [\A j \in Jobs : pc[j] # "idle" => StillAhead(j)' \subseteq StillAhead(j)]_vars
  <2>. SUFFICES ASSUME TypeOK, NamesInOrder, [Next]_vars, NEW j \in Jobs, pc[j] # "idle"
                PROVE  StillAhead(j)' \subseteq StillAhead(j)
    OBVIOUS
  <2>. DEFINE Coming == {"named", "admitted"} \cup Waiting
  \* Whoever has come does not come again.
  <2>1. before'[j] = before[j] /\ \A k \in Jobs : pc'[k] \in Coming => pc[k] \in Coming \cup {"idle"}
    <3>1. CASE UNCHANGED vars \/ Sweep \/ Tick
      BY <3>1 DEF vars, Sweep, Tick, TypeOK, Waiting
    <3>2. ASSUME NEW i \in Jobs, Arrive(i)
          PROVE  before'[j] = before[j] /\ \A k \in Jobs : pc'[k] \in Coming => pc[k] \in Coming \cup {"idle"}
      BY <3>2 DEF Arrive, CanArrive, Goes, TypeOK
    <3>3. ASSUME NEW i \in Jobs, Moves(i) \/ Allocate(i) \/ FailOpen(i) \/ Die(i)
          PROVE  before' = before /\ \A k \in Jobs : pc'[k] \in Coming => pc[k] \in Coming
      BY <3>3 DEF Moves, Enqueue, Read, Decide, Start, Finish, Allocate, FailOpen, Die, Goes,
                  TypeOK, Waiting
    <3>. QED  BY <3>1, <3>2, <3>3 DEF Next
  <2>2. \A k \in before[j] : k \in Jobs /\ pc[k] # "idle"
    BY DEF NamesInOrder, TypeOK
  <2>. QED  BY <2>1, <2>2 DEF StillAhead
<1>2. Init => NamesInOrder
  BY DEF Init, NamesInOrder
<1>. QED  BY <1>1, <1>2, NamesStep, SlotTypeCorrect, PTL DEF Spec

-----------------------------------------------------------------------------
(***************************************************************************)
(* The memory floor: what a reading shows bounds what the grown commands   *)
(* use, so what a decision compares bounds what the slots come to.         *)
(***************************************************************************)
Answered == Managed \ grown   \* the jobs in slots that are answered for

LEMMA CountedType ==
  ASSUME TypeOK
  PROVE  counted \in [Jobs -> Nat] /\ use \in [Jobs -> Nat] /\ Gb \in [Jobs -> Nat]
  BY ConstantsAssumption DEF TypeOK, counted

\* What a step does to a job in a slot: it grows old by its tick, and takes more memory
\* when it is old only at the price of not being answered for.
LEMMA AnsweredStep ==
  ASSUME TypeOK, SlotInv, [Next]_vars, NEW k \in Answered', k \in Managed
  PROVE  /\ k \in Answered
         /\ since'[k] >= since[k]
         /\ since[k] >= Ramp => use'[k] <= use[k]
<1>. USE ConstantsAssumption
<1>1. k \in Jobs /\ k \notin grown'
  BY DEF Answered, Managed
<1>2. CASE UNCHANGED vars \/ Sweep
  BY <1>1, <1>2 DEF vars, memory, Sweep, TypeOK, Answered, Managed
<1>3. CASE Tick
  <2>1. pc[k] = "running" /\ use' = use /\ grown' = grown
    BY <1>3 DEF Tick, Managed, memory
  <2>2. since'[k] >= since[k]
    BY <1>1, <1>3, <2>1 DEF Tick, OneMore, TypeOK
  <2>. QED  BY <1>1, <2>1, <2>2 DEF TypeOK, Answered
<1>4. ASSUME NEW j \in Jobs, Arrive(j) \/ Enqueue(j) \/ Read(j) \/ Start(j)
      PROVE  use' = use /\ grown' = grown /\ since' = since
  BY <1>4 DEF Arrive, Enqueue, Read, Start, memory
<1>5. ASSUME NEW j \in Jobs, Decide(j)
      PROVE  use' = use /\ grown' = grown /\ since'[k] = since[k]
  <2>1. k # j
    BY <1>5 DEF Decide, Managed
  <2>. QED  BY <1>1, <1>5, <2>1 DEF Decide, memory, TypeOK
<1>6. ASSUME NEW j \in Jobs, Finish(j) \/ FailOpen(j) \/ Die(j)
      PROVE  use'[k] <= use[k] /\ grown' = grown /\ since'[k] = since[k]
  <2>1. k # j \/ use'[k] = 0 \/ use' = use
    BY <1>1, <1>6 DEF Finish, FailOpen, Die, TypeOK, memory
  <2>2. use'[k] <= use[k]
    BY <1>1, <1>6, <2>1 DEF Finish, FailOpen, Die, TypeOK, memory
  <2>3. grown' = grown
    BY <1>6 DEF Finish, FailOpen, Die, memory
  <2>4. since'[k] = since[k]
    BY <1>1, <1>6 DEF Finish, FailOpen, Die, TypeOK, Managed, Waiting, CanArrive
  <2>. QED  BY <2>2, <2>3, <2>4
<1>7. ASSUME NEW j \in Jobs, Allocate(j)
      PROVE  k \notin grown /\ since' = since /\ (since[k] >= Ramp => use'[k] <= use[k])
  <2>1. pc[k] = "admitted" => k # j
    BY <1>7 DEF Allocate, Using
  <2>2. CASE k # j
    BY <1>1, <1>7, <2>2 DEF Allocate, TypeOK
  <2>3. CASE k = j
    <3>1. pc[k] = "running"
      BY <2>1, <2>3 DEF Managed
    <3>2. PICK u \in 0..Gb[j] :
            /\ use' = [use EXCEPT ![j] = u]
            /\ grown' = IF pc[j] = "running" /\ since[j] >= Ramp /\ u > use[j]
                        THEN grown \cup {j} ELSE grown
      BY <1>7 DEF Allocate
    <3>3. Gb[j] \in Nat /\ use[j] \in Nat /\ use'[j] = u
      BY <3>2 DEF TypeOK
    <3>. QED  BY <1>1, <1>7, <2>3, <3>1, <3>2, <3>3 DEF Allocate
  <2>. QED  BY <2>2, <2>3
<1>8. since[k] \in Nat /\ use[k] \in Nat
  BY <1>1 DEF TypeOK
<1>. QED  BY <1>1, <1>2, <1>3, <1>4, <1>5, <1>6, <1>7, <1>8 DEF Next, Moves, Answered

\* Only a start puts a job into a slot, and what it is promised had room.
LEMMA StartStep ==
  ASSUME TypeOK, [Next]_vars
  PROVE  \/ Managed' \subseteq Managed
         \/ \E j \in Jobs : /\ pc[j] = "read" /\ pc'[j] = "admitted" /\ Fits(j)
                            /\ since'[j] = 0
                            /\ Managed' \subseteq Managed \cup {j}
<1>1. CASE UNCHANGED vars \/ Sweep \/ Tick
  BY <1>1 DEF vars, Sweep, Tick, Managed, TypeOK
<1>2. ASSUME NEW j \in Jobs, Decide(j)
      PROVE  \/ Managed' \subseteq Managed
             \/ /\ pc[j] = "read" /\ pc'[j] = "admitted" /\ Fits(j)
                /\ since'[j] = 0
                /\ Managed' \subseteq Managed \cup {j}
  BY <1>2 DEF Decide, MayStart, Goes, Managed, TypeOK
<1>3. ASSUME NEW j \in Jobs, Arrive(j) \/ Enqueue(j) \/ Read(j) \/ Start(j) \/ Finish(j)
                                \/ Allocate(j) \/ FailOpen(j) \/ Die(j)
      PROVE  Managed' \subseteq Managed
  BY <1>3 DEF Arrive, Enqueue, Read, Start, Finish, Allocate, FailOpen, Die, Goes, Managed, TypeOK
<1>. QED  BY <1>1, <1>2, <1>3 DEF Next, Moves

\* A reading is taken now, or was kept while it grew old with what it had shown.
LEMMA ReadingStep ==
  ASSUME TypeOK, [Next]_vars, NEW j \in Jobs, pc'[j] = "read", ~Read(j)
  PROVE  /\ pc[j] = "read" /\ shown'[j] = shown[j]
         /\ \A k \in Managed : since'[k] >= Ramp + readAge'[j] => since[k] >= Ramp + readAge[j]
<1>. USE ConstantsAssumption
<1>1. CASE UNCHANGED vars \/ Sweep
  BY <1>1 DEF vars, reading, Sweep
<1>2. CASE Tick
  <2>1. pc[j] = "read" /\ readAge'[j] = readAge[j] + 1 /\ shown' = shown
    BY <1>2 DEF Tick, TypeOK
  <2>2. \A k \in Managed : pc[k] = "running"
    BY <1>2 DEF Tick, Managed
  <2>3. \A k \in Managed : since'[k] \in Nat /\ since'[k] <= since[k] + 1
    BY <1>2, <2>2 DEF Tick, OneMore, Managed, TypeOK
  <2>4. readAge[j] \in Nat /\ \A k \in Managed : since[k] \in Nat
    BY DEF TypeOK, Managed
  <2>. QED  BY <2>1, <2>3, <2>4
<1>3. ASSUME NEW i \in Jobs, Arrive(i) \/ Enqueue(i) \/ Start(i) \/ Finish(i) \/ Allocate(i)
      PROVE  pc[j] = "read" /\ shown' = shown /\ readAge' = readAge /\ since' = since
  BY <1>3 DEF Arrive, Enqueue, Start, Finish, Allocate, Goes, reading, TypeOK
<1>4. ASSUME NEW i \in Jobs, Read(i) \/ Decide(i) \/ FailOpen(i) \/ Die(i)
      PROVE  /\ pc[j] = "read" /\ shown'[j] = shown[j] /\ readAge'[j] = readAge[j]
             /\ \A k \in Managed : since'[k] = since[k] \/ since'[k] = 0
  <2>1. i # j
    BY <1>4 DEF Decide, FailOpen, Die, Goes, TypeOK
  <2>. QED  BY <1>4, <2>1 DEF Read, Decide, FailOpen, Die, Goes, TypeOK, Managed
<1>5. readAge[j] \in Nat /\ \A k \in Managed : since[k] \in Nat
  BY DEF TypeOK, Managed
<1>. QED  BY <1>1, <1>2, <1>3, <1>4, <1>5 DEF Next, Moves

\* What grew before a reading and has not grown since, uses no more than it showed.
LEMMA CoversStep ==
  ASSUME TypeOK, TypeOK', SlotInv, ReadingCovers, [Next]_vars
  PROVE  ReadingCovers'
<1>. SUFFICES ASSUME NEW j \in Jobs, pc'[j] = "read"
              PROVE  Total(use', Settled(j)') <= shown'[j]
  BY DEF ReadingCovers
<1>. USE ConstantsAssumption
<1>1. use \in [Jobs -> Nat] /\ use' \in [Jobs -> Nat]
  BY DEF TypeOK
<1>2. Settled(j)' \in SUBSET Jobs /\ Settled(j) \in SUBSET Jobs
  BY DEF Settled, Managed
<1>3. CASE Read(j)
  <2>1. shown'[j] = Total(use, Using) /\ use' = use /\ Using \in SUBSET Jobs
    BY <1>3 DEF Read, memory, TypeOK, Using
  <2>2. Settled(j)' \subseteq Using
    <3>. SUFFICES ASSUME NEW k \in Settled(j)' PROVE k \in Using
      OBVIOUS
    <3>1. k \in Jobs /\ pc'[k] \in {"admitted", "running"} /\ since'[k] >= Ramp + readAge'[j]
      BY DEF Settled, Managed
    <3>2. pc[k] = pc'[k] /\ since'[k] = since[k] /\ readAge'[j] = 0 /\ since[k] \in Nat
      BY <1>3, <3>1 DEF Read, Goes, TypeOK
    <3>3. pc[k] # "admitted"
      BY <3>1, <3>2 DEF SlotInv, StartsAtOnce
    <3>. QED  BY <3>1, <3>2, <3>3 DEF Using
  <2>. QED  BY <2>1, <2>2, <1>1, TotalOfFewer
<1>4. CASE ~Read(j)
  <2>1. /\ pc[j] = "read" /\ shown'[j] = shown[j]
        /\ \A k \in Managed : since'[k] >= Ramp + readAge'[j] => since[k] >= Ramp + readAge[j]
    BY <1>4, ReadingStep
  <2>2. ASSUME NEW k \in Settled(j)'
        PROVE  k \in Settled(j) /\ use'[k] <= use[k]
    <3>1. k \in Answered' /\ k \in Managed' /\ since'[k] >= Ramp + readAge'[j]
      BY DEF Settled, Answered
    <3>2. since'[k] # 0 /\ readAge[j] \in Nat /\ since[k] \in Nat
      BY <3>1 DEF TypeOK, Managed
    <3>3. k \in Managed
      <4>1. CASE Managed' \subseteq Managed
        BY <4>1, <3>1
      <4>2. CASE \E i \in Jobs : since'[i] = 0 /\ Managed' \subseteq Managed \cup {i}
        BY <4>2, <3>1, <3>2
      <4>. QED  BY <4>1, <4>2, StartStep
    <3>4. k \in Answered /\ (since[k] >= Ramp => use'[k] <= use[k])
      BY <3>1, <3>3, AnsweredStep
    <3>5. since[k] >= Ramp + readAge[j]
      BY <2>1, <3>1, <3>3
    <3>. QED  BY <3>2, <3>4, <3>5 DEF Settled, Answered
  <2>3. Total(use', Settled(j)') <= Total(use, Settled(j)')
    BY <1>1, <1>2, <2>2, TotalOfLess
  <2>4. Total(use, Settled(j)') <= Total(use, Settled(j))
    BY <1>1, <1>2, <2>2, TotalOfFewer
  <2>5. Total(use, Settled(j)) <= shown[j]
    BY <2>1 DEF ReadingCovers
  <2>6. /\ Total(use', Settled(j)') \in Nat /\ Total(use, Settled(j)') \in Nat
        /\ Total(use, Settled(j)) \in Nat /\ shown[j] \in Nat
    BY <1>1, <1>2, TotalType DEF TypeOK
  <2>. QED  BY <2>1, <2>3, <2>4, <2>5, <2>6
<1>. QED  BY <1>3, <1>4

\* A start is granted what neither the reading nor the recent reservations take.
LEMMA StartFits ==
  ASSUME TypeOK, ReadingCovers, NEW j \in Jobs, pc[j] = "read", Fits(j)
  PROVE  Total(counted, Answered) + Gb[j] <= Memory
<1>. DEFINE R == {k \in Answered : since[k] < Recent}
            O == {k \in Answered : ~(since[k] < Recent)}
<1>1. counted \in [Jobs -> Nat] /\ use \in [Jobs -> Nat] /\ Gb \in [Jobs -> Nat]
  BY CountedType
<1>2. /\ R \in SUBSET Jobs /\ O \in SUBSET Jobs /\ Answered = R \cup O
      /\ Recents \in SUBSET Jobs /\ Settled(j) \in SUBSET Jobs
  BY DEF Answered, Managed, Recents, LiveHolders, Settled, TypeOK
<1>3. \A k \in R : counted[k] = Gb[k] /\ k \in Recents
  BY DEF Answered, Managed, counted, Recents, LiveHolders, TypeOK
<1>4. \A k \in O : counted[k] = use[k] /\ k \in Settled(j)
  BY ConstantsAssumption DEF Answered, Managed, counted, Settled, TypeOK
<1>. HIDE DEF R, O
<1>5. Total(counted, Answered) <= Total(counted, R) + Total(counted, O)
  BY <1>1, <1>2, TotalOfUnion
<1>6. Total(counted, R) <= Total(Gb, R) /\ Total(Gb, R) <= Total(Gb, Recents)
  <2>1. \A k \in R : counted[k] <= Gb[k]
    BY <1>1, <1>2, <1>3
  <2>. QED  BY <1>1, <1>2, <1>3, <2>1, TotalOfLess, TotalOfFewer
<1>7. Total(counted, O) <= Total(use, O) /\ Total(use, O) <= Total(use, Settled(j))
  <2>1. \A k \in O : counted[k] <= use[k]
    BY <1>1, <1>2, <1>4
  <2>. QED  BY <1>1, <1>2, <1>4, <2>1, TotalOfLess, TotalOfFewer
<1>8. Total(use, Settled(j)) <= shown[j] /\ shown[j] + Total(Gb, Recents) + Gb[j] <= Memory
  BY DEF ReadingCovers, Fits
<1>9. /\ Total(counted, Answered) \in Nat /\ Total(counted, R) \in Nat /\ Total(counted, O) \in Nat
      /\ Total(Gb, R) \in Nat /\ Total(Gb, Recents) \in Nat
      /\ Total(use, O) \in Nat /\ Total(use, Settled(j)) \in Nat
      /\ shown[j] \in Nat /\ Gb[j] \in Nat /\ Memory \in Nat
  <2>1. Answered \in SUBSET Jobs
    BY <1>2
  <2>. QED  BY <1>1, <1>2, <2>1, TotalType, ConstantsAssumption DEF TypeOK
<1>. QED  BY <1>5, <1>6, <1>7, <1>8, <1>9

\* No step makes the slots come to more than there is.
LEMMA FloorStep ==
  ASSUME TypeOK, TypeOK', SlotInv, ReadingCovers, NoOvercommit, [Next]_vars
  PROVE  NoOvercommit'
<1>. USE ConstantsAssumption
<1>1. /\ counted \in [Jobs -> Nat] /\ counted' \in [Jobs -> Nat]
      /\ Answered \in SUBSET Jobs /\ Answered' \in SUBSET Jobs
      /\ Total(counted, Answered) <= Memory
  BY CountedType DEF Answered, Managed, NoOvercommit, TypeOK, counted
\* A job that stays counts for no more.
<1>2. ASSUME NEW k \in Answered', k \in Managed
      PROVE  k \in Answered /\ counted'[k] <= counted[k]
  <2>1. /\ k \in Answered /\ since'[k] >= since[k]
        /\ since[k] >= Ramp => use'[k] <= use[k]
    BY <1>2, AnsweredStep
  <2>2. k \in Jobs /\ use'[k] <= Gb[k] /\ use[k] \in Nat /\ use'[k] \in Nat /\ Gb[k] \in Nat
        /\ since[k] \in Nat /\ since'[k] \in Nat
    BY <1>1, <2>1 DEF TypeOK
  <2>3. counted[k] = IF since[k] < Recent THEN Gb[k] ELSE use[k]
    BY <2>2 DEF counted
  <2>4. counted'[k] = IF since'[k] < Recent THEN Gb[k] ELSE use'[k]
    BY <2>2 DEF counted
  <2>. QED  BY <2>1, <2>2, <2>3, <2>4
<1>3. CASE Managed' \subseteq Managed
  <2>1. \A k \in Answered' : k \in Answered /\ counted'[k] <= counted[k]
    BY <1>2, <1>3 DEF Answered
  <2>2. Total(counted', Answered') <= Total(counted, Answered')
    BY <1>1, <2>1, TotalOfLess
  <2>3. Total(counted, Answered') <= Total(counted, Answered)
    BY <1>1, <2>1, TotalOfFewer
  <2>4. /\ Total(counted', Answered') \in Nat /\ Total(counted, Answered') \in Nat
        /\ Total(counted, Answered) \in Nat
    BY <1>1, TotalType
  <2>. QED  BY <1>1, <2>2, <2>3, <2>4 DEF NoOvercommit, Answered
<1>4. ASSUME NEW j \in Jobs, pc[j] = "read", Fits(j), since'[j] = 0,
             Managed' \subseteq Managed \cup {j}
      PROVE  NoOvercommit'
  <2>. DEFINE Rest == Answered' \ {j}
  <2>1. Rest \in SUBSET Jobs /\ Rest \cup {j} \in SUBSET Jobs
    BY <1>1
  <2>2. \A k \in Rest : k \in Answered /\ counted'[k] <= counted[k]
    BY <1>2, <1>4 DEF Answered
  <2>. HIDE DEF Rest
  <2>3. Total(counted', Rest) <= Total(counted, Rest)
    BY <1>1, <2>1, <2>2, TotalOfLess
  <2>4. Total(counted, Rest) <= Total(counted, Answered)
    BY <1>1, <2>2, TotalOfFewer
  <2>5. Total(counted, Answered) + Gb[j] <= Memory
    BY <1>4, StartFits
  <2>6. counted'[j] = Gb[j]
    BY <1>4 DEF counted
  <2>7. (Rest \cup {j}) \ {j} = Rest /\ Answered' \subseteq Rest \cup {j}
    BY DEF Rest
  <2>8. Total(counted', Rest \cup {j}) = Gb[j] + Total(counted', Rest)
    <3>1. j \in Rest \cup {j}
      OBVIOUS
    <3>2. Total(counted', Rest \cup {j}) = counted'[j] + Total(counted', (Rest \cup {j}) \ {j})
      BY <1>1, <2>1, <3>1, TotalWithout
    <3>. QED  BY <2>6, <2>7, <3>2
  <2>9. Total(counted', Answered') <= Total(counted', Rest \cup {j})
    BY <1>1, <2>1, <2>7, TotalOfFewer
  <2>10. /\ Total(counted', Answered') \in Nat /\ Total(counted', Rest) \in Nat
         /\ Total(counted, Rest) \in Nat /\ Total(counted, Answered) \in Nat
         /\ Total(counted', Rest \cup {j}) \in Nat /\ Gb[j] \in Nat /\ Memory \in Nat
    BY <1>1, <2>1, TotalType
  <2>11. Total(counted', Answered') <= Memory
    BY <2>3, <2>4, <2>5, <2>8, <2>9, <2>10
  <2>. QED  BY <2>11 DEF NoOvercommit, Answered
<1>. QED  BY <1>3, <1>4, StartStep

\* What the commands in slots use, with all that was promised to the recent ones, never
\* exceeds the memory there is, for any jobs of any sizes, any use they make of what they
\* reserved and any delays the assumption allows; a job that grew when it was old is not
\* answered for, and takes nothing from the others' answer.
THEOREM NoOvercommitHolds == Spec => []NoOvercommit
<1>1. Init => NoOvercommit /\ ReadingCovers
  <2>. SUFFICES ASSUME Init PROVE NoOvercommit /\ ReadingCovers
    OBVIOUS
  <2>1. Managed \ grown = {}
    BY DEF Init, Managed
  <2>2. Total(counted, {}) = 0
    BY TotalStep, FS_EmptySet
  <2>3. \A j \in Jobs : pc[j] # "read"
    BY DEF Init
  <2>. QED  BY <2>1, <2>2, <2>3, ConstantsAssumption DEF NoOvercommit, ReadingCovers
<1>2. TypeOK /\ TypeOK' /\ SlotInv /\ ReadingCovers /\ NoOvercommit /\ [Next]_vars
        => ReadingCovers' /\ NoOvercommit'
  BY CoversStep, FloorStep
<1>. QED  BY <1>1, <1>2, SlotInvCorrect, PTL DEF Spec

-----------------------------------------------------------------------------
(***************************************************************************)
(* BoardCache.  The stamp bounds what the rows may be only through the     *)
(* moment at which both were read; what carries it over the steps in       *)
(* between is that, as long as nothing overlapped, a refresh in progress   *)
(* holds the board as it is.                                               *)
(***************************************************************************)

\* Who has rows of its own in place, and its stamp not.
Placed(r) == reader[r].at \in {"reprobe", "openstamp", "stamp"}
Stamping(r) == reader[r].at \in {"openstamp", "stamp"}

\* Nothing that was read is newer than the board.
PastOnly ==
  /\ \A r \in Readers : reader[r].live <= board
  /\ stamp.of <= board

\* Without an overlap, a refresh holds the board as it is now, and so does the rows file
\* once it is in place.
HeldIsBoard ==
  ~overlap =>
    \A r \in Readers :
      /\ Refreshing(r) => reader[r].rows = board
      /\ Stamping(r) => reader[r].live = board
      /\ Placed(r) /\ rows.is = "whole" => rows.of = board

BoardInv == BoardTypeOK /\ PastOnly /\ HeldIsBoard /\ RowsAsStamped

Steps(r) ==
  \/ GetReads(r) \/ GetCompares(r) \/ GetAges(r) \/ GetScans(r)
  \/ GetOpens(r) \/ GetFills(r) \/ GetOpensStamp(r) \/ GetStamps(r)
  \/ FullScans(r) \/ FullOpens(r) \/ FullFills(r) \/ ReaderFails(r)
  \/ \E answers \in BOOLEAN : GetProbes(r, answers) \/ GetReprobes(r, answers)
  \/ \E force \in BOOLEAN : FullReads(r, force)

-----------------------------------------------------------------------------
LEMMA BoardInvInit == BoardInit => BoardInv
<1> SUFFICES ASSUME BoardInit PROVE BoardInv
  OBVIOUS
<1> USE BoardCacheAssumption DEF BoardInit, Idle
<1>1. BoardTypeOK
  <2> USE DEF Versions, Ages
  <2>1. rows \in [is: {"absent", "torn", "whole"}, of: Versions, age: Ages]
    OBVIOUS
  <2>2. stamp \in [is: {"absent", "torn", "whole"}, of: Versions]
    OBVIOUS
  <2>3. reader \in [Readers -> [at: ReaderSteps, rows: Versions, live: Versions]]
    BY DEF ReaderSteps
  <2> QED
    BY <2>1, <2>2, <2>3 DEF BoardTypeOK
<1>2. PastOnly
  BY DEF PastOnly
<1>3. HeldIsBoard /\ RowsAsStamped
  BY DEF HeldIsBoard, RowsAsStamped, Refreshing, Unstamped, Stamping, Placed
<1> QED
  BY <1>1, <1>2, <1>3 DEF BoardInv

LEMMA TypeStep == BoardTypeOK /\ [BoardNext]_boardVars => BoardTypeOK'
<1> SUFFICES ASSUME BoardTypeOK, [BoardNext]_boardVars PROVE BoardTypeOK'
  OBVIOUS
<1> USE BoardCacheAssumption DEF BoardTypeOK, Versions, Ages, ReaderSteps
<1>1. ASSUME NEW r \in Readers, Steps(r) PROVE BoardTypeOK'
  <2>1. CASE GetReads(r)
    BY <2>1 DEF GetReads, Free, boardFiles
  <2>2. CASE GetCompares(r)
    BY <2>2 DEF GetCompares, ReaderMoves, At, boardFiles
  <2>3. CASE GetAges(r)
    BY <2>3 DEF GetAges, ReaderMoves, Leaves, Idle, At, boardFiles
  <2>4. CASE GetScans(r)
    BY <2>4 DEF GetScans, boardFiles
  <2>5. CASE GetOpens(r) \/ FullOpens(r)
    <3>1. PICK to \in {"fill", "fullfill"} : ReaderMoves(r, to)
      BY <2>5 DEF GetOpens, FullOpens, OpenRows
    <3>2. /\ rows' = [is |-> "torn", of |-> 0, age |-> 0]
          /\ UNCHANGED <<board, stamp>> /\ Writing(r)
      BY <2>5 DEF GetOpens, FullOpens, OpenRows
    <3>3. reader' \in [Readers -> [at: ReaderSteps, rows: Versions, live: Versions]]
      BY <3>1 DEF ReaderMoves
    <3> QED
      BY <3>2, <3>3 DEF Writing
  <2>6. CASE GetFills(r)
    BY <2>6 DEF GetFills, ReaderMoves, Writing
  <2>7. CASE GetOpensStamp(r)
    BY <2>7 DEF GetOpensStamp, ReaderMoves, Writing
  <2>8. CASE GetStamps(r)
    BY <2>8 DEF GetStamps, Leaves, Idle, Writing
  <2>9. CASE FullScans(r)
    BY <2>9 DEF FullScans, boardFiles
  <2>10. CASE FullFills(r)
    BY <2>10 DEF FullFills, Leaves, Idle, Writing
  <2>11. CASE ReaderFails(r)
    BY <2>11 DEF ReaderFails, Leaves, Idle, boardFiles
  <2>12. ASSUME NEW answers \in BOOLEAN, GetProbes(r, answers) PROVE BoardTypeOK'
    <3>1. CASE answers
      <4> DEFINE new == [reader[r] EXCEPT !.at = "compare", !.live = board]
      <4>1. new \in [at: ReaderSteps, rows: Versions, live: Versions]
        OBVIOUS
      <4>2. reader' = [reader EXCEPT ![r] = new]
        BY <2>12, <3>1 DEF GetProbes
      <4> QED
        BY <2>12, <4>1, <4>2 DEF GetProbes, boardFiles
    <3>2. CASE ~answers
      BY <2>12, <3>2 DEF GetProbes, boardFiles
    <3> QED
      BY <3>1, <3>2
  <2>13. ASSUME NEW answers \in BOOLEAN, GetReprobes(r, answers) PROVE BoardTypeOK'
    BY <2>13 DEF GetReprobes, Leaves, Idle, boardFiles
  <2>14. ASSUME NEW force \in BOOLEAN, FullReads(r, force) PROVE BoardTypeOK'
    BY <2>14 DEF FullReads, Leaves, Idle, ReaderMoves, boardFiles
  <2> QED
    BY <1>1, <2>1, <2>2, <2>3, <2>4, <2>5, <2>6, <2>7, <2>8, <2>9, <2>10, <2>11, <2>12, <2>13, <2>14
    DEF Steps
<1>2. CASE InvalidateRows
  BY <1>2 DEF InvalidateRows
<1>3. CASE InvalidateStamp
  BY <1>3 DEF InvalidateStamp
<1>4. CASE EditBoard
  BY <1>4 DEF EditBoard, boardFiles
<1>5. CASE BoardTick
  BY <1>5 DEF BoardTick
<1>6. CASE UNCHANGED boardVars
  BY <1>6 DEF boardVars, boardFiles
<1> QED
  BY <1>1, <1>2, <1>3, <1>4, <1>5, <1>6 DEF BoardNext, Steps

\* The types hold of every run.
THEOREM BoardTypeCorrect == BoardSpec => []BoardTypeOK
<1>1. BoardInit => BoardTypeOK
  BY BoardInvInit DEF BoardInv
<1> QED
  BY <1>1, TypeStep, PTL DEF BoardSpec

-----------------------------------------------------------------------------
(***************************************************************************)
(* What each step does to the readers, one by one.                         *)
(***************************************************************************)

LEMMA PastStep ==
  BoardTypeOK /\ PastOnly /\ [BoardNext]_boardVars => PastOnly'
<1> SUFFICES ASSUME BoardTypeOK, PastOnly, [BoardNext]_boardVars PROVE PastOnly'
  OBVIOUS
<1> USE BoardCacheAssumption DEF BoardTypeOK, PastOnly, Versions
<1>1. ASSUME NEW r \in Readers, Steps(r) PROVE PastOnly'
  <2>1. board' = board
    BY <1>1 DEF Steps, GetReads, GetCompares, GetAges, GetScans, GetOpens, FullOpens, OpenRows, GetFills,
       GetOpensStamp, GetStamps, FullScans, FullFills, ReaderFails, GetProbes, GetReprobes, FullReads
  <2>2. stamp'.of \in {stamp.of, 0, reader[r].live}
    BY <1>1 DEF Steps, GetReads, GetCompares, GetAges, GetScans, GetOpens, FullOpens, OpenRows, GetFills,
       GetOpensStamp, GetStamps, FullScans, FullFills, ReaderFails, GetProbes, GetReprobes, FullReads, boardFiles
  <2>3. \A q \in Readers : reader'[q].live \in {reader[q].live, 0, board}
    <3>1. CASE \E answers \in BOOLEAN : GetProbes(r, answers)
      <4>1. PICK answers \in BOOLEAN : GetProbes(r, answers)
        BY <3>1
      <4>2. CASE answers
        BY <4>1, <4>2 DEF GetProbes
      <4>3. CASE ~answers
        BY <4>1, <4>3 DEF GetProbes
      <4> QED
        BY <4>2, <4>3
    <3>2. CASE \E answers \in BOOLEAN : GetReprobes(r, answers)
      <4>1. PICK answers \in BOOLEAN : GetReprobes(r, answers)
        BY <3>2
      <4>2. CASE answers
        BY <4>1, <4>2 DEF GetReprobes
      <4>3. CASE ~answers
        BY <4>1, <4>3 DEF GetReprobes, Leaves, Idle
      <4> QED
        BY <4>2, <4>3
    <3>3. CASE GetReads(r) \/ GetCompares(r) \/ GetAges(r) \/ GetScans(r) \/ \E force \in BOOLEAN : FullReads(r, force)
      BY <3>3 DEF GetReads, GetCompares, GetAges, GetScans, FullReads, ReaderMoves, Leaves, Idle
    <3>4. CASE GetOpens(r) \/ FullOpens(r) \/ GetFills(r) \/ GetOpensStamp(r) \/ GetStamps(r)
      BY <3>4 DEF GetOpens, FullOpens, OpenRows, GetFills, GetOpensStamp, GetStamps, ReaderMoves, Leaves, Idle
    <3>5. CASE FullScans(r) \/ FullFills(r) \/ ReaderFails(r)
      BY <3>5 DEF FullScans, FullFills, ReaderFails, Leaves, Idle
    <3> QED
      BY <1>1, <3>1, <3>2, <3>3, <3>4, <3>5 DEF Steps
  <2> QED
    BY <2>1, <2>2, <2>3
<1>2. CASE InvalidateRows \/ InvalidateStamp \/ EditBoard \/ BoardTick
  BY <1>2 DEF InvalidateRows, InvalidateStamp, EditBoard, BoardTick, boardFiles
<1>3. CASE UNCHANGED boardVars
  BY <1>3 DEF boardVars, boardFiles
<1> QED
  BY <1>1, <1>2, <1>3 DEF BoardNext, Steps

-----------------------------------------------------------------------------
(***************************************************************************)
(* As long as nothing overlapped, what a refresh holds is the board.       *)
(***************************************************************************)

Held(r) ==
  /\ Refreshing(r) => reader[r].rows = board
  /\ Stamping(r) => reader[r].live = board
  /\ Placed(r) /\ rows.is = "whole" => rows.of = board

\* A step of another reader that writes is an overlap of this one's refresh.
LEMMA OthersKeep ==
  ASSUME BoardTypeOK, NEW r \in Readers, NEW q \in Readers \ {r}, Steps(r), Held(q),
         ~overlap'
  PROVE  Held(q)'
<1>1. reader'[q] = reader[q] /\ board' = board
  BY DEF BoardTypeOK, Steps, GetReads, GetCompares, GetAges, GetScans, GetOpens, FullOpens, OpenRows,
     GetFills, GetOpensStamp, GetStamps, FullScans, FullFills, ReaderFails, GetProbes, GetReprobes,
     FullReads, ReaderMoves, Leaves
<1>2. rows' = rows \/ ~Refreshing(q)
  BY DEF Steps, GetReads, GetCompares, GetAges, GetScans, GetOpens, FullOpens, OpenRows,
     GetFills, GetOpensStamp, GetStamps, FullScans, FullFills, ReaderFails, GetProbes, GetReprobes,
     FullReads, boardFiles, Writing
<1>3. Refreshing(q)' <=> Refreshing(q)
  BY <1>1 DEF Refreshing, Unstamped
<1> QED
  BY <1>1, <1>2, <1>3 DEF Held, Refreshing, Unstamped, Stamping, Placed

\* A refresh holds what it scanned; the file has it from the moment the rows are in place.
LEMMA OwnKept ==
  ASSUME BoardTypeOK, NEW r \in Readers, Steps(r), Held(r), ~overlap'
  PROVE  Held(r)'
<1> USE DEF BoardTypeOK, Held, Refreshing, Unstamped, Stamping, Placed
<1>1. CASE GetReads(r)
  BY <1>1 DEF GetReads
<1>2. CASE GetCompares(r) \/ GetAges(r)
  BY <1>2 DEF GetCompares, GetAges, At, ReaderMoves, Leaves, Idle
<1>3. CASE GetScans(r) \/ FullScans(r)
  BY <1>3 DEF GetScans, FullScans
<1>4. CASE GetOpens(r)
  BY <1>4 DEF GetOpens, OpenRows, At, ReaderMoves
<1>5. CASE FullOpens(r)
  BY <1>5 DEF FullOpens, OpenRows, At, ReaderMoves
<1>6. CASE GetFills(r)
  BY <1>6 DEF GetFills, At, ReaderMoves
<1>7. CASE GetOpensStamp(r)
  BY <1>7 DEF GetOpensStamp, At, ReaderMoves
<1>8. CASE GetStamps(r) \/ FullFills(r) \/ ReaderFails(r)
  BY <1>8 DEF GetStamps, FullFills, ReaderFails, Leaves, Idle
<1>9. ASSUME NEW answers \in BOOLEAN, GetProbes(r, answers) PROVE Held(r)'
  <2>1. reader'[r].at \in {"compare", "aged"}
    <3>1. CASE answers
      BY <1>9, <3>1 DEF GetProbes
    <3>2. CASE ~answers
      BY <1>9, <3>2 DEF GetProbes
    <3> QED
      BY <3>1, <3>2
  <2> QED
    BY <2>1
<1>10. ASSUME NEW answers \in BOOLEAN, GetReprobes(r, answers) PROVE Held(r)'
  <2>1. CASE answers
    <3>1. /\ reader'[r].at = "openstamp" /\ reader'[r].live = board
          /\ reader'[r].rows = reader[r].rows
      BY <1>10, <2>1 DEF GetReprobes
    <3> QED
      BY <1>10, <3>1 DEF GetReprobes, At, boardFiles
  <2>2. CASE ~answers
    BY <1>10, <2>2 DEF GetReprobes, Leaves, Idle
  <2> QED
    BY <2>1, <2>2
<1>11. ASSUME NEW force \in BOOLEAN, FullReads(r, force) PROVE Held(r)'
  BY <1>11 DEF FullReads, Leaves, Idle, ReaderMoves
<1> QED
  BY <1>1, <1>2, <1>3, <1>4, <1>5, <1>6, <1>7, <1>8, <1>9, <1>10, <1>11 DEF Steps

\* Rows are filled with what the board is, a stamp with what it was when the rows were in place.
LEMMA StampKept ==
  ASSUME BoardTypeOK, PastOnly, HeldIsBoard, RowsAsStamped, NEW r \in Readers, Steps(r)
  PROVE  RowsAsStamped'
<1> SUFFICES ASSUME ~overlap' PROVE RowsAsStamped'
  BY DEF RowsAsStamped
<1> USE BoardCacheAssumption
<1>1. ~overlap
  BY DEF Steps, GetReads, GetCompares, GetAges, GetScans, GetOpens, FullOpens, OpenRows,
     GetFills, GetOpensStamp, GetStamps, FullScans, FullFills, ReaderFails, GetProbes, GetReprobes,
     FullReads, Writing
<1>2. CASE GetFills(r) \/ FullFills(r)
  <2>1. reader[r].rows = board
    BY <1>1, <1>2 DEF HeldIsBoard, GetFills, FullFills, At, Refreshing, Unstamped
  <2> QED
    BY <1>2, <2>1 DEF GetFills, FullFills, PastOnly, RowsAsStamped, BoardTypeOK, Versions
<1>3. CASE GetStamps(r)
  <2>1. reader[r].live = board /\ (rows.is = "whole" => rows.of = board)
    BY <1>1, <1>3 DEF HeldIsBoard, GetStamps, At, Stamping, Placed
  <2> QED
    BY <1>3, <2>1 DEF GetStamps, RowsAsStamped, BoardTypeOK, Versions
<1>4. CASE GetOpens(r) \/ FullOpens(r) \/ GetOpensStamp(r)
  BY <1>4 DEF GetOpens, FullOpens, OpenRows, GetOpensStamp, RowsAsStamped
<1>5. CASE UNCHANGED boardFiles
  BY <1>1, <1>5 DEF boardFiles, RowsAsStamped
<1> QED
  BY <1>2, <1>3, <1>4, <1>5
  DEF Steps, GetReads, GetCompares, GetAges, GetScans, FullScans, ReaderFails, GetProbes, GetReprobes, FullReads

LEMMA BoardInvStep == BoardInv /\ [BoardNext]_boardVars => BoardInv'
<1> SUFFICES ASSUME BoardInv, [BoardNext]_boardVars PROVE HeldIsBoard' /\ RowsAsStamped'
  BY TypeStep, PastStep DEF BoardInv
<1> USE DEF BoardInv
<1>1. ASSUME NEW r \in Readers, Steps(r) PROVE HeldIsBoard' /\ RowsAsStamped'
  <2>1. ASSUME ~overlap' PROVE \A q \in Readers : Held(q)'
    <3>1. ~overlap
      BY <1>1, <2>1 DEF Steps, GetReads, GetCompares, GetAges, GetScans, GetOpens, FullOpens, OpenRows,
         GetFills, GetOpensStamp, GetStamps, FullScans, FullFills, ReaderFails, GetProbes, GetReprobes,
         FullReads, Writing
    <3>2. \A q \in Readers : Held(q)
      BY <3>1 DEF HeldIsBoard, Held
    <3>3. TAKE q \in Readers
    <3>4. Held(q)
      BY <3>2
    <3>5. CASE q = r
      BY <1>1, <2>1, <3>4, <3>5, OwnKept
    <3>6. CASE q # r
      BY <1>1, <2>1, <3>4, <3>6, OthersKeep
    <3> QED
      BY <3>5, <3>6
  <2> QED
    BY <1>1, <2>1, StampKept DEF HeldIsBoard, Held
<1>2. CASE InvalidateRows
  BY <1>2 DEF InvalidateRows, HeldIsBoard, RowsAsStamped, Refreshing, Unstamped, Stamping, Placed
<1>3. CASE InvalidateStamp
  BY <1>3 DEF InvalidateStamp, HeldIsBoard, RowsAsStamped, Refreshing, Unstamped, Stamping, Placed
<1>4. CASE EditBoard
  BY <1>4 DEF EditBoard, boardFiles, HeldIsBoard, RowsAsStamped, Refreshing, Unstamped, Stamping, Placed
<1>5. CASE BoardTick
  BY <1>5 DEF BoardTick, BoardTypeOK, HeldIsBoard, RowsAsStamped, Refreshing, Unstamped, Stamping, Placed
<1>6. CASE UNCHANGED boardVars
  BY <1>6 DEF boardVars, boardFiles, HeldIsBoard, RowsAsStamped, Refreshing, Unstamped, Stamping, Placed
<1> QED
  BY <1>1, <1>2, <1>3, <1>4, <1>5, <1>6 DEF BoardNext, Steps

\* get_board_items: whatever is killed, torn, unprobed or invalidated, the rows on file are
\* never older than the stamp beside them, unless an edit or another writer fell between a
\* scan and its stamp.
THEOREM RowsAsStampedAlways == BoardSpec => []RowsAsStamped
<1>1. BoardInv => RowsAsStamped
  BY DEF BoardInv
<1> QED
  BY <1>1, BoardInvInit, BoardInvStep, PTL DEF BoardSpec

-----------------------------------------------------------------------------
(***************************************************************************)
(* BeltCandidates.  A post reaches the file after it was made, and a belt  *)
(* decides under the lock; what it decided from was read before.           *)
(***************************************************************************)

LEMMA Multiples ==
  ASSUME NEW d \in Nat \ {0}, NEW x \in Nat, NEW y \in Nat, x < y
  PROVE  x * d + d <= y * d
<1>1. PICK k \in Nat : y = x + 1 + k
  <2>1. y - x - 1 \in Nat /\ y = x + 1 + (y - x - 1)
    OBVIOUS
  <2> QED
    BY <2>1
<1>2. y * d = x * d + d + k * d
  BY <1>1
<1>3. k * d \in Nat /\ x * d \in Nat
  OBVIOUS
<1> QED
  BY <1>2, <1>3

\* A stamp is not after the moment it stands for, and keeps the order.
LEMMA Stamps ==
  ASSUME NEW a \in Nat
  PROVE  /\ Stamp(a) \in Nat /\ Stamp(a) <= a
         /\ \A b \in Nat : a <= b => Stamp(a) <= Stamp(b)
<1> USE BeltCandidatesAssumption
<1>1. \A t \in Nat : /\ t \div PerSecond \in Nat
                     /\ (t \div PerSecond) * PerSecond <= t
                     /\ t < (t \div PerSecond) * PerSecond + PerSecond
  OBVIOUS
<1>2. ASSUME NEW b \in Nat, a <= b PROVE Stamp(a) <= Stamp(b)
  <2> DEFINE u == a \div PerSecond
             v == b \div PerSecond
  <2>1. u \in Nat /\ v \in Nat /\ u * PerSecond <= a /\ b < v * PerSecond + PerSecond
    BY <1>1
  <2> HIDE DEF u, v
  <2>2. u * PerSecond \in Nat /\ v * PerSecond \in Nat
    BY <2>1
  <2>3. ~(v < u)
    <3> SUFFICES ASSUME v < u PROVE FALSE
      OBVIOUS
    <3>1. v * PerSecond + PerSecond <= u * PerSecond
      BY <2>1, Multiples
    <3> QED
      BY <3>1, <2>1, <2>2, <1>2
  <2>4. u = v \/ u < v
    BY <2>1, <2>3
  <2>5. u * PerSecond <= v * PerSecond
    BY <2>1, <2>2, <2>4, Multiples
  <2> QED
    BY <2>5 DEF u, v, Stamp
<1> QED
  BY <1>1, <1>2 DEF Stamp

-----------------------------------------------------------------------------
CriticalSteps == {"archive", "unlink", "mark"}

LEMMA CandidateTypeInit == CandidateInit => CandidateTypeOK
<1> SUFFICES ASSUME CandidateInit PROVE CandidateTypeOK
  OBVIOUS
<1> USE BeltCandidatesAssumption DEF CandidateInit, NoEntry, NoMark, NoRecord, Resting, Entries, Marks
<1>1. NoMark \in Marks /\ NoEntry \in Entries
  OBVIOUS
<1> QED
  BY <1>1 DEF CandidateTypeOK

PosterRecords == [at: {"idle", "stamped"}, post: 0..MaxRecords, made: 0..MaxTime, owed: Lanes \cup {Nil}]
BeltRecords ==
  [at: {"sleep", "arrive", "read", "prune", "archive", "unlink", "check", "retire", "mark"},
   watched: BOOLEAN, memo: {"none", "open", "closed"}, seenAt: 0..MaxTime,
   readBefore: 0..MaxTime, cutoff: 0..MaxTime, copy: Entries]

LEMMA Blanks == NoMark \in Marks /\ NoEntry \in Entries /\ NoRecord \in PosterRecords /\ Resting \in BeltRecords
<1> USE BeltCandidatesAssumption
<1>1. NoMark \in Marks
  BY DEF NoMark, Marks
<1>2. NoEntry \in Entries
  BY <1>1 DEF NoEntry, Entries
<1> QED
  BY <1>1, <1>2 DEF NoRecord, PosterRecords, Resting, BeltRecords

BeltSteps(l) ==
  \/ NoteTime(l) \/ ReadStore(l) \/ PruneReads(l) \/ PruneUnlinks(l)
  \/ RetireReads(l) \/ RetireMarks(l) \/ BeltKilled(l)
  \/ \E watched, readable \in BOOLEAN : TickBegins(l, watched, readable)
  \/ \E holds \in BOOLEAN : PruneArchives(l, holds)
  \/ \E readable \in BOOLEAN : CheckIssue(l, readable)

\* A step of a belt changes its own place, to one of its kind.
LEMMA BeltMoves ==
  ASSUME CandidateTypeOK, NEW l \in Lanes, BeltSteps(l)
  PROVE  \E b \in BeltRecords : looker' = [looker EXCEPT ![l] = b]
<1> USE BeltCandidatesAssumption, Blanks
<1>1. looker \in [Lanes -> BeltRecords] /\ time \in 0..MaxTime /\ entry \in Entries /\ isOpen \in BOOLEAN
  BY DEF CandidateTypeOK, BeltRecords
<1>2. AfterStore(l) \in BeltRecords
  <2>1. [looker[l] EXCEPT !.at = "check", !.cutoff = 0] \in BeltRecords
    <3>1. looker[l] \in BeltRecords /\ 0 \in 0..MaxTime
      BY <1>1
    <3> QED
      BY <3>1 DEF BeltRecords
  <2> QED
    BY <2>1 DEF AfterStore
<1>3. CASE NoteTime(l)
  <2>1. [looker[l] EXCEPT !.at = "read", !.readBefore = time] \in BeltRecords
    BY <1>1 DEF BeltRecords
  <2> QED
    BY <1>3, <1>1, <2>1 DEF NoteTime
<1>4. CASE ReadStore(l)
  <2>1. /\ [looker[l] EXCEPT !.at = "prune", !.cutoff = time] \in BeltRecords
        /\ [looker[l] EXCEPT !.at = "check"] \in BeltRecords
    BY <1>1 DEF BeltRecords
  <2> QED
    BY <1>4, <1>1, <1>2, <2>1 DEF ReadStore
<1>5. CASE PruneReads(l)
  <2>1. [looker[l] EXCEPT !.at = "archive"] \in BeltRecords
    BY <1>1 DEF BeltRecords
  <2> QED
    BY <1>5, <1>1, <1>2, <2>1 DEF PruneReads
<1>6. CASE PruneUnlinks(l)
  BY <1>6, <1>1, <1>2 DEF PruneUnlinks
<1>7. CASE RetireReads(l)
  <2>1. [looker[l] EXCEPT !.at = "mark", !.copy = entry] \in BeltRecords
    BY <1>1 DEF BeltRecords
  <2> QED
    BY <1>7, <1>1, <2>1 DEF RetireReads
<1>8. CASE RetireMarks(l) \/ BeltKilled(l)
  BY <1>8 DEF RetireMarks, BeltKilled
<1>9. ASSUME NEW watched \in BOOLEAN, NEW readable \in BOOLEAN, TickBegins(l, watched, readable)
      PROVE  \E b \in BeltRecords : looker' = [looker EXCEPT ![l] = b]
  <2> DEFINE memo == IF watched /\ readable THEN State ELSE "none"
  <2>1. memo \in {"none", "open", "closed"}
    BY DEF State
  <2> DEFINE stays == watched /\ memo # "closed"
             seen == IF memo = "none" THEN 0 ELSE time
  <2>2. stays \in BOOLEAN /\ seen \in 0..MaxTime
    BY <1>1
  <2>3. looker' = [looker EXCEPT ![l] =
           [Resting EXCEPT !.at = "arrive", !.watched = stays, !.memo = memo, !.seenAt = seen]]
    BY <1>9 DEF TickBegins
  <2> HIDE DEF memo, stays, seen
  <2>4. [Resting EXCEPT !.at = "arrive", !.watched = stays, !.memo = memo, !.seenAt = seen] \in BeltRecords
    BY <2>1, <2>2 DEF BeltRecords
  <2> QED
    BY <2>3, <2>4
<1>10. ASSUME NEW holds \in BOOLEAN, PruneArchives(l, holds)
       PROVE  \E b \in BeltRecords : looker' = [looker EXCEPT ![l] = b]
  <2>1. [looker[l] EXCEPT !.at = "unlink"] \in BeltRecords
    BY <1>1 DEF BeltRecords
  <2> QED
    BY <1>10, <1>1, <1>2, <2>1 DEF PruneArchives
<1>11. ASSUME NEW readable \in BOOLEAN, CheckIssue(l, readable)
       PROVE  \E b \in BeltRecords : looker' = [looker EXCEPT ![l] = b]
  <2>1. /\ [looker[l] EXCEPT !.at = "retire", !.seenAt = looker[l].seenAt] \in BeltRecords
        /\ [looker[l] EXCEPT !.at = "retire", !.seenAt = time] \in BeltRecords
    BY <1>1 DEF BeltRecords
  <2>2. CASE looker[l].memo = "none"
    BY <1>11, <2>1, <2>2 DEF CheckIssue
  <2>3. CASE looker[l].memo # "none"
    BY <1>11, <2>1, <2>3 DEF CheckIssue
  <2> QED
    BY <2>2, <2>3
<1> QED
  BY <1>3, <1>4, <1>5, <1>6, <1>7, <1>8, <1>9, <1>10, <1>11 DEF BeltSteps

LEMMA CandidateTypeStep ==
  CandidateTypeOK /\ [CandidateNext]_candidateVars => CandidateTypeOK'
<1> SUFFICES ASSUME CandidateTypeOK, [CandidateNext]_candidateVars PROVE CandidateTypeOK'
  OBVIOUS
<1> USE BeltCandidatesAssumption, Blanks
<1>1. /\ entry \in Entries /\ storeLock \in Lanes \cup {Nil}
      /\ poster \in [Posters -> PosterRecords] /\ looker \in [Lanes -> BeltRecords]
      /\ isOpen \in BOOLEAN
      /\ time \in 0..MaxTime /\ records \in 0..MaxRecords /\ flips \in 0..MaxFlips
      /\ newest \in [post: 0..MaxRecords, made: 0..MaxTime] /\ kept \subseteq 0..MaxRecords
  BY DEF CandidateTypeOK, PosterRecords, BeltRecords
<1>2. \A t \in 0..MaxTime : Stamp(t) \in 0..MaxTime
  BY Stamps
<1>3. ASSUME NEW q \in Posters, NEW owed \in Lanes \cup {Nil}, StampPost(q, owed) PROVE CandidateTypeOK'
  <2>1. [at |-> "stamped", post |-> records + 1, made |-> time, owed |-> owed] \in PosterRecords
    BY <1>1, <1>3 DEF StampPost, PosterRecords
  <2>2. poster' \in [Posters -> PosterRecords] /\ records' \in 0..MaxRecords
    BY <1>1, <1>3, <2>1 DEF StampPost
  <2> QED
    BY <1>1, <1>3, <2>2 DEF StampPost, CandidateTypeOK, PosterRecords, BeltRecords
<1>4. ASSUME NEW q \in Posters, WritePost(q) PROVE CandidateTypeOK'
  <2>1. poster[q] \in PosterRecords
    BY <1>1
  <2>2. entry' \in Entries
    BY <1>2, <1>4, <2>1 DEF WritePost, Entries, PosterRecords
  <2>3. newest' \in [post: 0..MaxRecords, made: 0..MaxTime]
    BY <1>4, <2>1 DEF WritePost, PosterRecords
  <2>4. poster' \in [Posters -> PosterRecords]
    BY <1>1, <1>4 DEF WritePost
  <2> QED
    BY <1>1, <1>4, <2>2, <2>3, <2>4 DEF WritePost, CandidateTypeOK, PosterRecords, BeltRecords
<1>5. ASSUME NEW q \in Posters, PostUnrecorded(q) PROVE CandidateTypeOK'
  <2>1. poster' \in [Posters -> PosterRecords]
    BY <1>1, <1>5 DEF PostUnrecorded
  <2> QED
    BY <1>1, <1>5, <2>1 DEF PostUnrecorded, CandidateTypeOK, PosterRecords, BeltRecords
<1>6. ASSUME NEW l \in Lanes, BeltSteps(l) PROVE CandidateTypeOK'
  <2>1. looker' \in [Lanes -> BeltRecords]
    <3>1. PICK b \in BeltRecords : looker' = [looker EXCEPT ![l] = b]
      BY <1>6, BeltMoves
    <3> QED
      BY <1>1, <3>1
  <2>2. UNCHANGED <<poster, isOpen, time, records, flips, newest>>
    BY <1>6 DEF BeltSteps, NoteTime, ReadStore, PruneReads, PruneUnlinks, RetireReads, RetireMarks,
                BeltKilled, TickBegins, PruneArchives, CheckIssue
  <2>3. storeLock' \in Lanes \cup {Nil}
    BY <1>1, <1>6 DEF BeltSteps, NoteTime, ReadStore, PruneReads, PruneUnlinks, RetireReads, RetireMarks,
                BeltKilled, TickBegins, PruneArchives, CheckIssue
  <2>4. entry' \in Entries
    <3>1. CASE RetireMarks(l)
      <4>1. looker[l] \in BeltRecords
        BY <1>1
      <4>2. [is |-> IF looker[l].memo = "none" THEN "read" ELSE "remembered",
             on |-> Stamp(time), seenAt |-> looker[l].seenAt] \in Marks
        BY <1>1, <1>2, <4>1 DEF Marks, BeltRecords
      <4> QED
        BY <3>1, <4>1, <4>2 DEF RetireMarks, Entries, BeltRecords
    <3>2. CASE ~RetireMarks(l)
      BY <1>1, <1>6, <3>2 DEF BeltSteps, NoteTime, ReadStore, PruneReads, PruneUnlinks, RetireReads,
                  BeltKilled, TickBegins, PruneArchives, CheckIssue
    <3> QED
      BY <3>1, <3>2
  <2>5. kept' \subseteq 0..MaxRecords
    <3>1. kept' = kept \/ \E holds \in BOOLEAN : PruneArchives(l, holds)
      BY <1>6 DEF BeltSteps, NoteTime, ReadStore, PruneReads, PruneUnlinks, RetireReads, RetireMarks,
                  BeltKilled, TickBegins, CheckIssue
    <3> QED
      BY <1>1, <3>1 DEF PruneArchives, Entries
  <2> QED
    BY <1>1, <2>1, <2>2, <2>3, <2>4, <2>5 DEF CandidateTypeOK, PosterRecords, BeltRecords
<1>7. CASE FlipIssue
  BY <1>1, <1>7 DEF FlipIssue, CandidateTypeOK, PosterRecords, BeltRecords
<1>8. CASE TimePasses
  BY <1>1, <1>8 DEF TimePasses, CandidateTypeOK, PosterRecords, BeltRecords
<1>9. CASE UNCHANGED candidateVars
  BY <1>9 DEF candidateVars, CandidateTypeOK
<1> QED
  BY <1>3, <1>4, <1>5, <1>6, <1>7, <1>8, <1>9 DEF CandidateNext, BeltSteps

-----------------------------------------------------------------------------
\* The file is of the post last written, with its stamp.
FileIsNewest == entry.post # 0 => entry.post = newest.post /\ entry.at = Stamp(newest.made)

\* Who is between the steps of a change holds the lock.
LockHeld == \A l \in Lanes : looker[l].at \in CriticalSteps => storeLock = l

\* What a belt under the lock decided on is still the file.
Decided ==
  \A l \in Lanes :
    /\ looker[l].at \in {"archive", "unlink"} => entry.post # 0 /\ entry.at + MaxAge < time
    /\ looker[l].at = "unlink" => entry.post \in kept
    /\ looker[l].at = "mark" =>
         looker[l].copy = entry /\ entry.post # 0 /\ entry.at < Stamp(looker[l].readBefore)

\* A state that was not remembered was read after the store, which was read after its time
\* was noted.
ReadInOrder ==
  \A l \in Lanes :
    /\ looker[l].cutoff <= time /\ looker[l].readBefore <= time
    /\ looker[l].at \in {"retire", "mark"} /\ looker[l].memo = "none" =>
         looker[l].readBefore <= looker[l].seenAt

StoreInv == CandidateTypeOK /\ FileIsNewest /\ LockHeld /\ Decided /\ ReadInOrder /\ FreshPostKept

LEMMA StoreInit == CandidateInit => StoreInv
<1> SUFFICES ASSUME CandidateInit PROVE StoreInv
  OBVIOUS
<1> USE BeltCandidatesAssumption, CandidateTypeInit
<1>1. FileIsNewest /\ FreshPostKept
  BY DEF CandidateInit, FileIsNewest, FreshPostKept, NoEntry
<1>2. LockHeld /\ Decided /\ ReadInOrder
  BY DEF CandidateInit, LockHeld, Decided, ReadInOrder, Resting, CriticalSteps
<1> QED
  BY <1>1, <1>2 DEF StoreInv

\* A post is written while nobody changes the file.
LEMMA WriteKeeps ==
  ASSUME StoreInv, NEW q \in Posters, WritePost(q)
  PROVE  FileIsNewest' /\ LockHeld' /\ Decided' /\ ReadInOrder' /\ FreshPostKept'
<1> USE BeltCandidatesAssumption
<1>1. /\ storeLock = Nil /\ UNCHANGED <<storeLock, looker, time, kept>>
      /\ entry' = [post |-> poster[q].post, at |-> Stamp(poster[q].made), owed |-> poster[q].owed,
                   closed |-> NoMark]
      /\ newest' = [post |-> poster[q].post, made |-> poster[q].made]
  BY DEF WritePost
<1>2. \A l \in Lanes : looker[l].at \notin CriticalSteps
  BY <1>1 DEF StoreInv, LockHeld
<1>3. FileIsNewest' /\ FreshPostKept'
  BY <1>1 DEF FileIsNewest, FreshPostKept, NoMark
<1>4. LockHeld' /\ Decided' /\ ReadInOrder'
  BY <1>1, <1>2 DEF StoreInv, LockHeld, Decided, ReadInOrder, CriticalSteps
<1> QED
  BY <1>3, <1>4

\* Unless it marks or unlinks, a belt leaves the file as it is.
LEMMA FileKept ==
  ASSUME StoreInv, UNCHANGED <<entry, newest, time>>, kept \subseteq kept'
  PROVE  FileIsNewest' /\ FreshPostKept'
  BY DEF StoreInv, FileIsNewest, FreshPostKept, Stamp

LEMMA BeltKeeps ==
  ASSUME StoreInv, NEW l \in Lanes, BeltSteps(l)
  PROVE  FileIsNewest' /\ LockHeld' /\ Decided' /\ ReadInOrder' /\ FreshPostKept'
<1> USE BeltCandidatesAssumption
<1>1. PICK b \in BeltRecords : looker' = [looker EXCEPT ![l] = b]
  BY BeltMoves DEF StoreInv
<1>2. /\ looker \in [Lanes -> BeltRecords] /\ time \in Nat /\ entry \in Entries
      /\ newest \in [post: Nat, made: Nat] /\ entry.at \in Nat /\ looker[l] \in BeltRecords
      /\ looker[l].readBefore \in Nat /\ looker[l].cutoff \in Nat /\ looker[l].seenAt \in Nat
  BY DEF StoreInv, CandidateTypeOK, BeltRecords, Entries
<1>3. looker'[l] = b /\ \A m \in Lanes \ {l} : looker'[m] = looker[m]
  BY <1>1, <1>2
<1>4. UNCHANGED <<time, newest>>
  BY DEF BeltSteps, NoteTime, ReadStore, PruneReads, PruneUnlinks, RetireReads, RetireMarks,
         BeltKilled, TickBegins, PruneArchives, CheckIssue
<1> DEFINE Others == \A m \in Lanes \ {l} : looker[m].at \notin CriticalSteps
\* Who held the lock, or found it free, is alone.
<1>5. ASSUME storeLock \in {l, Nil} PROVE Others
  BY <1>5 DEF StoreInv, LockHeld
<1>6. ASSUME b = Resting \/ b = [looker[l] EXCEPT !.at = "check", !.cutoff = 0]
      PROVE  /\ b.at \notin CriticalSteps \cup {"retire"}
             /\ b.cutoff <= time /\ b.readBefore <= time
  <2>1. CASE b = Resting
    <3>1. b.at = "sleep" /\ b.cutoff = 0 /\ b.readBefore = 0
      BY <2>1 DEF Resting
    <3> QED
      BY <1>2, <3>1 DEF CriticalSteps
  <2>2. CASE b = [looker[l] EXCEPT !.at = "check", !.cutoff = 0]
    <3>1. b.at = "check" /\ b.cutoff = 0 /\ b.readBefore = looker[l].readBefore
      BY <1>2, <2>2 DEF BeltRecords
    <3> QED
      BY <1>2, <3>1 DEF StoreInv, ReadInOrder, CriticalSteps
  <2> QED
    BY <1>6, <2>1, <2>2
<1>7. AfterStore(l) = Resting \/ AfterStore(l) = [looker[l] EXCEPT !.at = "check", !.cutoff = 0]
  BY DEF AfterStore
\* A belt that leaves the file, the lock and the archive, and goes to no step of a change.
<1>8. ASSUME UNCHANGED <<entry, storeLock, kept>>, b.at \notin CriticalSteps,
             b.cutoff <= time, b.readBefore <= time,
             b.at = "retire" /\ b.memo = "none" => b.readBefore <= b.seenAt
      PROVE  FileIsNewest' /\ LockHeld' /\ Decided' /\ ReadInOrder' /\ FreshPostKept'
  <2>1. FileIsNewest' /\ FreshPostKept'
    BY <1>4, <1>8, FileKept
  <2>2. LockHeld'
    BY <1>3, <1>8 DEF StoreInv, LockHeld
  <2>3. Decided'
    BY <1>3, <1>4, <1>8 DEF StoreInv, Decided, CriticalSteps, Stamp
  <2>4. ReadInOrder'
    BY <1>3, <1>4, <1>8 DEF StoreInv, ReadInOrder, CriticalSteps
  <2> QED
    BY <2>1, <2>2, <2>3, <2>4
\* A belt that gives the lock up.
<1>9. ASSUME Others, b = Resting \/ b = AfterStore(l)
      PROVE  LockHeld' /\ Decided' /\ ReadInOrder'
  <2>1. b.at \notin CriticalSteps \cup {"retire"} /\ b.cutoff <= time /\ b.readBefore <= time
    BY <1>6, <1>7, <1>9
  <2>2. LockHeld' /\ Decided'
    BY <1>3, <1>9, <2>1 DEF LockHeld, Decided, CriticalSteps
  <2>3. ReadInOrder'
    BY <1>3, <1>4, <2>1 DEF StoreInv, ReadInOrder, CriticalSteps
  <2> QED
    BY <2>2, <2>3
<1> HIDE DEF Others
<1>10. CASE NoteTime(l)
  <2>1. b = [looker[l] EXCEPT !.at = "read", !.readBefore = time]
    BY <1>2, <1>3, <1>10 DEF NoteTime
  <2>2. /\ b.at \notin CriticalSteps \cup {"retire"} /\ b.cutoff <= time /\ b.readBefore <= time
        /\ UNCHANGED <<entry, storeLock, kept>>
    BY <1>2, <1>10, <2>1 DEF NoteTime, StoreInv, ReadInOrder, CriticalSteps, BeltRecords
  <2> QED
    BY <2>2, <1>8
<1>11. CASE ReadStore(l)
  <2>1. \/ b = [looker[l] EXCEPT !.at = "prune", !.cutoff = time]
        \/ b = [looker[l] EXCEPT !.at = "check"]
        \/ b = AfterStore(l)
    BY <1>2, <1>3, <1>11 DEF ReadStore
  <2>2. b.at \notin CriticalSteps \cup {"retire"} /\ b.cutoff <= time /\ b.readBefore <= time
    <3>1. CASE b = AfterStore(l)
      BY <1>6, <1>7, <3>1
    <3>2. CASE b # AfterStore(l)
      <4>1. /\ b.at \in {"prune", "check"} /\ b.readBefore = looker[l].readBefore
            /\ b.cutoff \in {time, looker[l].cutoff}
        BY <1>2, <2>1, <3>2 DEF BeltRecords
      <4> QED
        BY <1>2, <4>1 DEF StoreInv, ReadInOrder, CriticalSteps
    <3> QED
      BY <3>1, <3>2
  <2>3. UNCHANGED <<entry, storeLock, kept>>
    BY <1>11 DEF ReadStore
  <2> QED
    BY <2>2, <2>3, <1>8
<1>12. CASE PruneReads(l)
  <2>1. UNCHANGED <<entry, kept>> /\ storeLock = Nil /\ Others
    BY <1>5, <1>12 DEF PruneReads
  <2>2. FileIsNewest' /\ FreshPostKept'
    BY <1>4, <2>1, FileKept
  <2>3. CASE TooOld(entry, looker[l].cutoff)
    <3>1. storeLock' = l /\ b = [looker[l] EXCEPT !.at = "archive"]
      BY <1>2, <1>3, <1>12, <2>3 DEF PruneReads
    <3>2. entry.post # 0 /\ entry.at + MaxAge < time
      BY <1>2, <2>3 DEF TooOld, StoreInv, ReadInOrder
    <3>3. b.at = "archive" /\ b.cutoff <= time /\ b.readBefore <= time
      BY <1>2, <3>1 DEF StoreInv, ReadInOrder, BeltRecords
    <3>4. LockHeld' /\ Decided'
      BY <1>3, <1>4, <2>1, <3>1, <3>2, <3>3 DEF LockHeld, Decided, CriticalSteps, Others
    <3>5. ReadInOrder'
      BY <1>3, <1>4, <3>3 DEF StoreInv, ReadInOrder
    <3> QED
      BY <2>2, <3>4, <3>5
  <2>4. CASE ~TooOld(entry, looker[l].cutoff)
    <3>1. b = AfterStore(l)
      BY <1>2, <1>3, <1>12, <2>4 DEF PruneReads
    <3> QED
      BY <2>1, <2>2, <3>1, <1>9
  <2> QED
    BY <2>3, <2>4
<1>13. ASSUME NEW holds \in BOOLEAN, PruneArchives(l, holds)
       PROVE  FileIsNewest' /\ LockHeld' /\ Decided' /\ ReadInOrder' /\ FreshPostKept'
  <2>1. /\ looker[l].at = "archive" /\ storeLock = l /\ Others
        /\ entry.post # 0 /\ entry.at + MaxAge < time
    BY <1>5, <1>13 DEF PruneArchives, StoreInv, LockHeld, Decided, CriticalSteps
  <2>2. UNCHANGED entry /\ kept \subseteq kept'
    BY <1>13 DEF PruneArchives
  <2>3. FileIsNewest' /\ FreshPostKept'
    BY <1>4, <2>2, FileKept
  <2>4. CASE holds
    <3>1. storeLock' = l /\ entry.post \in kept' /\ b = [looker[l] EXCEPT !.at = "unlink"]
      BY <1>2, <1>3, <1>13, <2>4 DEF PruneArchives
    <3>2. b.at = "unlink" /\ b.cutoff <= time /\ b.readBefore <= time
      BY <1>2, <3>1 DEF StoreInv, ReadInOrder, BeltRecords
    <3>3. LockHeld' /\ Decided'
      BY <1>3, <1>4, <2>1, <2>2, <3>1, <3>2 DEF LockHeld, Decided, CriticalSteps, Others
    <3>4. ReadInOrder'
      BY <1>3, <1>4, <3>2 DEF StoreInv, ReadInOrder
    <3> QED
      BY <2>3, <3>3, <3>4
  <2>5. CASE ~holds
    <3>1. b = AfterStore(l)
      BY <1>2, <1>3, <1>13, <2>5 DEF PruneArchives
    <3> QED
      BY <2>1, <2>3, <3>1, <1>9
  <2> QED
    BY <2>4, <2>5
<1>14. CASE PruneUnlinks(l)
  <2>1. /\ storeLock = l /\ Others /\ entry.post # 0 /\ entry.at + MaxAge < time /\ entry.post \in kept
    BY <1>5, <1>14 DEF PruneUnlinks, StoreInv, LockHeld, Decided, CriticalSteps
  <2>2. b = AfterStore(l) /\ entry' = NoEntry /\ UNCHANGED kept
    BY <1>2, <1>3, <1>14 DEF PruneUnlinks
  <2>3. FileIsNewest' /\ FreshPostKept'
    BY <1>4, <2>1, <2>2 DEF StoreInv, FileIsNewest, FreshPostKept, NoEntry, Stamp
  <2> QED
    BY <2>1, <2>2, <2>3, <1>9
<1>15. CASE RetireReads(l)
  <2>1. UNCHANGED <<entry, kept>> /\ storeLock = Nil /\ Others /\ looker[l].at = "retire"
    BY <1>5, <1>15 DEF RetireReads
  <2>2. FileIsNewest' /\ FreshPostKept'
    BY <1>4, <2>1, FileKept
  <2>3. CASE SinceRead(l)
    <3>1. b = Resting
      BY <1>2, <1>3, <1>15, <2>3 DEF RetireReads
    <3> QED
      BY <2>1, <2>2, <3>1, <1>9
  <2>4. CASE ~SinceRead(l)
    <3>1. storeLock' = l /\ b = [looker[l] EXCEPT !.at = "mark", !.copy = entry]
      BY <1>2, <1>3, <1>15, <2>4 DEF RetireReads
    <3>2. entry.post # 0 /\ entry.at < Stamp(looker[l].readBefore)
      BY <1>2, <2>4, Stamps DEF SinceRead
    <3>3. /\ b.at = "mark" /\ b.copy = entry /\ b.cutoff <= time /\ b.readBefore <= time
          /\ b.readBefore = looker[l].readBefore
          /\ b.memo = "none" => b.readBefore <= b.seenAt
      BY <1>2, <2>1, <3>1 DEF StoreInv, ReadInOrder, BeltRecords
    <3>4. LockHeld'
      BY <1>3, <2>1, <3>1 DEF LockHeld, Others
    <3>5. Decided'
      BY <1>3, <1>4, <2>1, <3>2, <3>3 DEF Decided, CriticalSteps, Others, Stamp
    <3>6. ReadInOrder'
      BY <1>3, <1>4, <3>3 DEF StoreInv, ReadInOrder
    <3> QED
      BY <2>2, <3>4, <3>5, <3>6
  <2> QED
    BY <2>3, <2>4
<1>16. CASE RetireMarks(l)
  <2>1. /\ storeLock = l /\ Others /\ looker[l].copy = entry /\ entry.post # 0
        /\ entry.at < Stamp(looker[l].readBefore)
        /\ looker[l].memo = "none" => looker[l].readBefore <= looker[l].seenAt
    BY <1>5, <1>16 DEF RetireMarks, StoreInv, LockHeld, Decided, ReadInOrder, CriticalSteps
  <2>2. b = Resting
    BY <1>2, <1>3, <1>16 DEF RetireMarks
  <2>3. /\ entry'.post = entry.post /\ entry'.at = entry.at
        /\ entry'.closed.is = IF looker[l].memo = "none" THEN "read" ELSE "remembered"
        /\ entry'.closed.seenAt = looker[l].seenAt
    BY <1>2, <1>16, <2>1 DEF RetireMarks, Entries
  <2>4. entry.post = newest.post /\ entry.at = Stamp(newest.made)
    BY <2>1 DEF StoreInv, FileIsNewest
  <2>5. newest.made < looker[l].readBefore
    <3>1. newest.made \in Nat
      BY <1>2
    <3> QED
      BY <1>2, <2>1, <2>4, <3>1, Stamps
  <2>6. looker[l].memo = "none" => newest.made <= looker[l].seenAt
    BY <1>2, <2>1, <2>5
  <2>7. FileIsNewest' /\ FreshPostKept'
    BY <1>4, <2>1, <2>3, <2>4, <2>6 DEF FileIsNewest, FreshPostKept, Stamp
  <2> QED
    BY <2>1, <2>2, <2>7, <1>9
<1>17. CASE BeltKilled(l)
  <2>1. b = Resting /\ UNCHANGED <<entry, kept>>
    BY <1>2, <1>3, <1>17 DEF BeltKilled
  <2>2. FileIsNewest' /\ FreshPostKept'
    BY <1>4, <2>1, FileKept
  <2>3. CASE storeLock = l
    BY <1>5, <1>9, <2>1, <2>2, <2>3
  <2>4. CASE storeLock # l
    <3>1. UNCHANGED storeLock
      BY <1>17, <2>4 DEF BeltKilled
    <3> QED
      BY <1>6, <1>8, <2>1, <3>1
  <2> QED
    BY <2>3, <2>4
<1>18. ASSUME NEW watched \in BOOLEAN, NEW readable \in BOOLEAN, TickBegins(l, watched, readable)
       PROVE  FileIsNewest' /\ LockHeld' /\ Decided' /\ ReadInOrder' /\ FreshPostKept'
  <2>1. b.at = "arrive" /\ b.cutoff = 0 /\ b.readBefore = 0
    BY <1>2, <1>3, <1>18 DEF TickBegins, Resting
  <2>2. UNCHANGED <<entry, storeLock, kept>>
    BY <1>18 DEF TickBegins
  <2> QED
    BY <1>2, <2>1, <2>2, <1>8 DEF CriticalSteps
<1>19. ASSUME NEW readable \in BOOLEAN, CheckIssue(l, readable)
       PROVE  FileIsNewest' /\ LockHeld' /\ Decided' /\ ReadInOrder' /\ FreshPostKept'
  <2>1. UNCHANGED <<entry, storeLock, kept>>
    BY <1>19 DEF CheckIssue
  <2>2. \/ b = Resting
        \/ /\ b.at = "retire" /\ b.cutoff = looker[l].cutoff /\ b.readBefore = looker[l].readBefore
           /\ b.memo = looker[l].memo /\ (looker[l].memo = "none" => b.seenAt = time)
    BY <1>2, <1>3, <1>19 DEF CheckIssue, BeltRecords
  <2>3. /\ b.at \notin CriticalSteps /\ b.cutoff <= time /\ b.readBefore <= time
        /\ b.at = "retire" /\ b.memo = "none" => b.readBefore <= b.seenAt
    BY <1>2, <1>6, <2>2 DEF StoreInv, ReadInOrder, CriticalSteps
  <2> QED
    BY <2>1, <2>3, <1>8
<1> QED
  BY <1>10, <1>11, <1>12, <1>13, <1>14, <1>15, <1>16, <1>17, <1>18, <1>19 DEF BeltSteps

LEMMA StoreStep == StoreInv /\ [CandidateNext]_candidateVars => StoreInv'
<1> SUFFICES ASSUME StoreInv, [CandidateNext]_candidateVars PROVE StoreInv'
  OBVIOUS
<1> USE BeltCandidatesAssumption
<1>1. CandidateTypeOK'
  BY CandidateTypeStep DEF StoreInv
<1> SUFFICES FileIsNewest' /\ LockHeld' /\ Decided' /\ ReadInOrder' /\ FreshPostKept'
  BY <1>1 DEF StoreInv
\* The steps that leave the store and the belts alone.
<1>2. ASSUME UNCHANGED <<entry, storeLock, looker, newest, kept>>, time <= time'
      PROVE  FileIsNewest' /\ LockHeld' /\ Decided' /\ ReadInOrder' /\ FreshPostKept'
  <2>1. /\ time \in Nat /\ time' \in Nat /\ entry.at \in Nat /\ newest.made \in Nat
        /\ \A l \in Lanes : looker[l].cutoff \in Nat /\ looker[l].readBefore \in Nat
    BY <1>1 DEF StoreInv, CandidateTypeOK, Entries
  <2>2. Stamp(newest.made) \in Nat
    BY <2>1, Stamps
  <2>3. FileIsNewest' /\ LockHeld'
    BY <1>2 DEF StoreInv, FileIsNewest, LockHeld, Stamp
  <2>4. Decided' /\ ReadInOrder'
    BY <1>2, <2>1 DEF StoreInv, Decided, ReadInOrder, Stamp
  <2>5. FreshPostKept'
    <3>1. Stamp(newest.made)' = Stamp(newest.made)
      BY <1>2 DEF Stamp
    <3> HIDE DEF Stamp
    <3> QED
      BY <1>2, <2>1, <2>2, <3>1 DEF StoreInv, FreshPostKept
  <2> QED
    BY <2>3, <2>4, <2>5
<1>3. time \in Nat
  BY DEF StoreInv, CandidateTypeOK
<1>4. ASSUME NEW q \in Posters, NEW owed \in Lanes \cup {Nil}, StampPost(q, owed)
      PROVE  FileIsNewest' /\ LockHeld' /\ Decided' /\ ReadInOrder' /\ FreshPostKept'
  BY <1>2, <1>3, <1>4 DEF StampPost
<1>5. ASSUME NEW q \in Posters, WritePost(q)
      PROVE  FileIsNewest' /\ LockHeld' /\ Decided' /\ ReadInOrder' /\ FreshPostKept'
  BY <1>5, WriteKeeps
<1>6. ASSUME NEW q \in Posters, PostUnrecorded(q)
      PROVE  FileIsNewest' /\ LockHeld' /\ Decided' /\ ReadInOrder' /\ FreshPostKept'
  BY <1>2, <1>3, <1>6 DEF PostUnrecorded
<1>7. ASSUME NEW l \in Lanes, BeltSteps(l)
      PROVE  FileIsNewest' /\ LockHeld' /\ Decided' /\ ReadInOrder' /\ FreshPostKept'
  BY <1>7, BeltKeeps
<1>8. CASE FlipIssue
  BY <1>2, <1>3, <1>8 DEF FlipIssue
<1>9. CASE TimePasses
  BY <1>2, <1>3, <1>9 DEF TimePasses
<1>10. CASE UNCHANGED candidateVars
  BY <1>2, <1>3, <1>10 DEF candidateVars
<1> QED
  BY <1>4, <1>5, <1>6, <1>7, <1>8, <1>9, <1>10 DEF CandidateNext, BeltSteps

LEMMA StoreInvAlways == CandidateSpec => []StoreInv
<1>1. CandidateInit => StoreInv
  BY StoreInit
<1>2. StoreInv /\ [CandidateNext]_candidateVars => StoreInv'
  BY StoreStep
<1> QED
  BY <1>1, <1>2, PTL DEF CandidateSpec

\* The types of the candidate store, the posters and the belts: belt_candidates.py, whoever posts.
THEOREM CandidateTypeCorrect == CandidateSpec => []CandidateTypeOK
<1>1. StoreInv => CandidateTypeOK
  BY DEF StoreInv
<1> QED
  BY StoreInvAlways, <1>1, PTL

\* retire_candidate and _prune_if_stale, for any number of belts and posters: the newest post stays
\* in the store until it is archived, and is hidden only by a state of its issue read after it.
THEOREM FreshPostKeptAlways == CandidateSpec => []FreshPostKept
<1>1. StoreInv => FreshPostKept
  BY DEF StoreInv
<1> QED
  BY StoreInvAlways, <1>1, PTL
-----------------------------------------------------------------------------
(***************************************************************************)
(* The machine as a whole: a behaviour of MCMachine is one of each part.   *)
(***************************************************************************)

MachineVars == <<side, vars, boardVars, candidateVars>>

LEMMA SlotsPart == MachineSpec => Spec
<1>1. MachineInit => Init
  BY DEF MachineInit
<1>2. [MachineNext]_MachineVars => [Next]_vars
  <2>1. SlotsNext => Next
    BY DEF SlotsNext, Next, Moves
  <2>2. CachedBoardNext \/ StoreNext \/ UNCHANGED MachineVars => UNCHANGED vars
    BY DEF CachedBoardNext, StoreNext, OnBoard, OnCandidates, MachineVars
  <2>. QED  BY <2>1, <2>2 DEF MachineNext
<1>. QED  BY <1>1, <1>2, PTL DEF MachineSpec, Spec, MachineVars

LEMMA BoardPart == MachineSpec => BoardSpec
<1>1. MachineInit => BoardInit
  BY DEF MachineInit
<1>2. [MachineNext]_MachineVars => [BoardNext]_boardVars
  <2>1. CachedBoardNext => BoardNext
    BY DEF CachedBoardNext, BoardNext
  <2>2. SlotsNext \/ StoreNext \/ UNCHANGED MachineVars => UNCHANGED boardVars
    BY DEF SlotsNext, StoreNext, OnSlots, OnCandidates, MachineVars
  <2>. QED  BY <2>1, <2>2 DEF MachineNext
<1>. QED  BY <1>1, <1>2, PTL DEF MachineSpec, BoardSpec, MachineVars

LEMMA CandidatesPart == MachineSpec => CandidateSpec
<1>1. MachineInit => CandidateInit
  BY DEF MachineInit
<1>2. [MachineNext]_MachineVars => [CandidateNext]_candidateVars
  <2>1. StoreNext => CandidateNext
    BY DEF StoreNext, CandidateNext
  <2>2. SlotsNext \/ CachedBoardNext \/ UNCHANGED MachineVars => UNCHANGED candidateVars
    BY DEF SlotsNext, CachedBoardNext, OnSlots, OnBoard, MachineVars
  <2>. QED  BY <2>1, <2>2 DEF MachineNext
<1>. QED  BY <1>1, <1>2, PTL DEF MachineSpec, CandidateSpec, MachineVars

\* What the machine's sessions share keeps its types, and its files say what their
\* owners rely on, with all the parts on one machine.
THEOREM MachineTypesCorrect == MachineSpec => []MachineTypesOK
  BY SlotsPart, BoardPart, CandidatesPart, SlotTypeCorrect, BoardTypeCorrect,
     CandidateTypeCorrect, PTL DEF MachineTypesOK

\* And each part keeps there what it keeps alone.
THEOREM MachineSafe ==
  MachineSpec => [](/\ NoOvercommit /\ SomeoneIsNext /\ FirstComeFirstServed
                    /\ OverdueOneAtATime /\ RowsAsStamped /\ FreshPostKept)
  BY SlotsPart, BoardPart, CandidatesPart, NoOvercommitHolds, SomeoneIsNextHolds,
     FirstComeFirstServedHolds, OverdueOneAtATimeHolds, RowsAsStampedAlways,
     FreshPostKeptAlways, PTL
=============================================================================
