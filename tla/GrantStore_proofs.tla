-------------------------- MODULE GrantStore_proofs --------------------------
(***************************************************************************)
(* Proofs about GrantStore, for any sets of keys, nonces and processes.    *)
(***************************************************************************)
EXTENDS GrantStore, TLAPS

\* A mint that ends leaves its own variables well typed.
LEMMA FinishMintType ==
  ASSUME MinterTypeOK, NEW m \in Minters,
         NEW exit \in {"none", "ok", "refused", "duplicate", "uncertain", "error"},
         FinishMint(m, exit), UNCHANGED mmade
  PROVE  MinterTypeOK'
BY DEF FinishMint, MinterTypeOK

\* An unexpected failure has one of three answers.
LEMMA FailureExitType ==
  ASSUME NEW m \in Minters
  PROVE  FailureExit(m) \in {"error", "uncertain", "refused"}
BY DEF FailureExit

\* The record that a mint writes is well typed.
LEMMA PutRecordType ==
  ASSUME StoreTypeOK, MinterTypeOK, NEW m \in Minters, PutRecord(m), UNCHANGED now
  PROVE  StoreTypeOK'
<1>1. mkey[m] \in Keys \cup {None} /\ mnow[m] + mttl[m] \in Nat
  BY DEF MinterTypeOK
<1>2. file' \in [Nonces -> FileStates]
  BY DEF StoreTypeOK, PutRecord, FileStates
<1>3. key' \in [Nonces -> Keys \cup {None}]
  BY <1>1 DEF StoreTypeOK, PutRecord
<1>4. expires' \in [Nonces -> Nat]
  BY <1>1 DEF StoreTypeOK, PutRecord
<1>5. QED
  BY <1>2, <1>3, <1>4 DEF StoreTypeOK

\* Every variable keeps its type: the steps of a mint.
LEMMA TypeMinter ==
  ASSUME TypeOK, NEW m \in Minters, MinterStep(m)
  PROVE  TypeOK'
<1> USE DEF TypeOK, store
<1>0. UNCHANGED runVars
  BY DEF MinterStep, StartMint, Acquire, GiveUp, Prune, CheckDuplicate, Create,
         Write, Report, MinterDies
<1>a. ConsumerTypeOK'
  BY <1>0 DEF ConsumerTypeOK, runVars
<1>1. ASSUME NEW via \in {"grant", "ae"}, NEW k \in Keys, NEW ttl \in Ttls,
             StartMint(m, via, k, ttl)
      PROVE  TypeOK'
  BY <1>1, <1>a, ConstantsAssumption DEF StartMint, StoreTypeOK, MinterTypeOK
<1>2. CASE Acquire(m)
  BY <1>2, <1>a DEF Acquire, StoreTypeOK, MinterTypeOK, HoldsLock
<1>3. CASE GiveUp(m)
  BY <1>3, <1>a, FinishMintType DEF GiveUp, StoreTypeOK
<1>4. CASE Prune(m)
  BY <1>4, <1>a DEF Prune, StoreTypeOK, MinterTypeOK, HoldsLock, FileStates
<1>5. CASE CheckDuplicate(m)
  <2>1. StoreTypeOK'
    BY <1>5 DEF CheckDuplicate, StoreTypeOK
  <2>2. MinterTypeOK'
    BY <1>5, FinishMintType DEF CheckDuplicate, MinterTypeOK, HoldsLock
  <2>3. QED
    BY <2>1, <2>2, <1>a
<1>6. CASE Create(m)
  <2>1. StoreTypeOK'
    BY <1>6 DEF Create, StoreTypeOK, FileStates
  <2>2. MinterTypeOK'
    BY <1>6, FinishMintType, FailureExitType DEF Create, MinterTypeOK, HoldsLock
  <2>3. QED
    BY <2>1, <2>2, <1>a
<1>7. CASE Write(m)
  <2>1. StoreTypeOK'
    BY <1>7, PutRecordType DEF Write, StoreTypeOK
  <2>2. MinterTypeOK'
    BY <1>7, FinishMintType, FailureExitType DEF Write, MinterTypeOK, HoldsLock
  <2>3. QED
    BY <2>1, <2>2, <1>a
<1>8. CASE Report(m)
  BY <1>8, <1>a, FinishMintType, FailureExitType DEF Report, StoreTypeOK
<1>9. CASE MinterDies(m)
  BY <1>9, <1>a, FinishMintType DEF MinterDies, StoreTypeOK
<1>10. QED
  BY <1>1, <1>2, <1>3, <1>4, <1>5, <1>6, <1>7, <1>8, <1>9 DEF MinterStep

\* Every variable keeps its type: the steps of a run.
LEMMA TypeConsumer ==
  ASSUME TypeOK, NEW c \in Consumers, ConsumerStep(c)
  PROVE  TypeOK'
<1> USE DEF TypeOK
<1>0. UNCHANGED <<now, key, expires, mintVars>>
  BY DEF ConsumerStep, StartConsume, Inspect, Claim, Refuse, PrintConsumed, Exec,
         ChildDies, RunnerDies, store
<1>a. MinterTypeOK'
  BY <1>0 DEF MinterTypeOK, mintVars
<1>b. CASE Claim(c)
  <2>1. StoreTypeOK'
    BY <1>b DEF Claim, StoreTypeOK, FileStates
  <2>2. ConsumerTypeOK'
    BY <1>b DEF Claim, ConsumerTypeOK
  <2>3. QED
    BY <2>1, <2>2, <1>a
<1>c. CASE ~Claim(c)
  <2>0. StoreTypeOK'
    BY <1>c, <1>0 DEF ConsumerStep, StartConsume, Inspect, Refuse, PrintConsumed,
         Exec, ChildDies, RunnerDies, store, StoreTypeOK
  <2> SUFFICES ConsumerTypeOK'
    BY <2>0, <1>a
  <2>1. ASSUME NEW k \in Keys, StartConsume(c, k)
        PROVE  ConsumerTypeOK'
    BY <2>1 DEF StartConsume, ConsumerTypeOK
  <2>2. ASSUME NEW n \in Nonces, Inspect(c, n)
        PROVE  ConsumerTypeOK'
    <3>1. Noted(c, n) \subseteq {"expired", "mismatch"}
      BY DEF Noted
    <3>2. QED
      BY <2>2, <3>1 DEF Inspect, ConsumerTypeOK
  <2>3. CASE Refuse(c)
    <3>1. RefusalCode(c) \in {"consumed", "expired", "mismatch", "no_grant"}
      BY DEF RefusalCode
    <3>2. QED
      BY <2>3, <3>1 DEF Refuse, FinishRun, ConsumerTypeOK
  <2>4. CASE PrintConsumed(c)
    BY <2>4 DEF PrintConsumed, ConsumerTypeOK
  <2>5. CASE Exec(c)
    <3>1. runs \in [Nonces -> Nat] /\ runs' = [runs EXCEPT ![cnonce[c]] = @ + 1]
      BY <2>5 DEF Exec, ConsumerTypeOK
    <3>2. runs' \in [Nonces -> Nat]
      <4> HIDE DEF TypeOK
      <4>1. CASE cnonce[c] \in Nonces
        <5>1. runs[cnonce[c]] + 1 \in Nat
          BY <3>1, <4>1
        <5>2. QED
          BY <3>1, <4>1, <5>1
      <4>2. CASE cnonce[c] \notin Nonces
        BY <3>1, <4>2
      <4>3. QED
        BY <4>1, <4>2
    <3>3. QED
      BY <2>5, <3>2 DEF Exec, FinishRun, ConsumerTypeOK
  <2>6. CASE ChildDies(c)
    BY <2>6 DEF ChildDies, FinishRun, ConsumerTypeOK
  <2>7. CASE RunnerDies(c)
    BY <2>7 DEF RunnerDies, FinishRun, ConsumerTypeOK
  <2>8. QED
    BY <1>c, <2>1, <2>2, <2>3, <2>4, <2>5, <2>6, <2>7 DEF ConsumerStep
<1>d. QED
  BY <1>b, <1>c

\* The variables hold values of their types in every state.
THEOREM TypeCorrect == Spec => []TypeOK
<1>1. Init => TypeOK
  BY ConstantsAssumption DEF Init, TypeOK, StoreTypeOK, MinterTypeOK,
     ConsumerTypeOK, FileStates, HoldsLock
<1>2. TypeOK /\ [Next]_vars => TypeOK'
  <2> SUFFICES ASSUME TypeOK, [Next]_vars
               PROVE  TypeOK'
    OBVIOUS
  <2> USE DEF TypeOK, StoreTypeOK, MinterTypeOK, ConsumerTypeOK
  <2>1. CASE Tick
    BY <2>1 DEF Tick, store, mintVars, runVars
  <2>2. CASE UNCHANGED vars
    BY <2>2 DEF vars, store, mintVars, runVars
  <2>3. QED
    BY <2>1, <2>2, TypeMinter, TypeConsumer DEF Next
<1>3. QED
  BY <1>1, <1>2, PTL DEF Spec

-----------------------------------------------------------------------------
(***************************************************************************)
(* Minting: one open grant per approval, and truthful refusals.            *)
(***************************************************************************)

\* A mint that ends without touching the store keeps the invariant, if its answer
\* is not a refusal of something it made.
LEMMA FinishMintKeeps ==
  ASSUME TypeOK, MintInv, NEW m \in Minters,
         NEW exit \in {"none", "ok", "refused", "duplicate", "uncertain", "error"},
         FinishMint(m, exit), UNCHANGED <<now, store, mmade>>,
         exit \in {"refused", "duplicate"} => mmade[m] = None
  PROVE  MintInv'
<1> USE DEF MintInv, store
<1>1. MintFacts'
  BY DEF MintFacts, FinishMint, HoldsLock, IsDuplicate, TypeOK, MinterTypeOK
<1>2. RecordFacts' /\ OneGrantPerApproval'
  BY DEF RecordFacts, OneGrantPerApproval
<1>3. RefusedMintMadeNothing'
  BY DEF RefusedMintMadeNothing, FinishMint, TypeOK, MinterTypeOK
<1>4. QED
  BY <1>1, <1>2, <1>3

\* The writer is the only minter past the duplicate check, and its file was empty:
\* the record it writes is the only one for its approval.
LEMMA PutRecordKeeps ==
  ASSUME TypeOK, MintInv, NEW m \in Minters, mpc[m] = "write", PutRecord(m)
  PROVE  /\ RecordFacts' /\ OneGrantPerApproval'
         /\ \A o \in Minters \ {m} : mpc[o] \notin HoldsLock
<1>1. /\ mmade[m] \in Nonces /\ file[mmade[m]] = "empty" /\ mkey[m] \in Keys
      /\ ~IsDuplicate(m)
  BY DEF MintInv, MintFacts, HoldsLock
<1>2. \A o \in Minters \ {m} : mpc[o] \notin HoldsLock
  BY DEF MintInv, MintFacts, HoldsLock
<1>3. RecordFacts'
  BY <1>1 DEF MintInv, RecordFacts, PutRecord, TypeOK, StoreTypeOK
<1>4. OneGrantPerApproval'
  BY <1>1 DEF MintInv, OneGrantPerApproval, PutRecord, IsDuplicate, TypeOK, StoreTypeOK
<1>5. QED
  BY <1>2, <1>3, <1>4

\* Every step of a mint keeps the invariant.
LEMMA MintInvMinter ==
  ASSUME TypeOK, MintInv, NEW m \in Minters, MinterStep(m)
  PROVE  MintInv'
<1> USE DEF store
<1>1. ASSUME NEW via \in {"grant", "ae"}, NEW k \in Keys, NEW ttl \in Ttls,
             StartMint(m, via, k, ttl)
      PROVE  MintInv'
  <2>1. mholder[m] = None
    BY <1>1 DEF StartMint, MintInv, MintFacts
  <2>2. MintFacts'
    BY <1>1, <2>1 DEF StartMint, MintInv, MintFacts, IsDuplicate, HoldsLock, TypeOK,
       MinterTypeOK
  <2>3. RecordFacts' /\ OneGrantPerApproval' /\ RefusedMintMadeNothing'
    BY <1>1 DEF StartMint, MintInv, RecordFacts, OneGrantPerApproval,
       RefusedMintMadeNothing, TypeOK, MinterTypeOK
  <2>4. QED
    BY <2>2, <2>3 DEF MintInv
<1>2. CASE Acquire(m)
  BY <1>2, ConstantsAssumption DEF Acquire, LockFree, MintInv, MintFacts, RecordFacts,
     OneGrantPerApproval, RefusedMintMadeNothing, IsDuplicate, HoldsLock, TypeOK,
     StoreTypeOK, MinterTypeOK
<1>3. CASE GiveUp(m)
  BY <1>3, FinishMintKeeps DEF GiveUp, MintInv, MintFacts
<1>4. CASE Prune(m)
  <2>0. /\ \A n \in Nonces : file'[n] = file[n] \/ file'[n] = "pruned"
        /\ \A o \in Minters \ {m} : mpc[o] \notin HoldsLock
    BY <1>4 DEF Prune, MintInv, MintFacts, HoldsLock
  <2>1. MintFacts'
    BY <1>4, <2>0 DEF Prune, MintInv, MintFacts, IsDuplicate, HoldsLock, TypeOK,
       StoreTypeOK, MinterTypeOK
  <2>2. RecordFacts' /\ OneGrantPerApproval' /\ RefusedMintMadeNothing'
    BY <1>4, <2>0 DEF Prune, MintInv, RecordFacts, OneGrantPerApproval,
       RefusedMintMadeNothing, TypeOK, StoreTypeOK, MinterTypeOK
  <2>3. QED
    BY <2>1, <2>2 DEF MintInv
<1>5. CASE CheckDuplicate(m)
  <2>1. CASE IsDuplicate(m)
    BY <1>5, <2>1, FinishMintKeeps DEF CheckDuplicate, MintInv, MintFacts
  <2>2. CASE ~IsDuplicate(m)
    BY <1>5, <2>2 DEF CheckDuplicate, MintInv, MintFacts, RecordFacts, HoldsLock,
       OneGrantPerApproval, RefusedMintMadeNothing, IsDuplicate, TypeOK, MinterTypeOK
  <2>3. QED
    BY <2>1, <2>2
<1>6. CASE Create(m)
  <2>1. ASSUME NEW n \in Nonces, file[n] = "absent",
               file' = [file EXCEPT ![n] = "empty"],
               mholder' = [mholder EXCEPT ![m] = n],
               mmade' = [mmade EXCEPT ![m] = n],
               mpc' = [mpc EXCEPT ![m] = "write"],
               UNCHANGED <<lock, mvia, mkey, mttl, mnow, mexit, now, key, expires>>
        PROVE  MintInv'
    BY <1>6, <2>1, ConstantsAssumption DEF Create, MintInv, MintFacts, RecordFacts,
       HoldsLock, OneGrantPerApproval, RefusedMintMadeNothing, IsDuplicate, TypeOK,
       StoreTypeOK, MinterTypeOK
  <2>2. CASE FinishMint(m, FailureExit(m)) /\ UNCHANGED <<file, mmade>>
    BY <1>6, <2>2, FinishMintKeeps, FailureExitType DEF Create, MintInv, MintFacts
  <2>3. QED
    BY <1>6, <2>1, <2>2 DEF Create
<1>7. CASE Write(m)
  <2>0. mmade[m] \in Nonces /\ file[mmade[m]] = "empty" /\ mholder[m] # None
    BY <1>7 DEF Write, MintInv, MintFacts
  <2>1. CASE UNCHANGED store
    BY <1>7, <2>0, <2>1, FinishMintKeeps, FailureExitType DEF Write, FailureExit, PutRecord, TypeOK, StoreTypeOK
  <2>2. CASE PutRecord(m)
    <3>1. /\ RecordFacts' /\ OneGrantPerApproval'
          /\ \A o \in Minters \ {m} : mpc[o] \notin HoldsLock
      BY <1>7, <2>2, PutRecordKeeps DEF Write
    <3>2. mexit'[m] \notin {"refused", "duplicate"} \/ mpc'[m] # "idle"
      BY <1>7, <2>0 DEF Write, FinishMint, FailureExit, TypeOK, MinterTypeOK
    <3>3. RefusedMintMadeNothing'
      BY <1>7, <3>2 DEF Write, FinishMint, MintInv, RefusedMintMadeNothing, TypeOK,
         MinterTypeOK
    <3>4. MintFacts'
      BY <1>7, <2>0, <3>1 DEF Write, FinishMint, MintInv, MintFacts, HoldsLock,
         TypeOK, MinterTypeOK
    <3>5. QED
      BY <3>1, <3>3, <3>4 DEF MintInv
  <2>3. QED
    BY <1>7, <2>1, <2>2 DEF Write
<1>8. CASE Report(m)
  BY <1>8, FinishMintKeeps, FailureExitType DEF Report, FailureExit, MintInv, MintFacts
<1>9. CASE MinterDies(m)
  BY <1>9, FinishMintKeeps DEF MinterDies
<1>10. QED
  BY <1>1, <1>2, <1>3, <1>4, <1>5, <1>6, <1>7, <1>8, <1>9 DEF MinterStep

\* The only thing a run does to the store is to move one written file to receipts/.
LEMMA ConsumerTouches ==
  ASSUME NEW c \in Consumers, ConsumerStep(c)
  PROVE  /\ UNCHANGED <<now, key, expires, mintVars>>
         /\ \/ UNCHANGED file
            \/ /\ file[cnonce[c]] = "written"
               /\ file' = [file EXCEPT ![cnonce[c]] = "receipt"]
BY DEF ConsumerStep, StartConsume, Inspect, Claim, Renamable, Refuse, PrintConsumed,
   Exec, ChildDies, RunnerDies, store

\* The mint invariant holds in every state.
THEOREM MintCorrect == Spec => []MintInv
<1>1. Init => MintInv
  BY ConstantsAssumption DEF Init, MintInv, MintFacts, RecordFacts, HoldsLock,
     OneGrantPerApproval, RefusedMintMadeNothing
<1>2. TypeOK /\ MintInv /\ [Next]_vars => MintInv'
  <2> SUFFICES ASSUME TypeOK, MintInv, [Next]_vars
               PROVE  MintInv'
    OBVIOUS
  <2> USE DEF MintInv, MintFacts, RecordFacts, HoldsLock, OneGrantPerApproval,
              RefusedMintMadeNothing, IsDuplicate, TypeOK, StoreTypeOK, MinterTypeOK
  <2>1. CASE Tick
    BY <2>1 DEF Tick, store, mintVars
  <2>2. ASSUME NEW c \in Consumers, ConsumerStep(c)
        PROVE  MintInv'
    BY <2>2, ConsumerTouches DEF mintVars
  <2>3. CASE UNCHANGED vars
    BY <2>3 DEF vars, store, mintVars
  <2>4. QED
    BY <2>1, <2>2, <2>3, MintInvMinter DEF Next
<1>3. QED
  BY <1>1, <1>2, TypeCorrect, PTL DEF Spec

\* One live grant per approval, for any number of terminals, commits and nonces.
THEOREM OneGrantPerApprovalHolds == Spec => []OneGrantPerApproval
BY MintCorrect, PTL DEF MintInv

\* A refused mint created nothing.
THEOREM RefusedMintMadeNothingHolds == Spec => []RefusedMintMadeNothing
BY MintCorrect, PTL DEF MintInv

-----------------------------------------------------------------------------
(***************************************************************************)
(* Consuming: one run per grant, and justified refusals.                   *)
(***************************************************************************)

\* What a mint does to a file that was already written: it may prune it, once it
\* has expired by the clock the mint read, and nothing else.
LEMMA MinterTouches ==
  ASSUME TypeOK, MintInv, NEW m \in Minters, MinterStep(m)
  PROVE  /\ UNCHANGED <<now, runVars>>
         /\ \A n \in Nonces : file[n] \notin {"absent", "empty"} =>
              /\ key'[n] = key[n] /\ expires'[n] = expires[n]
              /\ file'[n] = file[n] \/ (file[n] = "written" /\ file'[n] = "pruned"
                                       /\ ~Live(n))
         /\ \A n \in Nonces : file'[n] = "receipt" => file[n] = "receipt"
<1> USE DEF store
<1>1. ASSUME NEW via \in {"grant", "ae"}, NEW k \in Keys, NEW ttl \in Ttls,
             StartMint(m, via, k, ttl)
      PROVE  UNCHANGED <<now, store, runVars>>
  BY <1>1 DEF StartMint
<1>2. CASE Acquire(m) \/ GiveUp(m) \/ CheckDuplicate(m) \/ Report(m) \/ MinterDies(m)
  BY <1>2 DEF Acquire, GiveUp, CheckDuplicate, Report, MinterDies
<1>3. CASE Prune(m)
  <2>1. mnow[m] <= now
    BY <1>3 DEF Prune, MintInv, MintFacts, HoldsLock
  <2>2. QED
    BY <1>3, <2>1 DEF Prune, Pruneable, Live, TypeOK, StoreTypeOK, MinterTypeOK
<1>4. CASE Create(m)
  BY <1>4 DEF Create, TypeOK, StoreTypeOK
<1>5. CASE Write(m)
  <2>1. file[mmade[m]] = "empty"
    BY <1>5 DEF Write, MintInv, MintFacts
  <2>2. QED
    BY <1>5, <2>1 DEF Write, PutRecord, TypeOK, StoreTypeOK
<1>6. QED
  BY <1>1, <1>2, <1>3, <1>4, <1>5 DEF MinterStep

\* A mint does not disturb what the consumers know.
LEMMA ConsumeInvMinter ==
  ASSUME TypeOK, MintInv, ConsumeInv, NEW m \in Minters, MinterStep(m)
  PROVE  ConsumeInv'
<1>1. /\ UNCHANGED <<now, runVars>>
      /\ \A n \in Nonces : file[n] \notin {"absent", "empty"} =>
           /\ key'[n] = key[n] /\ expires'[n] = expires[n]
           /\ file'[n] = file[n] \/ (file[n] = "written" /\ file'[n] = "pruned")
  BY MinterTouches
<1>2. ConsumeFacts'
  BY <1>1 DEF ConsumeInv, ConsumeFacts, Live, runVars, TypeOK, StoreTypeOK,
     ConsumerTypeOK
<1>3. GrantSpentOnce'
  BY <1>1 DEF ConsumeInv, GrantSpentOnce, Spenders, runVars
<1>4. QED
  BY <1>2, <1>3 DEF ConsumeInv

\* A run that ends keeps the invariant.
LEMMA FinishRunKeeps ==
  ASSUME TypeOK, ConsumeInv, NEW c \in Consumers,
         NEW exit \in {"none", "consumed", "expired", "mismatch", "no_grant",
                      "killed", "undecided"},
         FinishRun(c, exit), UNCHANGED <<now, store, runs>>,
         \A d \in Consumers \ {c} : cnonce'[d] = cnonce[d]
  PROVE  ConsumeInv'
<1>1. ConsumeFacts'
  BY DEF ConsumeInv, ConsumeFacts, FinishRun, store, Live, TypeOK, ConsumerTypeOK
<1>2. \A n \in Nonces : Spenders(n)' \subseteq Spenders(n)
  BY DEF Spenders, FinishRun, TypeOK, ConsumerTypeOK
<1>3. GrantSpentOnce'
  BY <1>2 DEF ConsumeInv, GrantSpentOnce, store
<1>4. QED
  BY <1>1, <1>3 DEF ConsumeInv

\* Every step of a run keeps the invariant.
LEMMA ConsumeInvConsumer ==
  ASSUME TypeOK, MintInv, ConsumeInv, NEW c \in Consumers, ConsumerStep(c)
  PROVE  ConsumeInv'
<1> USE DEF store
<1>1. ASSUME NEW k \in Keys, StartConsume(c, k)
      PROVE  ConsumeInv'
  <2>1. ConsumeFacts'
    BY <1>1 DEF StartConsume, InGrants, Live, ConsumeInv, ConsumeFacts, TypeOK,
       StoreTypeOK, ConsumerTypeOK
  <2>2. \A n \in Nonces : Spenders(n)' = Spenders(n)
    BY <1>1 DEF StartConsume, Spenders, TypeOK, ConsumerTypeOK
  <2>3. QED
    BY <1>1, <2>1, <2>2 DEF StartConsume, ConsumeInv, GrantSpentOnce
<1>2. ASSUME NEW n \in Nonces, Inspect(c, n)
      PROVE  ConsumeInv'
  <2>1. ConsumeFacts'
    BY <1>2 DEF Inspect, Live, ConsumeInv, ConsumeFacts, TypeOK, StoreTypeOK,
       ConsumerTypeOK
  <2>2. \A o \in Nonces : Spenders(o)' = Spenders(o)
    BY <1>2 DEF Inspect, Spenders, TypeOK, ConsumerTypeOK
  <2>3. QED
    BY <1>2, <2>1, <2>2 DEF Inspect, ConsumeInv, GrantSpentOnce
<1>3. CASE Claim(c)
  <2>0. cnonce[c] \in Nonces /\ cpc[c] = "claim"
    BY <1>3 DEF Claim, ConsumeInv, ConsumeFacts
  <2>1. ConsumeFacts'
    BY <1>3, <2>0 DEF Claim, Renamable, Live, ConsumeInv, ConsumeFacts, TypeOK,
       StoreTypeOK, ConsumerTypeOK
  <2>2. CASE Renamable(cnonce[c])
    <3>1. Spenders(cnonce[c]) = {} /\ runs[cnonce[c]] # 1
      BY <2>0, <2>2 DEF Renamable, ConsumeInv, GrantSpentOnce
    <3>2. /\ Spenders(cnonce[c])' = {c}
          /\ \A o \in Nonces \ {cnonce[c]} : Spenders(o)' = Spenders(o)
      BY <1>3, <2>0, <2>2, <3>1 DEF Claim, Spenders, TypeOK, ConsumerTypeOK
    <3>3. GrantSpentOnce'
      BY <1>3, <2>0, <2>2, <3>1, <3>2 DEF Claim, ConsumeInv, GrantSpentOnce, TypeOK,
         StoreTypeOK
    <3>4. QED
      BY <2>1, <3>3 DEF ConsumeInv
  <2>3. CASE ~Renamable(cnonce[c])
    <3>1. \A o \in Nonces : Spenders(o)' = Spenders(o)
      BY <1>3, <2>0, <2>3 DEF Claim, Spenders, TypeOK, ConsumerTypeOK
    <3>2. QED
      BY <1>3, <2>1, <2>3, <3>1 DEF Claim, ConsumeInv, GrantSpentOnce
  <2>4. QED
    BY <2>2, <2>3
<1>4. CASE Refuse(c)
  <2>1. RefusalCode(c) \in {"consumed", "expired", "mismatch", "no_grant"}
    BY DEF RefusalCode
  <2>2. QED
    BY <1>4, <2>1, FinishRunKeeps DEF Refuse
<1>5. CASE PrintConsumed(c)
  <2>1. ConsumeFacts'
    BY <1>5 DEF PrintConsumed, Live, ConsumeInv, ConsumeFacts, TypeOK, ConsumerTypeOK
  <2>2. \A o \in Nonces : Spenders(o)' = Spenders(o)
    BY <1>5 DEF PrintConsumed, Spenders, TypeOK, ConsumerTypeOK
  <2>3. QED
    BY <1>5, <2>1, <2>2 DEF PrintConsumed, ConsumeInv, GrantSpentOnce
<1>6. CASE Exec(c)
  <2>0. cnonce[c] \in Nonces /\ c \in Spenders(cnonce[c])
    BY <1>6 DEF Exec, Spenders, ConsumeInv, ConsumeFacts
  <2>1. ConsumeFacts'
    BY <1>6 DEF Exec, FinishRun, Live, ConsumeInv, ConsumeFacts, TypeOK, ConsumerTypeOK
  <2>2. /\ Spenders(cnonce[c])' = {}
        /\ \A o \in Nonces \ {cnonce[c]} : Spenders(o)' = Spenders(o)
    BY <1>6, <2>0 DEF Exec, FinishRun, Spenders, ConsumeInv, GrantSpentOnce, TypeOK,
       ConsumerTypeOK
  <2>3. runs[cnonce[c]] = 0 /\ file[cnonce[c]] = "receipt"
    BY <2>0 DEF ConsumeInv, GrantSpentOnce, TypeOK, ConsumerTypeOK
  <2>4. GrantSpentOnce'
    BY <1>6, <2>0, <2>2, <2>3 DEF Exec, ConsumeInv, GrantSpentOnce, TypeOK,
       ConsumerTypeOK
  <2>5. QED
    BY <2>1, <2>4 DEF ConsumeInv
<1>7. CASE ChildDies(c)
  BY <1>7, FinishRunKeeps DEF ChildDies, TypeOK, ConsumerTypeOK
<1>8. CASE RunnerDies(c)
  BY <1>8, FinishRunKeeps DEF RunnerDies, TypeOK, ConsumerTypeOK
<1>9. QED
  BY <1>1, <1>2, <1>3, <1>4, <1>5, <1>6, <1>7, <1>8 DEF ConsumerStep

\* The consumers' invariant holds in every state.
THEOREM ConsumeCorrect == Spec => []ConsumeInv
<1>1. Init => ConsumeInv
  BY DEF Init, ConsumeInv, ConsumeFacts, GrantSpentOnce, Spenders
<1>2. TypeOK /\ MintInv /\ ConsumeInv /\ [Next]_vars => ConsumeInv'
  <2> SUFFICES ASSUME TypeOK, MintInv, ConsumeInv, [Next]_vars
               PROVE  ConsumeInv'
    OBVIOUS
  <2> USE DEF ConsumeInv, ConsumeFacts, GrantSpentOnce, Spenders, Live
  <2>1. CASE Tick
    BY <2>1 DEF Tick, store, runVars, TypeOK, StoreTypeOK, ConsumerTypeOK
  <2>2. CASE UNCHANGED vars
    BY <2>2 DEF vars, store, runVars
  <2>3. QED
    BY <2>1, <2>2, ConsumeInvMinter, ConsumeInvConsumer DEF Next
<1>3. QED
  BY <1>1, <1>2, TypeCorrect, MintCorrect, PTL DEF Spec

\* One grant buys one run, however many runners race for it.
THEOREM GrantSpentOnceHolds == Spec => []GrantSpentOnce
BY ConsumeCorrect, PTL DEF ConsumeInv

\* A live grant leaves the store only by being spent, whatever else is going on.
THEOREM LiveGrantOnlySpentHolds == Spec => LiveGrantOnlySpent
<1> DEFINE Loss(n) == Live(n) /\ file'[n] # "written"
           Spent(n) == /\ file'[n] = "receipt"
                       /\ \E c \in Consumers : /\ cpc[c] = "claim" /\ cnonce[c] = n
                                              /\ ckey[c] = key[n]
<1>1. ASSUME TypeOK, MintInv, ConsumeInv, [Next]_vars, NEW n \in Nonces, Loss(n)
      PROVE  Spent(n)
  <2>1. file[n] = "written" /\ file' # file
    BY <1>1 DEF Live
  <2>2. ASSUME NEW m \in Minters, MinterStep(m)
        PROVE  FALSE
    BY <1>1, <2>1, <2>2, MinterTouches
  <2>3. ASSUME NEW c \in Consumers, ConsumerStep(c)
        PROVE  Spent(n)
    <3>1. Claim(c)
      BY <2>1, <2>3 DEF ConsumerStep, StartConsume, Inspect, Refuse, PrintConsumed,
         Exec, ChildDies, RunnerDies, store
    <3>2. cnonce[c] = n
      BY <1>1, <2>1, <3>1 DEF Claim, TypeOK, StoreTypeOK
    <3>3. key[n] = ckey[c]
      BY <1>1, <3>1, <3>2 DEF Claim, ConsumeInv, ConsumeFacts
    <3>4. QED
      BY <1>1, <2>1, <3>1, <3>2, <3>3 DEF Claim, TypeOK, StoreTypeOK
  <2>4. QED
    BY <1>1, <2>1, <2>2, <2>3 DEF Next, Tick, vars, store
<1>2. TypeOK /\ MintInv /\ ConsumeInv /\ [Next]_vars => [LiveGrantSpent]_vars
  BY <1>1 DEF LiveGrantSpent
<1>3. QED
  BY <1>2, TypeCorrect, MintCorrect, ConsumeCorrect, PTL
  DEF Spec, LiveGrantOnlySpent

\* No consumer is refused while a grant it was owed is live, and one that lost the
\* race is told so.
THEOREM RefusalJustifiedHolds == Spec => RefusalJustified
<1> DEFINE Refused(c) == /\ cpc[c] = "scan" /\ cpc'[c] = "idle"
                         /\ cexit'[c] \in Refusals
           Justified(c) ==
             /\ \A n \in cowed[c] : ~Live(n)
             /\ (\E n \in cowed[c] : file[n] = "receipt") => cexit'[c] = "consumed"
<1>1. ASSUME TypeOK, MintInv, ConsumeInv, [Next]_vars, NEW c \in Consumers, Refused(c)
      PROVE  Justified(c)
  <2>1. ~UNCHANGED runVars
    BY <1>1 DEF runVars
  <2>2. PICK d \in Consumers : ConsumerStep(d)
    BY <1>1, <2>1, MinterTouches DEF Next, Tick, vars
  <2>a. \A e \in Consumers \ {d} : cpc'[e] = cpc[e]
    BY <1>1, <2>2 DEF ConsumerStep, StartConsume, Inspect, Claim, Refuse,
       PrintConsumed, Exec, ChildDies, RunnerDies, FinishRun, TypeOK, ConsumerTypeOK
  <2>3. d = c
    BY <1>1, <2>a
  <2>4. Refuse(c)
    BY <1>1, <2>2, <2>3 DEF ConsumerStep, StartConsume, Inspect, Claim,
       PrintConsumed, Exec, ChildDies, RunnerDies, FinishRun, Refusals, TypeOK,
       ConsumerTypeOK
  <2>5. ctodo[c] = {} /\ cexit'[c] = RefusalCode(c)
    <3>1. ctodo[c] = {} /\ cexit' = [cexit EXCEPT ![c] = RefusalCode(c)]
      BY <2>4 DEF Refuse, FinishRun
    <3> HIDE DEF RefusalCode
    <3>2. DOMAIN cexit = Consumers
      BY <1>1 DEF TypeOK, ConsumerTypeOK
    <3>3. QED
      BY <3>1, <3>2
  <2>6. \A n \in cowed[c] : ~Live(n) /\ key[n] = ckey[c]
    BY <1>1, <2>5 DEF ConsumeInv, ConsumeFacts
  <2>7. cowed[c] \subseteq Nonces
    BY <1>1 DEF TypeOK, ConsumerTypeOK
  <2>8. QED
    BY <2>5, <2>6, <2>7 DEF RefusalCode
<1>2. TypeOK /\ MintInv /\ ConsumeInv /\ [Next]_vars => [JustifiedRefusals]_vars
  BY <1>1 DEF JustifiedRefusals
<1>3. QED
  BY <1>2, TypeCorrect, MintCorrect, ConsumeCorrect, PTL
  DEF Spec, RefusalJustified

-----------------------------------------------------------------------------
(***************************************************************************)
(* The store implements SingleUseGrant.                                    *)
(***************************************************************************)

\* A step that changes no file but from absent to empty, no key, and no run count is
\* not seen by the abstract specification.
LEMMA Unseen ==
  ASSUME UNCHANGED <<key, runs>>,
         \A n \in Nonces : file'[n] = file[n] \/ (file[n] = "absent" /\ file'[n] = "empty")
  PROVE  UNCHANGED Contract!vars
<1>1. \A n \in Nonces : AbstractState(n)' = AbstractState(n)
  BY DEF AbstractState
<1>2. \A n \in Nonces : AbstractApproval(n)' = AbstractApproval(n)
  BY DEF AbstractApproval
<1>3. [n \in Nonces |-> AbstractState(n)]' = [n \in Nonces |-> AbstractState(n)]
  BY <1>1
<1>4. [n \in Nonces |-> AbstractApproval(n)]' = [n \in Nonces |-> AbstractApproval(n)]
  BY <1>2
<1>5. QED
  BY <1>3, <1>4 DEF Contract!vars

\* Pruning voids grants, half-written files among them.
LEMMA PruneImplements ==
  ASSUME TypeOK, NEW m \in Minters, Prune(m)
  PROVE  Contract!Void(Pruneable(m))
<1>1. /\ UNCHANGED <<key, runs>>
      /\ \A n \in Nonces :
           file'[n] = IF n \in Pruneable(m) THEN "pruned" ELSE file[n]
  BY DEF Prune, runVars
<1>2. \A n \in Pruneable(m) : AbstractState(n) \in {"unminted", "open"}
  BY DEF Pruneable, AbstractState
<1>3. \A n \in Nonces :
        AbstractState(n)' = IF n \in Pruneable(m) THEN "void" ELSE AbstractState(n)
  <2> TAKE n \in Nonces
  <2>1. CASE n \in Pruneable(m)
    <3>1. file'[n] = "pruned"
      BY <1>1, <2>1
    <3>2. QED
      BY <2>1, <3>1 DEF AbstractState
  <2>2. CASE n \notin Pruneable(m)
    <3>1. file'[n] = file[n]
      BY <1>1, <2>2
    <3>2. QED
      BY <2>2, <3>1 DEF AbstractState
  <2>3. QED
    BY <2>1, <2>2
<1>4. \A n \in Nonces : AbstractApproval(n)' = AbstractApproval(n)
  BY <1>1 DEF AbstractApproval
<1>5. Pruneable(m) \subseteq Nonces
  BY DEF Pruneable
<1> HIDE DEF Pruneable
<1>6. QED
  BY <1>1, <1>2, <1>3, <1>4, <1>5 DEF Contract!Void

\* Writing the record opens a grant, the only one for its approval.
LEMMA PutRecordImplements ==
  ASSUME TypeOK, MintInv, NEW m \in Minters, mpc[m] = "write", PutRecord(m),
         UNCHANGED runs
  PROVE  Contract!Open(mmade[m], Approval(mkey[m])) /\ Approval(mkey[m]) \in Approvals
<1>1. /\ mmade[m] \in Nonces /\ file[mmade[m]] = "empty" /\ mkey[m] \in Keys
      /\ ~IsDuplicate(m)
  BY DEF MintInv, MintFacts, HoldsLock
<1>2. Approval(mkey[m]) \in Approvals /\ mkey[m] # None
  BY <1>1, ConstantsAssumption DEF Keys, Approval, Approvals
<1>3. \A n \in Nonces :
        AbstractState(n)' = IF n = mmade[m] THEN "open" ELSE AbstractState(n)
  <2> TAKE n \in Nonces
  <2>1. file'[n] = IF n = mmade[m] THEN "written" ELSE file[n]
    BY DEF PutRecord, TypeOK, StoreTypeOK
  <2>2. CASE n = mmade[m]
    BY <2>1, <2>2 DEF AbstractState
  <2>3. CASE n # mmade[m]
    BY <2>1, <2>3 DEF AbstractState
  <2>4. QED
    BY <2>2, <2>3
<1>4. \A n \in Nonces : AbstractApproval(n)' =
        IF n = mmade[m] THEN Approval(mkey[m]) ELSE AbstractApproval(n)
  BY <1>1, <1>2 DEF PutRecord, AbstractApproval, TypeOK, StoreTypeOK
<1>5. AbstractState(mmade[m]) = "unminted"
  BY <1>1 DEF AbstractState
<1>6. \A n \in Nonces : AbstractState(n) = "open" =>
        AbstractApproval(n) # Approval(mkey[m])
  <2> SUFFICES ASSUME NEW n \in Nonces, AbstractState(n) = "open"
               PROVE  AbstractApproval(n) # Approval(mkey[m])
    OBVIOUS
  <2>1. file[n] = "written"
    BY DEF AbstractState, TypeOK, StoreTypeOK, FileStates
  <2>2. key[n] # None /\ Approval(key[n]) # Approval(mkey[m])
    BY <1>1, <2>1, ConstantsAssumption DEF IsDuplicate, MintInv, RecordFacts, Keys
  <2>3. QED
    BY <2>2 DEF AbstractApproval
<1>7. QED
  BY <1>1, <1>2, <1>3, <1>4, <1>5, <1>6 DEF Contract!Open

\* A mint opens one grant, or voids the files it prunes, or does nothing that the
\* abstract specification sees.
LEMMA MinterImplements ==
  ASSUME TypeOK, MintInv, NEW m \in Minters, MinterStep(m)
  PROVE  [Contract!Next]_(Contract!vars)
<1>0. UNCHANGED runs
  BY MinterTouches DEF runVars
<1>1. CASE UNCHANGED store
  BY <1>0, <1>1, Unseen DEF store
<1>2. CASE Prune(m)
  <2>1. Pruneable(m) \in SUBSET Nonces
    BY DEF Pruneable
  <2>2. QED
    BY <1>2, <2>1, PruneImplements DEF Contract!Next
<1>3. CASE Create(m) /\ ~UNCHANGED file
  BY <1>0, <1>3, Unseen DEF Create, TypeOK, StoreTypeOK
<1>4. CASE Write(m) /\ PutRecord(m)
  <2>1. mmade[m] \in Nonces /\ mpc[m] = "write"
    BY <1>4 DEF Write, MintInv, MintFacts
  <2>2. QED
    BY <1>0, <1>4, <2>1, PutRecordImplements DEF Contract!Next
<1>5. QED
  BY <1>1, <1>2, <1>3, <1>4 DEF MinterStep, StartMint, Acquire, GiveUp, CheckDuplicate,
     Create, Write, Report, MinterDies, store

\* A consumer spends an open grant, or runs on a spent one, or does nothing that the
\* abstract specification sees.
LEMMA ConsumerImplements ==
  ASSUME TypeOK, ConsumeInv, NEW c \in Consumers, ConsumerStep(c)
  PROVE  [Contract!Next]_(Contract!vars)
<1>0. UNCHANGED key
  BY ConsumerTouches
<1>1. CASE UNCHANGED <<file, runs>>
  BY <1>0, <1>1, Unseen
<1>2. CASE Claim(c) /\ Renamable(cnonce[c])
  <2>1. /\ cnonce[c] \in Nonces /\ file[cnonce[c]] = "written" /\ UNCHANGED runs
        /\ file' = [file EXCEPT ![cnonce[c]] = "receipt"]
    BY <1>2 DEF Claim, Renamable, ConsumeInv, ConsumeFacts
  <2>2. \A n \in Nonces :
          AbstractState(n)' = IF n = cnonce[c] THEN "spent" ELSE AbstractState(n)
    <3> TAKE n \in Nonces
    <3>1. file'[n] = IF n = cnonce[c] THEN "receipt" ELSE file[n]
      BY <2>1 DEF TypeOK, StoreTypeOK
    <3>2. CASE n = cnonce[c]
      BY <3>1, <3>2 DEF AbstractState
    <3>3. CASE n # cnonce[c]
      BY <3>1, <3>3 DEF AbstractState
    <3>4. QED
      BY <3>2, <3>3
  <2>3. AbstractState(cnonce[c]) = "open"
    BY <2>1 DEF AbstractState
  <2>4. \A n \in Nonces : AbstractApproval(n)' = AbstractApproval(n)
    BY <1>0 DEF AbstractApproval
  <2>5. Contract!Spend(cnonce[c])
    BY <2>1, <2>2, <2>3, <2>4 DEF Contract!Spend
  <2>6. QED
    BY <2>1, <2>5 DEF Contract!Next
<1>3. CASE Exec(c)
  <2>1. /\ cnonce[c] \in Nonces /\ c \in Spenders(cnonce[c])
        /\ runs' = [runs EXCEPT ![cnonce[c]] = @ + 1] /\ UNCHANGED file
    BY <1>3 DEF Exec, Spenders, ConsumeInv, ConsumeFacts, store
  <2>2. runs[cnonce[c]] = 0 /\ file[cnonce[c]] = "receipt"
    BY <2>1 DEF ConsumeInv, GrantSpentOnce, TypeOK, ConsumerTypeOK
  <2>3. runs' = [runs EXCEPT ![cnonce[c]] = 1]
    BY <2>1, <2>2
  <2>4. \A n \in Nonces : AbstractState(n)' = AbstractState(n)
                         /\ AbstractApproval(n)' = AbstractApproval(n)
    BY <1>0, <2>1 DEF AbstractState, AbstractApproval
  <2>5. AbstractState(cnonce[c]) = "spent"
    BY <2>2 DEF AbstractState
  <2>6. Contract!Run(cnonce[c])
    BY <2>1, <2>2, <2>3, <2>4, <2>5 DEF Contract!Run
  <2>7. QED
    BY <2>1, <2>6 DEF Contract!Next
<1>4. QED
  BY <1>1, <1>2, <1>3 DEF ConsumerStep, StartConsume, Inspect, Claim, Refuse,
     PrintConsumed, Exec, ChildDies, RunnerDies, store

\* The broker's store implements the one-shot grant.
THEOREM StoreImplementsContract == Spec => ContractSpec
<1>1. Init => Contract!Init
  BY DEF Init, Contract!Init, AbstractState, AbstractApproval
<1>2. TypeOK /\ MintInv /\ ConsumeInv /\ [Next]_vars => [Contract!Next]_(Contract!vars)
  <2> SUFFICES ASSUME TypeOK, MintInv, ConsumeInv, [Next]_vars
               PROVE  [Contract!Next]_(Contract!vars)
    OBVIOUS
  <2>1. CASE Tick \/ UNCHANGED vars
    BY <2>1, Unseen DEF Tick, vars, store, runVars
  <2>2. QED
    BY <2>1, MinterImplements, ConsumerImplements DEF Next
<1>3. QED
  BY <1>1, <1>2, TypeCorrect, MintCorrect, ConsumeCorrect, PTL
  DEF Spec, ContractSpec, Contract!Spec
=============================================================================
