----------------------------- MODULE GrantStore -----------------------------
(***************************************************************************)
(* The grant broker of tools/gate: hrse_gate_broker.py mints, prunes and   *)
(* consumes one-shot grants for production runs, and hrse_gate_run.py is   *)
(* the runner that has a grant consumed and then executes the gate script. *)
(*                                                                         *)
(* A grant is a file named by its nonce, first under grants/, then renamed *)
(* into receipts/ by the consumer that spends it.  Minters (the operator's *)
(* `grant` and `grant-from-ae` commands) exclude one another with a flock. *)
(* Consumers take no lock: they race with one another and with a mint.     *)
(* Each variable of a process is what that process would lose in a crash.  *)
(***************************************************************************)
EXTENDS Naturals

CONSTANTS Issues, Actions, Shas,  \* what a grant's key is made of
          Nonces,                 \* random file names, each used at most once
          Minters,                \* operator terminals
          Consumers,              \* Lane 3 runners, each with its broker child
          Ttls,                   \* the lifetimes an operator may ask for
          MaxTime,                \* bound on the clock
          None                    \* "no nonce", "no key", "no process"

ASSUME ConstantsAssumption ==
  /\ Ttls \subseteq Nat \ {0}
  /\ MaxTime \in Nat
  /\ None \notin Nonces
  /\ None \notin Minters
  /\ None \notin [issue: Issues, action: Actions, sha: Shas]
  /\ None \notin [issue: Issues, action: Actions]

VARIABLES
  now,      \* the clock
  file,     \* [Nonces -> FileStates], where each grant file is
  key,      \* [Nonces -> Keys], the action the file's record names
  expires,  \* [Nonces -> Nat], the record's expiry
  lock,     \* the minter that holds .mint.lock, or None
  mpc,      \* [Minters -> ...], the next step of a mint
  mvia,     \* [Minters -> {"grant", "ae"}], the verb
  mkey,     \* [Minters -> Keys], the key being minted
  mttl,     \* [Minters -> Ttls]
  mnow,     \* [Minters -> Nat], the clock as read under the lock
  mholder,  \* [Minters -> Nonces], the caller's `minted` record
  mexit,    \* [Minters -> ...], the answer of the last finished mint
  cpc,      \* [Consumers -> ...], the next step of a run
  ckey,     \* [Consumers -> Keys], the exact action asked for
  ctodo,    \* [Consumers -> SUBSET Nonces], listed files not yet looked at
  cseen,    \* [Consumers -> SUBSET {"expired", "mismatch"}]
  cnonce,   \* [Consumers -> Nonces], the file chosen, then the file renamed
  cexit,    \* [Consumers -> ...], the answer of the last finished run
  runs,     \* [Nonces -> Nat], times the gate script ran on this grant
  mmade,    \* history: [Minters -> Nonces], the file this mint really created
  cowed     \* history: [Consumers -> SUBSET Nonces], grants open for ckey when
            \* the consumer listed the store

store    == <<file, key, expires>>
mintVars == <<lock, mpc, mvia, mkey, mttl, mnow, mholder, mexit, mmade>>
runVars  == <<cpc, ckey, ctodo, cseen, cnonce, cexit, runs, cowed>>
vars     == <<now, store, mintVars, runVars>>

-----------------------------------------------------------------------------
Keys == [issue: Issues, action: Actions, sha: Shas]

\* The approval of a key leaves the commit out: the lane chooses the commit.
Approval(k) == [issue |-> k.issue, action |-> k.action]

Approvals == [issue: Issues, action: Actions]

FileStates == {"absent",    \* never created
               "empty",     \* in grants/, created but not written
               "written",   \* in grants/, a readable record
               "receipt",   \* in receipts/
               "pruned"}    \* unlinked

InGrants(n) == file[n] \in {"empty", "written"}
Live(n)     == file[n] = "written" /\ expires[n] > now

HoldsLock == {"prune", "check", "create", "write"}

StoreTypeOK ==
  /\ now \in Nat
  /\ file \in [Nonces -> FileStates]
  /\ key \in [Nonces -> Keys \cup {None}]
  /\ expires \in [Nonces -> Nat]

MinterTypeOK ==
  /\ lock \in Minters \cup {None}
  /\ mpc \in [Minters -> {"idle", "wait", "report"} \cup HoldsLock]
  /\ mvia \in [Minters -> {"grant", "ae"}]
  /\ mkey \in [Minters -> Keys \cup {None}]
  /\ mttl \in [Minters -> Nat]
  /\ mnow \in [Minters -> Nat]
  /\ mholder \in [Minters -> Nonces \cup {None}]
  /\ mexit \in [Minters -> {"none", "ok", "refused", "duplicate",
                            "uncertain", "error"}]
  /\ mmade \in [Minters -> Nonces \cup {None}]

ConsumerTypeOK ==
  /\ cpc \in [Consumers -> {"idle", "scan", "claim", "renamed", "granted"}]
  /\ ckey \in [Consumers -> Keys \cup {None}]
  /\ ctodo \in [Consumers -> SUBSET Nonces]
  /\ cseen \in [Consumers -> SUBSET {"expired", "mismatch"}]
  /\ cnonce \in [Consumers -> Nonces \cup {None}]
  /\ cexit \in [Consumers -> {"none", "consumed", "expired", "mismatch",
                              "no_grant", "killed", "undecided", "ran"}]
  /\ cowed \in [Consumers -> SUBSET Nonces]
  /\ runs \in [Nonces -> Nat]

TypeOK == StoreTypeOK /\ MinterTypeOK /\ ConsumerTypeOK

Init ==
  /\ now = 0
  /\ file = [n \in Nonces |-> "absent"]
  /\ key = [n \in Nonces |-> None]
  /\ expires = [n \in Nonces |-> 0]
  /\ lock = None
  /\ mpc = [m \in Minters |-> "idle"]
  /\ mvia = [m \in Minters |-> "grant"]
  /\ mkey = [m \in Minters |-> None]
  /\ mttl = [m \in Minters |-> 0]
  /\ mnow = [m \in Minters |-> 0]
  /\ mholder = [m \in Minters |-> None]
  /\ mexit = [m \in Minters |-> "none"]
  /\ mmade = [m \in Minters |-> None]
  /\ cpc = [c \in Consumers |-> "idle"]
  /\ ckey = [c \in Consumers |-> None]
  /\ ctodo = [c \in Consumers |-> {}]
  /\ cseen = [c \in Consumers |-> {}]
  /\ cnonce = [c \in Consumers |-> None]
  /\ cexit = [c \in Consumers |-> "none"]
  /\ cowed = [c \in Consumers |-> {}]
  /\ runs = [n \in Nonces |-> 0]

\* The clock moves between any two steps of any process.
Tick ==
  /\ now < MaxTime
  /\ now' = now + 1
  /\ UNCHANGED <<store, mintVars, runVars>>

-----------------------------------------------------------------------------
(***************************************************************************)
(* Minting: _mint under _store_lock, and the exit code main gives it.      *)
(***************************************************************************)

\* The process ends.  Closing the descriptor gives the lock back; what the
\* process knew is forgotten, only its answer is left.
FinishMint(m, exit) ==
  /\ mpc' = [mpc EXCEPT ![m] = "idle"]
  /\ mexit' = [mexit EXCEPT ![m] = exit]
  /\ mkey' = [mkey EXCEPT ![m] = None]
  /\ mttl' = [mttl EXCEPT ![m] = 0]
  /\ mnow' = [mnow EXCEPT ![m] = 0]
  /\ mholder' = [mholder EXCEPT ![m] = None]
  /\ lock' = IF lock = m THEN None ELSE lock
  /\ UNCHANGED mvia

FailureExitUnrecorded(m) ==   \* a mutant: what was created is not recorded
  IF mvia[m] = "grant" THEN "error" ELSE "refused"

\* An unexpected failure: `grant` dies with a traceback, `grant-from-ae` answers
\* from what it recorded, never from the store.
FailureExit(m) ==
  IF mvia[m] = "grant" THEN "error"
  ELSE IF mholder[m] # None THEN "uncertain" ELSE "refused"

StartMint(m, via, k, ttl) ==
  /\ mpc[m] = "idle"
  /\ mpc' = [mpc EXCEPT ![m] = "wait"]
  /\ mvia' = [mvia EXCEPT ![m] = via]
  /\ mkey' = [mkey EXCEPT ![m] = k]
  /\ mttl' = [mttl EXCEPT ![m] = ttl]
  /\ mexit' = [mexit EXCEPT ![m] = "none"]
  /\ mmade' = [mmade EXCEPT ![m] = None]
  /\ UNCHANGED <<now, store, lock, mnow, mholder, runVars>>

LockIgnored == TRUE   \* a mutant: the flock does not exclude

LockFree == lock = None

\* The lock is taken, and the clock read once for the whole mint.
Acquire(m) ==
  /\ mpc[m] = "wait"
  /\ LockFree
  /\ lock' = m
  /\ mnow' = [mnow EXCEPT ![m] = now]
  /\ mpc' = [mpc EXCEPT ![m] = "prune"]
  /\ UNCHANGED <<now, store, mvia, mkey, mttl, mholder, mexit, mmade, runVars>>

\* The wait is bounded: another mint held the lock until the deadline.
GiveUp(m) ==
  /\ mpc[m] = "wait"
  /\ ~LockFree
  /\ FinishMint(m, "refused")
  /\ UNCHANGED <<now, store, mmade, runVars>>

\* A mutant: a grant in its last unit of life is pruned as well.
PruneableEarly(m) == {n \in Nonces :
  \/ file[n] = "empty"
  \/ file[n] = "written" /\ expires[n] <= mnow[m] + 1}

\* The files _prune_expired unlinks: unreadable, or expired by the mint's clock.
Pruneable(m) == {n \in Nonces :
  \/ file[n] = "empty"
  \/ file[n] = "written" /\ expires[n] <= mnow[m]}

Prune(m) ==
  /\ mpc[m] = "prune"
  /\ file' = [n \in Nonces |-> IF n \in Pruneable(m) THEN "pruned" ELSE file[n]]
  /\ mpc' = [mpc EXCEPT ![m] = "check"]
  /\ UNCHANGED <<now, key, expires, lock, mvia, mkey, mttl, mnow, mholder,
                 mexit, mmade, runVars>>

\* A mutant: only spent grants count as duplicates.
IsDuplicateReceipts(m) ==
  \E n \in Nonces : file[n] = "receipt" /\ Approval(key[n]) = Approval(mkey[m])

IsDuplicate(m) ==
  \E n \in Nonces : file[n] = "written" /\ Approval(key[n]) = Approval(mkey[m])

\* Records are only ever added under the lock, so looking at all of them at once
\* finds no fewer of them than the loop over the directory does.
CheckDuplicate(m) ==
  /\ mpc[m] = "check"
  /\ \/ /\ IsDuplicate(m)
        /\ FinishMint(m, "duplicate")
     \/ /\ ~IsDuplicate(m)
        /\ mpc' = [mpc EXCEPT ![m] = "create"]
        /\ UNCHANGED <<lock, mvia, mkey, mttl, mnow, mholder, mexit>>
  /\ UNCHANGED <<now, store, mmade, runVars>>

\* The nonce is recorded, then the file opened with O_EXCL; when the open itself
\* fails the record is withdrawn and nothing was created.
Create(m) ==
  /\ mpc[m] = "create"
  /\ \/ \E n \in Nonces :
          /\ file[n] = "absent"
          /\ file' = [file EXCEPT ![n] = "empty"]
          /\ mholder' = [mholder EXCEPT ![m] = n]
          /\ mmade' = [mmade EXCEPT ![m] = n]
          /\ mpc' = [mpc EXCEPT ![m] = "write"]
          /\ UNCHANGED <<lock, mvia, mkey, mttl, mnow, mexit>>
     \/ /\ FinishMint(m, FailureExit(m))
        /\ UNCHANGED <<file, mmade>>
  /\ UNCHANGED <<now, key, expires, runVars>>

\* A mutant: the record names the approval only, the commit is lost.
PutRecordNoSha(m) ==
  /\ file' = [file EXCEPT ![mmade[m]] = "written"]
  /\ key' = [key EXCEPT ![mmade[m]] = Approval(mkey[m])]
  /\ expires' = [expires EXCEPT ![mmade[m]] = mnow[m] + mttl[m]]

\* chown, chmod, write, fsync.  A failure before the write is complete leaves an
\* unreadable file, a failure of the fsync leaves a good one.
PutRecord(m) ==
  /\ file' = [file EXCEPT ![mmade[m]] = "written"]
  /\ key' = [key EXCEPT ![mmade[m]] = mkey[m]]
  /\ expires' = [expires EXCEPT ![mmade[m]] = mnow[m] + mttl[m]]

Write(m) ==
  /\ mpc[m] = "write"
  /\ \/ /\ PutRecord(m)
        /\ mpc' = [mpc EXCEPT ![m] = "report"]
        /\ lock' = IF lock = m THEN None ELSE lock
        /\ UNCHANGED <<mvia, mkey, mttl, mnow, mholder, mexit>>
     \/ /\ PutRecord(m) \/ UNCHANGED store
        /\ FinishMint(m, FailureExit(m))
  /\ UNCHANGED <<now, mmade, runVars>>

\* The nonce is printed, unless standard output is gone.
Report(m) ==
  /\ mpc[m] = "report"
  /\ FinishMint(m, "ok") \/ FinishMint(m, FailureExit(m))
  /\ UNCHANGED <<now, store, mmade, runVars>>

\* SIGKILL or power loss: no answer at all.
MinterDies(m) ==
  /\ mpc[m] # "idle"
  /\ FinishMint(m, "none")
  /\ UNCHANGED <<now, store, mmade, runVars>>

-----------------------------------------------------------------------------
(***************************************************************************)
(* Consuming: hrse_gate_run.main and the broker's consume.                 *)
(***************************************************************************)

FinishRun(c, exit) ==
  /\ cpc' = [cpc EXCEPT ![c] = "idle"]
  /\ cexit' = [cexit EXCEPT ![c] = exit]
  /\ ckey' = [ckey EXCEPT ![c] = None]
  /\ ctodo' = [ctodo EXCEPT ![c] = {}]
  /\ cseen' = [cseen EXCEPT ![c] = {}]
  /\ cowed' = [cowed EXCEPT ![c] = {}]

\* The runner asks for exactly this key, and its child lists grants/.
StartConsume(c, k) ==
  /\ cpc[c] = "idle"
  /\ cpc' = [cpc EXCEPT ![c] = "scan"]
  /\ ckey' = [ckey EXCEPT ![c] = k]
  /\ ctodo' = [ctodo EXCEPT ![c] = {n \in Nonces : InGrants(n)}]
  /\ cnonce' = [cnonce EXCEPT ![c] = None]
  /\ cexit' = [cexit EXCEPT ![c] = "none"]
  /\ cowed' = [cowed EXCEPT ![c] = {n \in Nonces : Live(n) /\ key[n] = k}]
  /\ UNCHANGED <<now, store, mintVars, cseen, runs>>

SameCommitOtherAction(k, asked) ==
  k.issue = asked.issue /\ k.sha = asked.sha /\ k.action # asked.action

\* Why a readable file is passed over.
Noted(c, n) ==
  IF file[n] # "written" THEN {}
  ELSE IF key[n] = ckey[c] THEN {"expired"}
  ELSE IF SameCommitOtherAction(key[n], ckey[c]) THEN {"mismatch"} ELSE {}

\* One turn of the loop over grants/, in any order (nonces are random): the file
\* is read and compared, and its expiry checked against the clock.
Inspect(c, n) ==
  /\ cpc[c] = "scan"
  /\ n \in ctodo[c]
  /\ ctodo' = [ctodo EXCEPT ![c] = @ \ {n}]
  /\ \/ /\ file[n] = "written" /\ key[n] = ckey[c] /\ expires[n] > now
        /\ cpc' = [cpc EXCEPT ![c] = "claim"]
        /\ cnonce' = [cnonce EXCEPT ![c] = n]
        /\ UNCHANGED cseen
     \/ /\ ~(file[n] = "written" /\ key[n] = ckey[c] /\ expires[n] > now)
        /\ cseen' = [cseen EXCEPT ![c] = @ \cup Noted(c, n)]
        /\ UNCHANGED <<cpc, cnonce>>
  /\ UNCHANGED <<now, store, mintVars, ckey, cexit, runs, cowed>>

RenamableTwice(n) == file[n] # "absent"   \* a mutant: the grant is copied

\* os.rename finds the file still under grants/.
Renamable(n) == file[n] = "written"

\* os.rename into receipts/, which at most one caller can do to a file.  The
\* loser (or a consumer whose file was pruned) goes on with its list.
Claim(c) ==
  /\ cpc[c] = "claim"
  /\ \/ /\ Renamable(cnonce[c])
        /\ file' = [file EXCEPT ![cnonce[c]] = "receipt"]
        /\ cpc' = [cpc EXCEPT ![c] = "renamed"]
        /\ UNCHANGED cnonce
     \/ /\ ~Renamable(cnonce[c])
        /\ cpc' = [cpc EXCEPT ![c] = "scan"]
        /\ cnonce' = [cnonce EXCEPT ![c] = None]
        /\ UNCHANGED file
  /\ UNCHANGED <<now, key, expires, mintVars, ckey, ctodo, cseen, cexit, runs,
                 cowed>>

RefusalCodeNoReceipts(c) ==   \* a mutant: the receipts are not looked at
  IF "expired" \in cseen[c] THEN "expired"
  ELSE IF "mismatch" \in cseen[c] THEN "mismatch" ELSE "no_grant"

\* The order of the refusals at the end of consume.
RefusalCode(c) ==
  IF \E n \in Nonces : file[n] = "receipt" /\ key[n] = ckey[c] THEN "consumed"
  ELSE IF "expired" \in cseen[c] THEN "expired"
  ELSE IF "mismatch" \in cseen[c] THEN "mismatch" ELSE "no_grant"

Refuse(c) ==
  /\ cpc[c] = "scan"
  /\ ctodo[c] = {}
  /\ FinishRun(c, RefusalCode(c))
  /\ UNCHANGED <<now, store, mintVars, cnonce, runs>>

\* The child prints "consumed <nonce>" and exits 0; the runner has its grant.
PrintConsumed(c) ==
  /\ cpc[c] = "renamed"
  /\ cpc' = [cpc EXCEPT ![c] = "granted"]
  /\ UNCHANGED <<now, store, mintVars, ckey, ctodo, cseen, cnonce, cexit, runs,
                 cowed>>

\* The runner becomes the gate script, with the spent grant in its environment.
Exec(c) ==
  /\ cpc[c] = "granted"
  /\ runs' = [runs EXCEPT ![cnonce[c]] = @ + 1]
  /\ FinishRun(c, "ran")
  /\ UNCHANGED <<now, store, mintVars, cnonce>>

\* The broker child is killed, or outlives the runner's 60 s.  The runner reports
\* a non-zero child as "no grant was spent", a timeout as undecided.
ChildDies(c) ==
  /\ cpc[c] \in {"scan", "claim", "renamed"}
  /\ FinishRun(c, "killed") \/ FinishRun(c, "undecided")
  /\ cnonce' = [cnonce EXCEPT ![c] = IF cpc[c] = "renamed" THEN @ ELSE None]
  /\ UNCHANGED <<now, store, mintVars, runs>>

\* The runner itself dies: whatever was renamed stays renamed.
RunnerDies(c) ==
  /\ cpc[c] # "idle"
  /\ FinishRun(c, "none")
  /\ cnonce' = [cnonce EXCEPT ![c] = None]
  /\ UNCHANGED <<now, store, mintVars, runs>>

-----------------------------------------------------------------------------
MinterStep(m) ==
  \/ \E via \in {"grant", "ae"}, k \in Keys, ttl \in Ttls :
       StartMint(m, via, k, ttl)
  \/ Acquire(m) \/ GiveUp(m) \/ Prune(m) \/ CheckDuplicate(m)
  \/ Create(m) \/ Write(m) \/ Report(m) \/ MinterDies(m)

ConsumerStep(c) ==
  \/ \E k \in Keys : StartConsume(c, k)
  \/ \E n \in Nonces : Inspect(c, n)
  \/ Claim(c) \/ Refuse(c) \/ PrintConsumed(c) \/ Exec(c)
  \/ ChildDies(c) \/ RunnerDies(c)

Next ==
  \/ Tick
  \/ \E m \in Minters : MinterStep(m)
  \/ \E c \in Consumers : ConsumerStep(c)

Spec == Init /\ [][Next]_vars

-----------------------------------------------------------------------------
(***************************************************************************)
(* What must hold.                                                         *)
(***************************************************************************)

Spenders(n) ==
  {c \in Consumers : cpc[c] \in {"renamed", "granted"} /\ cnonce[c] = n}

\* One grant buys one run ("one operator approval, one spent grant, one run"):
\* of all the consumers that race for a file at most one gets it, the script
\* runs at most once on it, and nobody can still claim a grant that was run on.
GrantSpentOnce ==
  \A n \in Nonces :
    /\ \A c, d \in Spenders(n) : c = d
    /\ runs[n] <= 1
    /\ runs[n] = 1 => Spenders(n) = {}
    /\ (runs[n] = 1 \/ Spenders(n) # {}) => file[n] = "receipt"

\* "One approval, one live grant": two terminals, two commits of one action, a
\* dead minter or an expired file never leave two spendable grants for it.
OneGrantPerApproval ==
  \A n, o \in Nonces :
    file[n] = "written" /\ file[o] = "written" /\ Approval(key[n]) = Approval(key[o])
      => n = o

\* A refusal of grant-from-ae means that run left no file behind, so the operator
\* may mint again: whatever failed, and wherever, in _grant_from_ae.
RefusedMintMadeNothing ==
  \A m \in Minters :
    mpc[m] = "idle" /\ mexit[m] \in {"refused", "duplicate"} => mmade[m] = None

\* A live grant leaves grants/ in one way: spent by a consumer that asked for
\* exactly its issue, commit and action.  No mint ever prunes it.
LiveGrantSpent ==
  \A n \in Nonces :
    Live(n) /\ file'[n] # "written" =>
      /\ file'[n] = "receipt"
      /\ \E c \in Consumers : cpc[c] = "claim" /\ cnonce[c] = n /\ ckey[c] = key[n]

LiveGrantOnlySpent == [][LiveGrantSpent]_vars

Refusals == {"consumed", "expired", "mismatch", "no_grant"}

\* A consumer is not refused while a grant it was owed from the start is still
\* live, and one whose grant another runner spent is told "consumed".
JustifiedRefusals ==
  \A c \in Consumers :
    cpc[c] = "scan" /\ cpc'[c] = "idle" /\ cexit'[c] \in Refusals =>
      /\ \A n \in cowed[c] : ~Live(n)
      /\ (\E n \in cowed[c] : file[n] = "receipt") => cexit'[c] = "consumed"

RefusalJustified == [][JustifiedRefusals]_vars

-----------------------------------------------------------------------------
(***************************************************************************)
(* Why it holds: the parts of the inductive invariant.                     *)
(***************************************************************************)

\* What a mint knows between its steps.  The lock makes its finding of no
\* duplicate last until it has written; the file it fills is its own.
MintFacts ==
  \A m \in Minters :
    /\ mpc[m] \in HoldsLock => lock = m /\ mkey[m] \in Keys /\ mnow[m] <= now
    /\ mpc[m] = "wait" => mkey[m] \in Keys
    /\ mpc[m] \in {"idle", "wait", "prune", "check", "create"} =>
         mholder[m] = None /\ (mpc[m] # "idle" => mmade[m] = None)
    /\ mpc[m] \in {"create", "write"} => ~IsDuplicate(m)
    /\ mpc[m] = "write" => mmade[m] \in Nonces /\ file[mmade[m]] = "empty"
    /\ mpc[m] \in {"write", "report"} => mholder[m] # None

\* A record, once written, names a key for ever.
RecordFacts ==
  \A n \in Nonces : file[n] \in {"written", "receipt"} => key[n] \in Keys

MintInv == MintFacts /\ RecordFacts /\ OneGrantPerApproval /\ RefusedMintMadeNothing

\* What a consumer knows between its steps, whoever moves in between: the file it
\* chose names its key, and no grant it is owed was passed over.
ConsumeFacts ==
  \A c \in Consumers :
    /\ cpc[c] \in {"claim", "renamed", "granted"} => cnonce[c] \in Nonces
    /\ cpc[c] = "claim" => /\ key[cnonce[c]] = ckey[c]
                           /\ file[cnonce[c]] \in {"written", "receipt", "pruned"}
    /\ \A n \in cowed[c] : /\ key[n] = ckey[c]
                            /\ file[n] \in {"written", "receipt", "pruned"}
    /\ cpc[c] = "scan" => \A n \in cowed[c] : Live(n) => n \in ctodo[c]
    /\ cpc[c] = "claim" =>
         \A n \in cowed[c] : Live(n) => n \in ctodo[c] \/ n = cnonce[c]

ConsumeInv == ConsumeFacts /\ GrantSpentOnce

\* The store implements the one-shot grant: the state and approval a file stands for.
AbstractState(n) ==
  CASE file[n] \in {"absent", "empty"} -> "unminted"
    [] file[n] = "written" -> "open"
    [] file[n] = "receipt" -> "spent"
    [] OTHER -> "void"

AbstractApproval(n) == IF key[n] = None THEN None ELSE Approval(key[n])

Contract == INSTANCE SingleUseGrant WITH
  NoApproval <- None,
  state <- [n \in Nonces |-> AbstractState(n)],
  approves <- [n \in Nonces |-> AbstractApproval(n)]

\* Whatever the terminals, the runners and the clock do, what can be seen of the
\* store is a set of grants each opened, spent and run on at most once.
ContractSpec == Contract!Spec
=============================================================================
