--------------------------- MODULE SingleUseGrant ---------------------------
(***************************************************************************)
(* What the grant broker promises, with the store, the lock, the clock and *)
(* the processes left out.  A grant names one approval.  It is opened at   *)
(* most once, at most one grant per approval is open, it ends spent or     *)
(* void, and a spent grant buys at most one production run.                *)
(* GrantStore implements this specification.                               *)
(***************************************************************************)
EXTENDS Naturals

CONSTANTS Nonces,      \* the grant identifiers
          Approvals,   \* what an operator can approve
          NoApproval   \* the approval of a grant not yet opened

VARIABLES state,       \* [Nonces -> {"unminted", "open", "spent", "void"}]
          approves,    \* [Nonces -> Approvals \cup {NoApproval}]
          runs         \* [Nonces -> Nat], the runs bought with the grant

vars == <<state, approves, runs>>

Init ==
  /\ state = [n \in Nonces |-> "unminted"]
  /\ approves = [n \in Nonces |-> NoApproval]
  /\ runs = [n \in Nonces |-> 0]

Open(n, a) ==
  /\ state[n] = "unminted"
  /\ \A o \in Nonces : state[o] = "open" => approves[o] # a
  /\ state' = [state EXCEPT ![n] = "open"]
  /\ approves' = [approves EXCEPT ![n] = a]
  /\ UNCHANGED runs

\* Several grants may be pruned at once, and a half-written one never opened.
Void(S) ==
  /\ \A n \in S : state[n] \in {"unminted", "open"}
  /\ state' = [n \in Nonces |-> IF n \in S THEN "void" ELSE state[n]]
  /\ UNCHANGED <<approves, runs>>

Spend(n) ==
  /\ state[n] = "open"
  /\ state' = [state EXCEPT ![n] = "spent"]
  /\ UNCHANGED <<approves, runs>>

Run(n) ==
  /\ state[n] = "spent"
  /\ runs[n] = 0
  /\ runs' = [runs EXCEPT ![n] = 1]
  /\ UNCHANGED <<state, approves>>

Next ==
  \/ \E n \in Nonces, a \in Approvals : Open(n, a)
  \/ \E S \in SUBSET Nonces : Void(S)
  \/ \E n \in Nonces : Spend(n) \/ Run(n)

Spec == Init /\ [][Next]_vars
=============================================================================
