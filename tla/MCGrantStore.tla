---------------------------- MODULE MCGrantStore ----------------------------
(* GrantStore on small instances. *)
EXTENDS GrantStore, TLC

Symmetry ==
  Permutations(Nonces) \cup Permutations(Minters) \cup Permutations(Consumers)
    \cup Permutations(Shas) \cup Permutations(Actions)

\* Two terminals and one runner, for commits of one action; or one terminal and two
\* runners, for the actions of one commit.
KeysInUse ==
  ({key[n] : n \in Nonces} \cup {mkey[m] : m \in Minters} \cup {ckey[c] : c \in Consumers}) \ {None}

MintRace ==
  /\ \A k, l \in KeysInUse : k.action = l.action
  /\ \A c, d \in Consumers : cpc[c] = "idle" \/ cpc[d] = "idle" \/ c = d

ConsumeRace ==
  /\ \A k, l \in KeysInUse : k.sha = l.sha
  /\ \A m, l \in Minters : mpc[m] = "idle" \/ mpc[l] = "idle" \/ m = l

GrantScope == MintRace \/ ConsumeRace

GrantNext ==
  \/ Tick
  \/ \E m \in Minters, via \in {"grant", "ae"}, k \in Keys, ttl \in Ttls :
       StartMint(m, via, k, ttl) /\ GrantScope'
  \/ \E m \in Minters : Acquire(m) /\ GrantScope'
  \/ \E m \in Minters : GiveUp(m) /\ GrantScope'
  \/ \E m \in Minters : Prune(m) /\ GrantScope'
  \/ \E m \in Minters : CheckDuplicate(m) /\ GrantScope'
  \/ \E m \in Minters : Create(m) /\ GrantScope'
  \/ \E m \in Minters : Write(m) /\ GrantScope'
  \/ \E m \in Minters : Report(m) /\ GrantScope'
  \/ \E m \in Minters : MinterDies(m) /\ GrantScope'
  \/ \E c \in Consumers, k \in Keys : StartConsume(c, k) /\ GrantScope'
  \/ \E c \in Consumers, n \in Nonces : Inspect(c, n) /\ GrantScope'
  \/ \E c \in Consumers : Claim(c) /\ GrantScope'
  \/ \E c \in Consumers : Refuse(c) /\ GrantScope'
  \/ \E c \in Consumers : PrintConsumed(c) /\ GrantScope'
  \/ \E c \in Consumers : Exec(c) /\ GrantScope'
  \/ \E c \in Consumers : ChildDies(c) /\ GrantScope'
  \/ \E c \in Consumers : RunnerDies(c) /\ GrantScope'

GrantsSpec == Init /\ [][GrantNext]_vars

\* What a finished process answered does not distinguish two states, but for a refused
\* mint that made a file; nor does the expiry of a file that is no grant.
View ==
  <<now, file, key, runs, lock, mpc, mkey, mttl, mnow, mholder, cpc, ckey, ctodo, cseen, cowed,
    [n \in Nonces |-> IF file[n] = "written" THEN expires[n] ELSE 0],
    [m \in Minters |-> IF mpc[m] # "idle" THEN <<mvia[m], mmade[m]>>
                       ELSE mexit[m] \in {"refused", "duplicate"} /\ mmade[m] # None],
    [c \in Consumers |-> IF cpc[c] # "idle" THEN cnonce[c] ELSE None]>>
=============================================================================
