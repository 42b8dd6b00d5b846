--------------------------- MODULE BatchAuth_proofs ---------------------------
(***************************************************************************)
(* Proofs about BatchAuth, for any number of sessions, terminals, keys,    *)
(* pull requests, commands and heads.                                      *)
(***************************************************************************)
EXTENDS BatchAuth, SequenceTheorems, WellFoundedInduction, TLAPS

-----------------------------------------------------------------------------
(***************************************************************************)
(* One entry of the file.                                                  *)
(***************************************************************************)

\* The first of some places is one of them.
LEMMA LeastIsIn ==
  ASSUME NEW S, S \subseteq Nat, S # {}
  PROVE  Least(S) \in S
<1>. DEFINE R == {ss \in Nat \X Nat : ss[1] < ss[2]}
<1>1. IsWellFoundedOn(R, Nat)
  BY NatLessThanWellFounded, Zenon DEF OpToRel
<1>2. \A m, n \in Nat : m < n => <<m, n>> \in R
  OBVIOUS
<1>. HIDE DEF R
<1>3. PICK n \in S : \A m \in S : ~ (<<m, n>> \in R)
  BY <1>1, WFMin, Zenon
<1>4. \A m \in S : n <= m
  <2>. SUFFICES ASSUME NEW m \in S, ~ (n <= m)  PROVE FALSE
    OBVIOUS
  <2>1. m \in Nat /\ n \in Nat /\ m < n
    OBVIOUS
  <2>2. <<m, n>> \in R
    BY <1>2, <2>1, Zenon
  <2>. QED  BY <1>3, <2>2, Zenon
<1>. QED  BY <1>4 DEF Least

\* Free places, and the place a consumption falls on.
LEMMA PlacesOf ==
  ASSUME NEW e \in Entries, NEW p
  PROVE  /\ Places(e) \subseteq Nat
         /\ Unlinked(e) # {} => Least(Unlinked(e)) \in Unlinked(e)
         /\ Relocated(e, p) \subseteq Free(e)
         /\ \A n \in Relocated(e, p) :
              n \in Linked(e, p) \/ Free(e) \cap Linked(e, p) = {}
<1>1. Places(e) \subseteq Nat
  BY DEF Entries, Places
<1>2. /\ Free(e) \subseteq Nat /\ Unlinked(e) \subseteq Nat
      /\ Free(e) \cap Linked(e, p) \subseteq Nat
  BY <1>1 DEF Free, Unlinked
<1>. QED  BY <1>1, <1>2, LeastIsIn DEF Relocated

\* What is a function on 1..n is a sequence.
LEMMA SeqOf ==
  ASSUME NEW S, NEW n \in Nat, NEW q \in [1..n -> S]
  PROVE  q \in Seq(S) /\ DOMAIN q = 1..n
<1>. QED  BY SeqDef

\* What GrantsStand says of an entry that is neither new nor gone.
Stands(e, f) ==
  /\ f.mint = e.mint
  /\ \A n \in Places(e) :
       /\ n \in Places(f)
       /\ e.slots[n].is # "free" => f.slots[n].is = e.slots[n].is
       /\ e.slots[n].pr # NoPr => f.slots[n].pr = e.slots[n].pr

OneLink(e) ==
  \A n \in Free(e) : \A m \in Places(e) \ {n} :
    e.slots[n].pr # NoPr => e.slots[m].pr # e.slots[n].pr

\* The targets that are spent in f were so in e, or are spent by p's merge.
SpendsOnly(e, f, p) ==
  \A n \in Places(f) :
    f.slots[n].is = "spent" =>
      \/ n \in Places(e) /\ e.slots[n].is = "spent" /\ f.slots[n].by = e.slots[n].by
      \/ f.slots[n].by.pr = p

SpendsNone(e, f) ==
  \A n \in Places(f) :
    f.slots[n].is = "spent" =>
      n \in Places(e) /\ e.slots[n].is = "spent" /\ f.slots[n].by = e.slots[n].by

LEMMA EntryParts ==
  ASSUME NEW e \in Entries
  PROVE  /\ e.mint \in Nat /\ e.slots \in Seq(Slots) /\ e.owners \in SUBSET Sessions
         /\ \A n \in Places(e) : e.slots[n] \in Slots
         /\ Places(e) = 1..Len(e.slots) /\ Len(e.slots) \in Nat
<1>. QED  BY DEF Entries, Places

LEMMA RevokedEntry ==
  ASSUME NEW e \in Entries
  PROVE  /\ Revoked(e) \in Entries
         /\ Stands(e, Revoked(e)) /\ Revoked(e).owners = e.owners
         /\ OneLink(e) => OneLink(Revoked(e))
         /\ SpendsNone(e, Revoked(e))
<1>. DEFINE q == [n \in DOMAIN e.slots |-> IF e.slots[n].is = "free"
                                          THEN [e.slots[n] EXCEPT !.is = "revoked"] ELSE e.slots[n]]
<1>1. \A n \in 1..Len(e.slots) : e.slots[n] \in Slots
  BY EntryParts DEF Places
<1>2. DOMAIN q = 1..Len(e.slots)
  BY EntryParts DEF Places
<1>3. \A n \in 1..Len(e.slots) :
        /\ q[n] \in Slots
        /\ q[n].is # "free" /\ q[n].pr = e.slots[n].pr
        /\ e.slots[n].is # "free" => q[n] = e.slots[n]
        /\ e.slots[n].is = "free" => q[n].is = "revoked"
  BY <1>1, <1>2 DEF Slots
<1>4. q \in Seq(Slots)
  <2>1. q \in [1..Len(e.slots) -> Slots]
    BY <1>2, <1>3
  <2>. QED  BY <2>1, EntryParts, SeqOf
<1>5. /\ Revoked(e) = [e EXCEPT !.slots = q]
      /\ Revoked(e).slots = q /\ Revoked(e).mint = e.mint /\ Revoked(e).owners = e.owners
  BY DEF Revoked, Entries
<1>. HIDE DEF q
<1>6. Revoked(e) \in Entries
  BY <1>4, <1>5 DEF Entries
<1>. QED
  BY <1>2, <1>3, <1>5, <1>6, EntryParts DEF Stands, OneLink, SpendsNone, Places, Free

LEMMA ExtendedEntry ==
  ASSUME NEW e \in Entries, NEW s \in Sessions
  PROVE  LET f == Extended(e, s) IN
         /\ f \in Entries /\ f.slots = e.slots /\ f.mint = e.mint
         /\ f.owners = IF e.owners = {} THEN {} ELSE e.owners \cup {s}
<1>. QED  BY DEF Extended, Entries

\* An entry whose targets alone are replaced.
LEMMA WithSlots ==
  ASSUME NEW e \in Entries, NEW q \in Seq(Slots)
  PROVE  LET f == [e EXCEPT !.slots = q] IN
         f \in Entries /\ f.slots = q /\ f.mint = e.mint /\ f.owners = e.owners
<1>. QED  BY DEF Entries

LEMMA LinkedSlot ==
  ASSUME NEW t \in Slots, NEW p \in Prs
  PROVE  LET u == [t EXCEPT !.pr = p] IN
         u \in Slots /\ u.pr = p /\ u.is = t.is /\ u.by = t.by
<1>. QED  BY DEF Slots

LEMMA FreeSlotType == FreeSlot \in Slots /\ FreeSlot.pr = NoPr /\ FreeSlot.is = "free"
<1>. QED  BY ConstantsAssumption DEF FreeSlot, Slots, NoCommand, Commands

\* link_pr: a target that had no pull request gets one no other target has.
LEMMA LinkToEntry ==
  ASSUME NEW e \in Entries, NEW p \in Prs
  PROVE  /\ LinkTo(e, p) \in Entries
         /\ Stands(e, LinkTo(e, p)) /\ LinkTo(e, p).owners = e.owners
         /\ OneLink(e) => OneLink(LinkTo(e, p))
         /\ SpendsNone(e, LinkTo(e, p))
<1>1. CASE AlreadyLinked(e, p)
  BY <1>1, EntryParts DEF LinkTo, Stands, OneLink, SpendsNone
<1>2. CASE ~AlreadyLinked(e, p) /\ Unlinked(e) # {}
  <2>. DEFINE n == Least(Unlinked(e))
              q == [e.slots EXCEPT ![n].pr = p]
  <2>1. n \in Unlinked(e) /\ n \in Places(e) /\ e.slots[n].is = "free" /\ e.slots[n].pr = NoPr
    BY <1>2, PlacesOf DEF Unlinked, Free, Linked
  <2>. HIDE DEF n
  <2>2. q = [m \in 1..Len(e.slots) |-> IF m = n THEN [e.slots[n] EXCEPT !.pr = p] ELSE e.slots[m]]
    BY <2>1, EntryParts DEF Places
  <2>3. \A m \in 1..Len(e.slots) :
          /\ q[m] \in Slots
          /\ m = n => q[m].pr = p /\ q[m].is = "free"
          /\ m # n => q[m] = e.slots[m]
    BY <2>1, <2>2, EntryParts, LinkedSlot DEF Places
  <2>4. q \in Seq(Slots) /\ DOMAIN q = 1..Len(e.slots)
    <3>1. q \in [1..Len(e.slots) -> Slots]
      BY <2>2, <2>3
    <3>. QED  BY <3>1, EntryParts, SeqOf
  <2>5. LinkTo(e, p) = [e EXCEPT !.slots = q]
    BY <1>2 DEF LinkTo, n, Entries
  <2>. HIDE DEF q
  <2>6. /\ LinkTo(e, p) \in Entries /\ LinkTo(e, p).slots = q
        /\ LinkTo(e, p).mint = e.mint /\ LinkTo(e, p).owners = e.owners
    BY <2>4, <2>5, WithSlots
  <2>7. \A m \in Places(e) : e.slots[m].pr # p
    BY <1>2 DEF AlreadyLinked, Linked
  <2>8. Places(LinkTo(e, p)) = Places(e)
    BY <2>4, <2>6, EntryParts DEF Places
  <2>9. /\ n \in Places(e) /\ LinkTo(e, p).slots[n].pr = p /\ LinkTo(e, p).slots[n].is = "free"
        /\ \A m \in Places(e) : m # n => LinkTo(e, p).slots[m] = e.slots[m]
    BY <2>1, <2>3, <2>6, EntryParts
  <2>10. Stands(e, LinkTo(e, p))
    BY <2>1, <2>6, <2>8, <2>9 DEF Stands
  <2>11. SpendsNone(e, LinkTo(e, p))
    BY <2>8, <2>9 DEF SpendsNone
  <2>12. ASSUME OneLink(e)  PROVE OneLink(LinkTo(e, p))
    BY <2>7, <2>8, <2>9, <2>12 DEF OneLink, Free
  <2>. QED  BY <2>6, <2>10, <2>11, <2>12
<1>3. CASE ~AlreadyLinked(e, p) /\ Unlinked(e) = {}
  <2>. DEFINE t == [FreeSlot EXCEPT !.pr = p]
              q == Append(e.slots, t)
              l == Len(e.slots)
  <2>1. t \in Slots /\ t.pr = p /\ t.is = "free"
    BY FreeSlotType, LinkedSlot
  <2>. HIDE DEF t
  <2>2. /\ q \in Seq(Slots) /\ DOMAIN q = 1..(l + 1)
        /\ q[l + 1] = t /\ \A m \in 1..l : q[m] = e.slots[m]
    BY <2>1, EntryParts
  <2>3. LinkTo(e, p) = [e EXCEPT !.slots = q]
    BY <1>3 DEF LinkTo, t, Entries
  <2>. HIDE DEF q
  <2>4. /\ LinkTo(e, p) \in Entries /\ LinkTo(e, p).slots = q
        /\ LinkTo(e, p).mint = e.mint /\ LinkTo(e, p).owners = e.owners
    BY <2>2, <2>3, WithSlots
  <2>5. \A m \in Places(e) : e.slots[m].pr # p
    BY <1>3 DEF AlreadyLinked, Linked
  <2>6. Places(e) = 1..l /\ l \in Nat /\ Places(LinkTo(e, p)) = 1..(l + 1)
    BY <2>2, <2>4, EntryParts DEF Places
  <2>7. /\ \A m \in 1..l : m # l + 1 /\ LinkTo(e, p).slots[m] = e.slots[m]
        /\ LinkTo(e, p).slots[l + 1].pr = p /\ LinkTo(e, p).slots[l + 1].is = "free"
        /\ \A m \in 1..(l + 1) : m = l + 1 \/ m \in 1..l
        /\ 1..l \subseteq 1..(l + 1)
    BY <2>1, <2>2, <2>4, <2>6
  <2>8. Stands(e, LinkTo(e, p))
    BY <2>4, <2>6, <2>7 DEF Stands
  <2>9. SpendsNone(e, LinkTo(e, p))
    BY <2>6, <2>7 DEF SpendsNone
  <2>10. ASSUME OneLink(e)  PROVE OneLink(LinkTo(e, p))
    BY <2>5, <2>6, <2>7, <2>10 DEF OneLink, Free
  <2>. QED  BY <2>4, <2>8, <2>9, <2>10
<1>. QED  BY <1>1, <1>2, <1>3

\* consume: one free target is spent by the command, and named after it if it had
\* no name; a free target that the pull request is linked to goes first.
LEMMA SpentEntry ==
  ASSUME NEW e \in Entries, NEW c \in Commands, c.pr \in Prs
  PROVE  /\ Spent(e, c) \in Entries
         /\ Stands(e, Spent(e, c)) /\ Spent(e, c).owners = e.owners
         /\ OneLink(e) => OneLink(Spent(e, c))
         /\ SpendsOnly(e, Spent(e, c), c.pr)
<1>. DEFINE N == Relocated(e, c.pr)
            q == [n \in DOMAIN e.slots |->
                    IF n \in N
                    THEN [pr |-> IF e.slots[n].pr = NoPr THEN c.pr ELSE e.slots[n].pr,
                          is |-> "spent", by |-> c]
                    ELSE e.slots[n]]
<1>1. DOMAIN q = 1..Len(e.slots) /\ Places(e) = 1..Len(e.slots)
  BY EntryParts DEF Places
<1>2. Spent(e, c) = [e EXCEPT !.slots = q]
  BY DEF Spent, Entries
<1>3. \A n \in Places(e) :
        /\ q[n] \in Slots
        /\ n \notin N => q[n] = e.slots[n]
        /\ n \in N => /\ q[n].is = "spent" /\ q[n].by = c
                      /\ q[n].pr = IF e.slots[n].pr = NoPr THEN c.pr ELSE e.slots[n].pr
  <2>. SUFFICES ASSUME NEW n \in Places(e)
                PROVE  /\ q[n] \in Slots
                       /\ n \notin N => q[n] = e.slots[n]
                       /\ n \in N => /\ q[n].is = "spent" /\ q[n].by = c
                                     /\ q[n].pr = IF e.slots[n].pr = NoPr THEN c.pr ELSE e.slots[n].pr
    OBVIOUS
  <2>1. e.slots[n] \in Slots /\ e.slots[n].pr \in Prs \cup {NoPr} /\ n \in DOMAIN e.slots
    BY <1>1, EntryParts DEF Slots, Places
  <2>2. CASE n \notin N
    BY <2>1, <2>2
  <2>3. CASE n \in N
    <3>. DEFINE name == IF e.slots[n].pr = NoPr THEN c.pr ELSE e.slots[n].pr
    <3>1. q[n] = [pr |-> name, is |-> "spent", by |-> c]
      BY <2>1, <2>3
    <3>2. name \in Prs \cup {NoPr} /\ c.pr # NoPr
      BY <2>1, ConstantsAssumption
    <3>. HIDE DEF q, N
    <3>. QED  BY <2>3, <3>1, <3>2 DEF Slots
  <2>. QED  BY <2>2, <2>3
<1>4. q \in Seq(Slots)
  <2>1. q \in [1..Len(e.slots) -> Slots]
    BY <1>1, <1>3
  <2>. QED  BY <2>1, EntryParts, SeqOf
<1>5. N \subseteq Free(e) /\ \A n \in N : n \in Linked(e, c.pr) \/ Free(e) \cap Linked(e, c.pr) = {}
  BY PlacesOf
<1>. HIDE DEF q, N
<1>6. /\ Spent(e, c) \in Entries /\ Spent(e, c).slots = q
      /\ Spent(e, c).mint = e.mint /\ Spent(e, c).owners = e.owners
  BY <1>2, <1>4, WithSlots
<1>7. Places(Spent(e, c)) = Places(e)
  BY <1>1, <1>6 DEF Places
<1>8. Stands(e, Spent(e, c)) /\ SpendsOnly(e, Spent(e, c), c.pr)
  BY <1>3, <1>5, <1>6, <1>7 DEF Stands, SpendsOnly, Free
<1>9. ASSUME OneLink(e)  PROVE OneLink(Spent(e, c))
  <2>. SUFFICES ASSUME NEW n \in Places(e), q[n].is = "free", q[n].pr # NoPr,
                       NEW m \in Places(e), m # n
                PROVE  q[m].pr # q[n].pr
    BY <1>6, <1>7 DEF OneLink, Free
  <2>1. n \notin N /\ q[n] = e.slots[n] /\ n \in Free(e) /\ e.slots[m].pr # e.slots[n].pr
    BY <1>3, <1>9 DEF OneLink, Free
  <2>2. CASE m \notin N \/ e.slots[m].pr # NoPr
    BY <1>3, <2>1, <2>2
  <2>3. CASE m \in N /\ e.slots[m].pr = NoPr
    <3>1. Free(e) \cap Linked(e, c.pr) = {}
      BY <1>5, <2>3, ConstantsAssumption DEF Linked
    <3>2. e.slots[n].pr # c.pr
      BY <3>1, <2>1 DEF Linked
    <3>. QED  BY <1>3, <2>1, <2>3, <3>2
  <2>. QED  BY <2>2, <2>3
<1>. QED  BY <1>6, <1>8, <1>9

-----------------------------------------------------------------------------
(***************************************************************************)
(* The writers.                                                            *)
(***************************************************************************)
Basic == TypeOK /\ GrantInv

\* Everything a writer may make of one entry of the file.
Wrote(s, j) ==
  \/ grants'[j] = grants[j] /\ typed'[j] = typed[j]
  \/ /\ grants'[j] = Absent /\ typed'[j] = typed[j]
     /\ age[j] = "stale" /\ <<j, grants[j].mint>> \in archive'
  \/ \E a \in 1..2, o \in SUBSET Sessions :
       /\ grants'[j] = Fresh(a, o) /\ mints' = mints + 1
       /\ o = {} \/ typed'[j] \subseteq o
  \/ s \in Sessions /\ grants'[j] = Extended(grants[j], s) /\ typed'[j] = typed[j] \cup {s}
     /\ Present(grants[j])
  \/ grants'[j] = Revoked(grants[j]) /\ typed'[j] = typed[j]
  \/ \E p \in Prs : grants'[j] = LinkTo(grants[j], p) /\ typed'[j] = typed[j]
  \/ \E c \in Commands :
       /\ c.pr \in Prs /\ merged[c.pr] # 0
       /\ grants'[j] = Spent(grants[j], c) /\ typed'[j] = typed[j]

Writes(s) ==
  /\ pc[s] = "locked"
  /\ Unlock(s)
  /\ grants' = [j \in Keys |-> grants'[j]]
  /\ \A j \in Keys : Wrote(s, j)
  /\ mints' \in Nat /\ mints <= mints'
  /\ age' \in [Keys -> Ages]
  /\ typed' \in [Keys -> SUBSET Sessions]
  /\ archive' \subseteq Keys \X Nat

LEMMA FreshEntry ==
  ASSUME mints \in Nat, NEW a \in 1..2, NEW o \in SUBSET Sessions
  PROVE  /\ Fresh(a, o) \in Entries /\ OneLink(Fresh(a, o))
         /\ Fresh(a, o).mint = mints + 1 /\ Fresh(a, o).owners = o
         /\ \A n \in Places(Fresh(a, o)) : Fresh(a, o).slots[n] = FreeSlot
<1>. DEFINE q == [n \in 1..a |-> FreeSlot]
<1>1. q \in Seq(Slots) /\ DOMAIN q = 1..a
  <2>1. q \in [1..a -> Slots]
    BY FreeSlotType
  <2>. QED  BY <2>1, SeqOf
<1>2. \A n \in 1..a : q[n] = FreeSlot
  OBVIOUS
<1>3. Fresh(a, o) = [mint |-> mints + 1, slots |-> q, owners |-> o]
  BY DEF Fresh
<1>. HIDE DEF q
<1>4. Fresh(a, o) \in Entries
  BY <1>1, <1>3 DEF Entries
<1>5. \A n \in Places(Fresh(a, o)) : Fresh(a, o).slots[n] = FreeSlot
  BY <1>1, <1>2, <1>3 DEF Places
<1>. QED  BY <1>3, <1>4, <1>5, FreeSlotType DEF OneLink, Free

LEMMA AbsentEntry ==
  Absent \in Entries /\ Absent.mint = 0 /\ Places(Absent) = {} /\ Absent.owners = {}
<1>. QED  BY EmptySeq DEF Absent, Entries, Places

\* What the file promises of one entry, before and after a writer.
Promised(j) ==
  LET e == grants[j]  f == grants'[j]
  IN  \/ ~Present(e)
      \/ f.mint > e.mint
      \/ ~Present(f) /\ age[j] = "stale" /\ <<j, e.mint>> \in archive'
      \/ Stands(e, f)

EntryHolds(e, types) ==
  /\ OneLink(e)
  /\ Present(e) /\ e.owners # {} => types \subseteq e.owners
  /\ \A n \in Places(e) : e.slots[n].is = "spent" => merged[e.slots[n].by.pr] # 0

LEMMA WroteEntry ==
  ASSUME Basic, NEW s, NEW j \in Keys, Wrote(s, j), mints' \in Nat, mints <= mints'
  PROVE  /\ grants'[j] \in Entries /\ grants'[j].mint <= mints'
         /\ EntryHolds(grants'[j], typed'[j])
         /\ Promised(j)
<1>. DEFINE e == grants[j]  f == grants'[j]
<1>1. e \in Entries /\ e.mint \in Nat /\ mints \in Nat
  BY DEF Basic, TypeOK, Entries
<1>2. EntryHolds(e, typed[j]) /\ e.mint <= mints
  BY DEF Basic, GrantInv, JobFacts, LinkedOnce, SessionsKept, SpentOnMerge, EntryHolds, OneLink
<1>. USE DEF EntryHolds, Promised
<1>3. ASSUME f \in Entries, Stands(e, f), OneLink(f), f.owners = e.owners, typed'[j] = typed[j],
             SpendsNone(e, f) \/ \E p : SpendsOnly(e, f, p) /\ merged[p] # 0
      PROVE  /\ f \in Entries /\ f.mint <= mints' /\ EntryHolds(f, typed'[j]) /\ Promised(j)
  <2>1. f.mint = e.mint /\ f.mint <= mints'
    BY <1>1, <1>2, <1>3 DEF Stands
  <2>2. \A n \in Places(f) : f.slots[n].is = "spent" => merged[f.slots[n].by.pr] # 0
    BY <1>2, <1>3 DEF SpendsNone, SpendsOnly
  <2>3. Present(f) /\ f.owners # {} => typed'[j] \subseteq f.owners
    BY <1>2, <1>3, <2>1 DEF Present
  <2>. QED  BY <1>3, <2>1, <2>2, <2>3
<1>4. CASE f = e /\ typed'[j] = typed[j]
  <2>1. Stands(e, f) /\ SpendsNone(e, f)
    BY <1>4 DEF Stands, SpendsNone
  <2>. QED  BY <1>1, <1>2, <1>3, <1>4, <2>1
<1>5. CASE /\ f = Absent /\ typed'[j] = typed[j]
           /\ age[j] = "stale" /\ <<j, grants[j].mint>> \in archive'
  BY <1>1, <1>2, <1>5, AbsentEntry DEF Present, OneLink, Free
<1>6. CASE \E a \in 1..2, o \in SUBSET Sessions :
             /\ f = Fresh(a, o) /\ mints' = mints + 1
             /\ o = {} \/ typed'[j] \subseteq o
  <2>1. PICK a \in 1..2, o \in SUBSET Sessions :
             /\ f = Fresh(a, o) /\ mints' = mints + 1
             /\ o = {} \/ typed'[j] \subseteq o
    BY <1>6
  <2>2. /\ f \in Entries /\ OneLink(f) /\ f.mint = mints + 1 /\ f.owners = o
        /\ \A n \in Places(f) : f.slots[n] = FreeSlot
    BY <1>1, <2>1, FreshEntry
  <2>. QED  BY <1>1, <1>2, <2>1, <2>2, FreeSlotType
<1>7. CASE /\ s \in Sessions /\ f = Extended(e, s) /\ typed'[j] = typed[j] \cup {s}
           /\ Present(e)
  <2>1. /\ f \in Entries /\ f.slots = e.slots /\ f.mint = e.mint
        /\ f.owners = IF e.owners = {} THEN {} ELSE e.owners \cup {s}
    BY <1>1, <1>7, ExtendedEntry
  <2>2. Stands(e, f) /\ OneLink(f) /\ Places(f) = Places(e)
    BY <1>2, <2>1 DEF Stands, OneLink, Places, Free
  <2>. QED  BY <1>1, <1>2, <1>7, <2>1, <2>2
<1>8. CASE f = Revoked(e) /\ typed'[j] = typed[j]
  BY <1>1, <1>2, <1>3, <1>8, RevokedEntry
<1>9. CASE \E p \in Prs : f = LinkTo(e, p) /\ typed'[j] = typed[j]
  BY <1>1, <1>2, <1>3, <1>9, LinkToEntry
<1>10. CASE \E c \in Commands :
              /\ c.pr \in Prs /\ merged[c.pr] # 0
              /\ f = Spent(e, c) /\ typed'[j] = typed[j]
  BY <1>1, <1>2, <1>3, <1>10, SpentEntry
<1>. QED  BY <1>4, <1>5, <1>6, <1>7, <1>8, <1>9, <1>10 DEF Wrote

\* A process under the lock works on what the file holds.
LEMMA Loaded ==
  ASSUME Basic, NEW s \in Actors, pc[s] = "locked"
  PROVE  /\ copy[s] = grants /\ grants \in [Keys -> Entries]
         /\ job[s] \in Jobs /\ Knows(s)
<1>. QED  BY DEF Basic, GrantInv, LockFacts, JobFacts, TypeOK

\* The entries that are pruned, and those that are not.
LEMMA PrunedEntry ==
  ASSUME grants \in [Keys -> Entries], NEW gone \in {{}, Stale(grants)}
  PROVE  /\ gone \subseteq Keys
         /\ Pruned(grants, gone) \in [Keys -> Entries]
         /\ \A j \in Keys : /\ j \in gone => Pruned(grants, gone)[j] = Absent /\ age[j] = "stale"
                            /\ j \notin gone => Pruned(grants, gone)[j] = grants[j]
<1>. QED  BY AbsentEntry DEF Pruned, Stale

LEMMA SaveWrites ==
  ASSUME Basic, NEW k \in Keys, NEW e \in Entries, NEW gone \in {{}, Stale(grants)},
         NEW ts \in SUBSET Sessions, typed' = [typed EXCEPT ![k] = ts],
         grants' = [Pruned(grants, gone) EXCEPT ![k] = e],
         archive' = archive \cup {<<j, grants[j].mint>> : j \in gone}
  PROVE  /\ grants' = [j \in Keys |-> grants'[j]]
         /\ grants'[k] = e /\ typed'[k] = ts
         /\ \A j \in Keys \ {k} :
              /\ typed'[j] = typed[j]
              /\ \/ grants'[j] = grants[j]
                 \/ /\ grants'[j] = Absent /\ age[j] = "stale"
                    /\ <<j, grants[j].mint>> \in archive'
         /\ typed' \in [Keys -> SUBSET Sessions]
         /\ archive' \subseteq Keys \X Nat
<1>1. grants \in [Keys -> Entries] /\ typed \in [Keys -> SUBSET Sessions] /\ archive \subseteq Keys \X Nat
  BY DEF Basic, TypeOK
<1>. DEFINE g == Pruned(grants, gone)
<1>2. /\ gone \subseteq Keys /\ g \in [Keys -> Entries]
      /\ \A j \in Keys : /\ j \in gone => g[j] = Absent /\ age[j] = "stale"
                         /\ j \notin gone => g[j] = grants[j]
  BY <1>1, PrunedEntry
<1>3. grants' = [g EXCEPT ![k] = e] /\ archive' = archive \cup {<<j, grants[j].mint>> : j \in gone}
  OBVIOUS
<1>. HIDE DEF g
<1>4. grants' = [j \in Keys |-> IF j = k THEN e ELSE g[j]]
  BY <1>2, <1>3
<1>5. typed' = [j \in Keys |-> IF j = k THEN ts ELSE typed[j]]
  BY <1>1
<1>6. archive' \subseteq Keys \X Nat
  <2>1. \A j \in gone : <<j, grants[j].mint>> \in Keys \X Nat
    BY <1>1, <1>2 DEF Entries
  <2>. QED  BY <1>1, <1>3, <2>1
<1>7. \A j \in gone : <<j, grants[j].mint>> \in archive'
  BY <1>3
<1>. QED  BY <1>1, <1>2, <1>4, <1>5, <1>6, <1>7

LEMMA MintWrites ==
  ASSUME Basic, NEW s \in Actors, Mint(s)
  PROVE  Writes(s)
<1>. DEFINE k == job[s].key
            op == job[s].op
            o == IF op = "batch"
                 THEN IF LiveIn(grants, k) THEN grants[k].owners \cup {s} ELSE {s}
                 ELSE {}
            a == IF op = "batch" THEN 2 ELSE 1
            ts == IF op = "batch"
                  THEN IF LiveIn(grants, k) /\ grants[k].owners # {} THEN typed[k] \cup {s} ELSE {s}
                  ELSE {}
<1>1. pc[s] = "locked" /\ op \in {"authorize", "topup", "batch"} /\ mints' = mints + 1 /\ Unlock(s)
  BY DEF Mint
<1>2. copy[s] = grants /\ grants \in [Keys -> Entries] /\ Knows(s)
  BY <1>1, Loaded
<1>3. k \in Keys /\ (op = "batch" => s \in Sessions)
  BY <1>1, <1>2 DEF Knows
<1>4. /\ mints \in Nat /\ age \in [Keys -> Ages] /\ typed \in [Keys -> SUBSET Sessions]
      /\ grants[k].owners \subseteq Sessions
  BY <1>2, <1>3, EntryParts DEF Basic, TypeOK
<1>5. a \in 1..2 /\ o \in SUBSET Sessions /\ ts \in SUBSET Sessions
  BY <1>3, <1>4
<1>6. o = {} \/ ts \subseteq o
  <2>1. Present(grants[k]) /\ grants[k].owners # {} => typed[k] \subseteq grants[k].owners
    BY <1>3 DEF Basic, GrantInv, SessionsKept
  <2>. QED  BY <2>1 DEF LiveIn
<1>7. /\ typed' = [typed EXCEPT ![k] = ts]
      /\ \E gone \in {{}, Stale(grants)} : Save(k, Fresh(a, o), grants, gone)
      /\ age' = [age EXCEPT ![k] = "live"]
  BY <1>2 DEF Mint
<1>. HIDE DEF a, o, ts, k, op
<1>8. PICK gone \in {{}, Stale(grants)} : Save(k, Fresh(a, o), grants, gone)
  BY <1>7
<1>9. Fresh(a, o) \in Entries
  BY <1>4, <1>5, FreshEntry
<1>10. /\ grants' = [j \in Keys |-> grants'[j]]
       /\ grants'[k] = Fresh(a, o) /\ typed'[k] = ts
       /\ \A j \in Keys \ {k} :
            /\ typed'[j] = typed[j]
            /\ \/ grants'[j] = grants[j]
               \/ /\ grants'[j] = Absent /\ age[j] = "stale"
                  /\ <<j, grants[j].mint>> \in archive'
       /\ typed' \in [Keys -> SUBSET Sessions]
       /\ archive' \subseteq Keys \X Nat
  BY <1>3, <1>5, <1>7, <1>8, <1>9, SaveWrites DEF Save
<1>11. Wrote(s, k)
  BY <1>1, <1>5, <1>6, <1>10 DEF Wrote
<1>12. age' \in [Keys -> Ages]
  BY <1>4, <1>7 DEF Ages
<1>13. \A j \in Keys : Wrote(s, j)
  BY <1>10, <1>11 DEF Wrote
<1>. QED  BY <1>1, <1>4, <1>10, <1>12, <1>13 DEF Writes

LEMMA ExtendWrites ==
  ASSUME Basic, NEW s \in Actors, Extend(s)
  PROVE  Writes(s)
<1>. DEFINE k == job[s].key
            op == job[s].op
            e == IF op = "batch" THEN Extended(grants[k], s) ELSE grants[k]
            ts == IF op = "batch" THEN typed[k] \cup {s} ELSE typed[k]
<1>1. pc[s] = "locked" /\ op \in {"topup", "batch"} /\ mints' = mints /\ age' = age /\ Unlock(s)
  BY DEF Extend
<1>2. copy[s] = grants /\ grants \in [Keys -> Entries] /\ Knows(s)
  BY <1>1, Loaded
<1>3. k \in Keys /\ (op = "batch" => s \in Sessions)
  BY <1>1, <1>2 DEF Knows
<1>4. mints \in Nat /\ age \in [Keys -> Ages] /\ typed \in [Keys -> SUBSET Sessions]
  BY DEF Basic, TypeOK
<1>5. e \in Entries /\ ts \in SUBSET Sessions
  BY <1>2, <1>3, <1>4, ExtendedEntry
<1>6. /\ typed' = [typed EXCEPT ![k] = ts] /\ Present(grants[k])
      /\ \E gone \in {{}, Stale(grants)} : Save(k, e, grants, gone)
  BY <1>2 DEF Extend, LiveIn
<1>7. op = "batch" \/ (e = grants[k] /\ ts = typed[k])
  OBVIOUS
<1>8. op = "batch" => e = Extended(grants[k], s) /\ ts = typed[k] \cup {s}
  OBVIOUS
<1>. HIDE DEF e, ts, k, op
<1>9. PICK gone \in {{}, Stale(grants)} : Save(k, e, grants, gone)
  BY <1>6
<1>10. /\ grants' = [j \in Keys |-> grants'[j]]
       /\ grants'[k] = e /\ typed'[k] = ts
       /\ \A j \in Keys \ {k} :
            /\ typed'[j] = typed[j]
            /\ \/ grants'[j] = grants[j]
               \/ /\ grants'[j] = Absent /\ age[j] = "stale"
                  /\ <<j, grants[j].mint>> \in archive'
       /\ typed' \in [Keys -> SUBSET Sessions]
       /\ archive' \subseteq Keys \X Nat
  BY <1>3, <1>5, <1>6, <1>9, SaveWrites DEF Save
<1>11. Wrote(s, k)
  BY <1>3, <1>6, <1>7, <1>8, <1>10 DEF Wrote
<1>12. \A j \in Keys : Wrote(s, j)
  BY <1>10, <1>11 DEF Wrote
<1>. QED  BY <1>1, <1>4, <1>10, <1>12 DEF Writes

LEMMA ChangeWrites ==
  ASSUME Basic, NEW s \in Actors, Change(s)
  PROVE  Writes(s)
<1>. DEFINE k == job[s].key
            op == job[s].op
            c == job[s].cmd
<1>1. /\ pc[s] = "locked" /\ op \in {"revoke", "link", "consume"} /\ Unlock(s)
      /\ mints' = mints /\ age' = age /\ typed' = typed /\ archive' = archive
  BY DEF Change
<1>2. copy[s] = grants /\ grants \in [Keys -> Entries] /\ job[s] \in Jobs /\ Knows(s)
  BY <1>1, Loaded
<1>3. /\ k \in Keys /\ c \in Commands
      /\ op \in {"link", "consume"} => c.pr \in Prs
      /\ op = "consume" => merged[c.pr] # 0
  BY <1>1, <1>2 DEF Knows, Jobs
<1>4. /\ mints \in Nat /\ age \in [Keys -> Ages] /\ typed \in [Keys -> SUBSET Sessions]
      /\ archive \subseteq Keys \X Nat
  BY DEF Basic, TypeOK
<1>. DEFINE e == grants[k]
            f == CASE op = "revoke" -> Revoked(e)
                   [] op = "link" -> LinkTo(e, c.pr)
                   [] op = "consume" -> IF Live(k) THEN Spent(e, c) ELSE e
<1>5. \/ grants' = grants
      \/ grants' = [grants EXCEPT ![k] = f]
  BY <1>2, <1>3 DEF Change
<1>6. \/ op = "revoke" /\ f = Revoked(e)
      \/ op = "link" /\ f = LinkTo(e, c.pr)
      \/ op = "consume" /\ (f = Spent(e, c) \/ f = e)
  BY <1>1
<1>. HIDE DEF f, k, op, c
<1>7. grants' = [j \in Keys |-> grants'[j]] /\ \A j \in Keys \ {k} : grants'[j] = grants[j]
  BY <1>2, <1>3, <1>5
<1>8. \A j \in Keys \ {k} : Wrote(s, j)
  BY <1>1, <1>7 DEF Wrote
<1>9. grants'[k] = grants[k] \/ grants'[k] = f
  BY <1>2, <1>3, <1>5
<1>10. Wrote(s, k)
  BY <1>1, <1>3, <1>6, <1>9 DEF Wrote
<1>. QED  BY <1>1, <1>4, <1>7, <1>8, <1>10 DEF Writes

LEMMA PruneWrites ==
  ASSUME Basic, NEW s \in Actors, Prune(s)
  PROVE  Writes(s)
<1>1. pc[s] = "locked" /\ mints' = mints /\ age' = age /\ typed' = typed /\ Unlock(s)
  BY DEF Prune
<1>2. copy[s] = grants /\ grants \in [Keys -> Entries]
  BY <1>1, Loaded
<1>3. PICK gone \in {{}, Stale(grants)} :
        /\ grants' = Pruned(grants, gone)
        /\ archive' = archive \cup {<<j, grants[j].mint>> : j \in gone}
  BY <1>2 DEF Prune
<1>4. /\ gone \subseteq Keys /\ grants' \in [Keys -> Entries]
      /\ \A j \in Keys : /\ j \in gone => grants'[j] = Absent /\ age[j] = "stale"
                         /\ j \notin gone => grants'[j] = grants[j]
  BY <1>2, <1>3, PrunedEntry
<1>5. /\ mints \in Nat /\ age \in [Keys -> Ages] /\ typed \in [Keys -> SUBSET Sessions]
      /\ archive \subseteq Keys \X Nat
  BY DEF Basic, TypeOK
<1>6. archive' \subseteq Keys \X Nat
  <2>1. \A j \in gone : <<j, grants[j].mint>> \in Keys \X Nat
    BY <1>2, <1>4 DEF Entries
  <2>. QED  BY <1>3, <1>5, <2>1
<1>7. \A j \in gone : <<j, grants[j].mint>> \in archive'
  BY <1>3
<1>8. \A j \in Keys : Wrote(s, j)
  BY <1>1, <1>4, <1>7 DEF Wrote
<1>. QED  BY <1>1, <1>4, <1>5, <1>6, <1>8 DEF Writes

-----------------------------------------------------------------------------
(***************************************************************************)
(* The processes.                                                          *)
(***************************************************************************)
ActorSteps == {"idle", "ask", "judge", "allowed", "approved", "ran", "confirm", "want", "locked"}

\* What Knows asks of a process at a step with a job.
MayKnow(s, to, x, done, read) ==
  /\ x.op = "batch" => s \in Sessions
  /\ x.op \notin {"none", "merge", "prune"} \/ to = "confirm" => x.key \in Keys
  /\ x.op \in {"link", "merge", "consume"} => x.cmd.pr \in Prs
  /\ to \in {"judge", "ask", "allowed", "approved", "ran", "confirm"} => x.op = "merge"
  /\ x.op = "consume" => done[x.cmd.pr] # 0
  /\ to = "allowed" => <<x.cmd.pr, x.cmd.pin>> \in read

LEMMA ProcessParts ==
  ASSUME Basic, NEW s \in Actors
  PROVE  /\ pc \in [Actors -> ActorSteps] /\ job \in [Actors -> Jobs]
         /\ job[s] \in Jobs /\ job[s].cmd \in Commands
         /\ MayKnow(s, pc[s], job[s], merged, judged)
<1>. QED  BY DEF Basic, TypeOK, GrantInv, JobFacts, Knows, MayKnow, ActorSteps, Jobs

\* What one process does leaves the others knowing what they knew.
LEMMA MoveKeeps ==
  ASSUME Basic, NEW s \in Actors, NEW to \in ActorSteps, NEW x \in Jobs,
         pc' = [pc EXCEPT ![s] = to], job' = [job EXCEPT ![s] = x],
         \A p \in Prs : merged[p] # 0 => merged'[p] # 0,
         judged \subseteq judged',
         MayKnow(s, to, x, merged', judged')
  PROVE  /\ pc' \in [Actors -> ActorSteps] /\ job' \in [Actors -> Jobs]
         /\ pc'[s] = to /\ \A t \in Actors \ {s} : pc'[t] = pc[t]
         /\ \A t \in Actors : MayKnow(t, pc'[t], job'[t], merged', judged')
<1>1. pc \in [Actors -> ActorSteps] /\ job \in [Actors -> Jobs]
  BY ProcessParts
<1>2. pc' \in [Actors -> ActorSteps] /\ job' \in [Actors -> Jobs]
  BY <1>1
<1>3. pc'[s] = to /\ job'[s] = x
  BY <1>1
<1>4. \A t \in Actors \ {s} : pc'[t] = pc[t] /\ job'[t] = job[t]
  BY <1>1
<1>5. ASSUME NEW t \in Actors \ {s}
      PROVE  MayKnow(t, pc'[t], job'[t], merged', judged')
  <2>1. MayKnow(t, pc[t], job[t], merged, judged)
    BY ProcessParts
  <2>2. MayKnow(t, pc[t], job[t], merged', judged')
    BY <2>1 DEF MayKnow
  <2>. QED  BY <1>4, <2>2
<1>6. MayKnow(s, pc'[s], job'[s], merged', judged')
  BY <1>3
<1>. QED  BY <1>2, <1>3, <1>4, <1>5, <1>6

LEMMA JobWith ==
  ASSUME NEW x \in Jobs, NEW op, NEW k
  PROVE  /\ [x EXCEPT !.op = op, !.key = k] = [op |-> op, key |-> k, cmd |-> x.cmd]
         /\ [x EXCEPT !.key = k] = [op |-> x.op, key |-> k, cmd |-> x.cmd]
<1>1. x = [op |-> x.op, key |-> x.key, cmd |-> x.cmd]
  BY DEF Jobs
<1>2. [x EXCEPT !.key = k] = [op |-> x.op, key |-> k, cmd |-> x.cmd]
  BY <1>1
<1>. DEFINE y == [x EXCEPT !.op = op]
<1>3. [x EXCEPT !.op = op, !.key = k] = [y EXCEPT !.key = k]
  OBVIOUS
<1>4. y = [op |-> op, key |-> x.key, cmd |-> x.cmd]
  BY <1>1
<1>. HIDE DEF y
<1>5. [y EXCEPT !.key = k] = [op |-> op, key |-> k, cmd |-> x.cmd]
  BY <1>4
<1>. QED  BY <1>2, <1>3, <1>5

LEMMA WantsMoves ==
  ASSUME Basic, NEW s \in Actors, NEW op, NEW k, Wants(s, op, k)
  PROVE  /\ pc' = [pc EXCEPT ![s] = "want"]
         /\ job' = [job EXCEPT ![s] = [op |-> op, key |-> k, cmd |-> job[s].cmd]]
<1>1. job[s] \in Jobs /\ job \in [Actors -> Jobs]
  BY ProcessParts
<1>2. [job[s] EXCEPT !.op = op, !.key = k] = [op |-> op, key |-> k, cmd |-> job[s].cmd]
  BY <1>1, JobWith
<1>. QED  BY <1>1, <1>2 DEF Wants, Goes

LEMMA IdleJob ==
  ASSUME NEW s \in Actors, NEW done, NEW read
  PROVE  Idle \in Jobs /\ MayKnow(s, "idle", Idle, done, read)
<1>. QED  BY ConstantsAssumption DEF Idle, Jobs, NoCommand, Commands, MayKnow

LEMMA PruneJob ==
  ASSUME Basic, NEW s \in Actors, NEW done, NEW read
  PROVE  LET x == [op |-> "prune", key |-> NoKey, cmd |-> job[s].cmd]
         IN  x \in Jobs /\ MayKnow(s, "want", x, done, read)
<1>. QED  BY ProcessParts DEF Jobs, MayKnow

LEMMA DoneMoves ==
  ASSUME Basic, NEW s \in Actors, Done(s)
  PROVE  \E to \in {"want", "idle"}, x \in Jobs :
           /\ pc' = [pc EXCEPT ![s] = to] /\ job' = [job EXCEPT ![s] = x]
           /\ MayKnow(s, to, x, merged', judged')
<1>1. CASE Wants(s, "prune", NoKey)
  BY <1>1, WantsMoves, PruneJob
<1>2. CASE Rest(s)
  BY <1>2, IdleJob DEF Rest, Goes
<1>. QED  BY <1>1, <1>2 DEF Done

LEMMA MatchesAreKeys ==
  ASSUME NEW p \in Prs, NEW m \in Matches(grants, p)
  PROVE  m[1] \in Keys
<1>. DEFINE linked == UNION {{k} \X Linked(grants[k], p) : k \in Keys}
            free == {n \in linked : grants[n[1]].slots[n[2]].is = "free"}
            spare == IF Derived[p] = NoKey THEN {} ELSE Unlinked(grants[Derived[p]])
            first == <<Derived[p], Least(spare)>>
<1>1. Matches(grants, p) = IF free # {} THEN free ELSE IF linked # {} THEN linked
                           ELSE IF spare # {} THEN {first} ELSE {}
  BY Zenon DEF Matches
<1>2. \A n \in linked : n[1] \in Keys
  OBVIOUS
<1>3. first[1] = Derived[p] /\ (spare # {} => Derived[p] \in Keys)
  BY ConstantsAssumption
<1>4. free \subseteq linked
  OBVIOUS
<1>. HIDE DEF linked, free, spare, first
<1>. QED  BY <1>1, <1>2, <1>3, <1>4

-----------------------------------------------------------------------------
(***************************************************************************)
(* A writer's step keeps what holds.                                       *)
(***************************************************************************)
LEMMA WriterKeeps ==
  ASSUME Basic, NEW s \in Actors, Writes(s)
  PROVE  TypeOK' /\ GrantInv' /\ \A j \in Keys : Promised(j)
<1>1. /\ pc[s] = "locked" /\ mints' \in Nat /\ mints <= mints' /\ age' \in [Keys -> Ages]
      /\ typed' \in [Keys -> SUBSET Sessions] /\ archive' \subseteq Keys \X Nat
      /\ grants' = [j \in Keys |-> grants'[j]]
  BY DEF Writes
<1>2. /\ copy' = [copy EXCEPT ![s] = Unread] /\ Done(s)
      /\ ops' = ops /\ head' = head /\ merged' = merged /\ judged' = judged /\ auto' = auto
  BY DEF Writes, Unlock, github, history
<1>3. ASSUME NEW j \in Keys
      PROVE  /\ grants'[j] \in Entries /\ grants'[j].mint <= mints'
             /\ EntryHolds(grants'[j], typed'[j])
             /\ Promised(j)
  <2>1. Wrote(s, j)
    BY DEF Writes
  <2>. QED  BY <1>1, <2>1, WroteEntry
<1>4. grants' \in [Keys -> Entries]
  BY <1>1, <1>3
<1>5. PICK to \in {"want", "idle"}, x \in Jobs :
           /\ pc' = [pc EXCEPT ![s] = to] /\ job' = [job EXCEPT ![s] = x]
           /\ MayKnow(s, to, x, merged', judged')
  BY <1>2, DoneMoves
<1>6. /\ pc' \in [Actors -> ActorSteps] /\ job' \in [Actors -> Jobs]
      /\ pc'[s] = to /\ \A t \in Actors \ {s} : pc'[t] = pc[t]
      /\ \A t \in Actors : MayKnow(t, pc'[t], job'[t], merged', judged')
  BY <1>2, <1>5, MoveKeeps DEF ActorSteps
<1>7. TypeOK'
  <2>1. copy' \in [Actors -> [Keys -> Entries]]
    BY <1>2, AbsentEntry DEF Basic, TypeOK, Unread
  <2>. QED  BY <1>1, <1>2, <1>4, <1>6, <2>1 DEF Basic, TypeOK, ActorSteps
<1>8. LockFacts'
  <2>1. \A t \in Actors : pc'[t] # "locked"
    BY <1>1, <1>5, <1>6 DEF Basic, GrantInv, LockFacts
  <2>. QED  BY <2>1 DEF LockFacts
<1>9. JobFacts'
  <2>1. \A t \in Actors : Knows(t)'
    BY <1>6 DEF Knows, MayKnow
  <2>. QED  BY <1>3, <2>1 DEF JobFacts
<1>10. MergedAsJudged' /\ SpentOnMerge' /\ SessionsKept' /\ LinkedOnce'
  <2>1. MergedAsJudged'
    BY <1>2 DEF Basic, GrantInv, MergedAsJudged
  <2>2. SpentOnMerge'
    BY <1>2, <1>3 DEF SpentOnMerge, EntryHolds
  <2>3. SessionsKept'
    BY <1>3 DEF SessionsKept, EntryHolds
  <2>4. LinkedOnce'
    BY <1>3 DEF LinkedOnce, EntryHolds, OneLink
  <2>. QED  BY <2>1, <2>2, <2>3, <2>4
<1>11. \A j \in Keys : Promised(j)
  BY <1>3
<1>. QED  BY <1>7, <1>8, <1>9, <1>10, <1>11 DEF GrantInv

-----------------------------------------------------------------------------
(***************************************************************************)
(* The steps that leave the file alone.                                    *)
(***************************************************************************)
LEMMA QuietKeeps ==
  ASSUME Basic, NEW s \in Actors, UNCHANGED files, NEW to \in ActorSteps, NEW x \in Jobs,
         pc' = [pc EXCEPT ![s] = to], job' = [job EXCEPT ![s] = x],
         MayKnow(s, to, x, merged', judged'),
         copy' \in [Actors -> [Keys -> Entries]],
         \A t \in Actors \ {s} : copy'[t] = copy[t],
         to = "locked" => LockFree /\ copy'[s] = grants,
         ops' \in 0..MaxOps, head' \in [Prs -> Heads], merged' \in [Prs -> 0..MaxHeads],
         \A p \in Prs : merged[p] # 0 => merged'[p] # 0,
         judged \subseteq judged', judged' \subseteq Prs \X Heads, auto' \subseteq judged'
  PROVE  TypeOK' /\ GrantInv'
<1>1. /\ pc' \in [Actors -> ActorSteps] /\ job' \in [Actors -> Jobs]
      /\ pc'[s] = to /\ \A t \in Actors \ {s} : pc'[t] = pc[t]
      /\ \A t \in Actors : MayKnow(t, pc'[t], job'[t], merged', judged')
  BY MoveKeeps
<1>2. grants' = grants /\ age' = age /\ mints' = mints /\ typed' = typed /\ archive' = archive
  BY DEF files
<1>3. TypeOK'
  <2>1. auto' \subseteq Prs \X Heads
    OBVIOUS
  <2>. QED  BY <1>1, <1>2, <2>1 DEF Basic, TypeOK, ActorSteps
<1>4. LockFacts'
  <2>1. CASE to = "locked"
    <3>1. \A t \in Actors \ {s} : pc'[t] # "locked"
      BY <1>1, <2>1 DEF LockFree
    <3>. QED  BY <1>1, <1>2, <2>1, <3>1 DEF LockFacts
  <2>2. CASE to # "locked"
    <3>1. \A t \in Actors : pc'[t] = "locked" => t # s /\ pc[t] = "locked" /\ copy'[t] = copy[t]
      BY <1>1, <2>2
    <3>. QED  BY <1>2, <3>1 DEF LockFacts, Basic, GrantInv
  <2>. QED  BY <2>1, <2>2
<1>5. JobFacts'
  <2>1. \A t \in Actors : Knows(t)'
    BY <1>1 DEF Knows, MayKnow
  <2>2. \A k \in Keys : grants'[k].mint <= mints'
    BY <1>2 DEF Basic, GrantInv, JobFacts
  <2>. QED  BY <2>1, <2>2 DEF JobFacts
<1>6. SpentOnMerge'
  <2>. SUFFICES ASSUME NEW k \in Keys, NEW n \in Places(grants[k]), grants[k].slots[n].is = "spent"
                PROVE  merged'[grants[k].slots[n].by.pr] # 0
    BY <1>2 DEF SpentOnMerge
  <2>1. merged[grants[k].slots[n].by.pr] # 0
    BY DEF Basic, GrantInv, SpentOnMerge
  <2>2. grants[k].slots[n] \in Slots
    BY EntryParts DEF Basic, TypeOK
  <2>3. grants[k].slots[n].by.pr \in Prs
    BY <2>2 DEF Slots, Commands
  <2>. QED  BY <2>1, <2>3
<1>7. MergedAsJudged' /\ SessionsKept' /\ LinkedOnce'
  BY <1>2 DEF Basic, GrantInv, MergedAsJudged, SessionsKept, LinkedOnce
<1>. QED  BY <1>3, <1>4, <1>5, <1>6, <1>7 DEF GrantInv

\* What the other variables are before a step.
LEMMA GitHubParts ==
  ASSUME Basic
  PROVE  /\ copy \in [Actors -> [Keys -> Entries]] /\ grants \in [Keys -> Entries]
         /\ ops \in 0..MaxOps /\ MaxOps \in Nat
         /\ head \in [Prs -> Heads] /\ merged \in [Prs -> 0..MaxHeads]
         /\ judged \subseteq Prs \X Heads /\ auto \subseteq judged
<1>. QED  BY ConstantsAssumption DEF Basic, TypeOK, GrantInv, MergedAsJudged

LEMMA DecideKeeps ==
  ASSUME Basic, NEW s \in Sessions, NEW c \in Commands, Decide(s, c)
  PROVE  TypeOK' /\ GrantInv'
<1>. DEFINE x == [op |-> "merge", key |-> NoKey, cmd |-> c]
<1>1. PICK to \in {"judge", "ask"} : pc' = [pc EXCEPT ![s] = to]
  BY DEF Decide, Goes
<1>2. /\ s \in Actors /\ job' = [job EXCEPT ![s] = x] /\ c.pr # NoPr
      /\ ops < MaxOps /\ ops' = ops + 1 /\ UNCHANGED <<files, copy, github, history>>
  BY DEF Decide, Begins, Actors
<1>3. x \in Jobs /\ c.pr \in Prs
  BY <1>2 DEF Jobs, Commands
<1>4. MayKnow(s, to, x, merged', judged')
  BY <1>1, <1>3 DEF MayKnow
<1>. HIDE DEF x
<1>5. ops' \in 0..MaxOps
  BY <1>2, GitHubParts
<1>. QED
  BY <1>1, <1>2, <1>3, <1>4, <1>5, GitHubParts, QuietKeeps DEF ActorSteps, github, history

LEMMA JudgeKeeps ==
  ASSUME Basic, NEW s \in Sessions, Judge(s)
  PROVE  TypeOK' /\ GrantInv'
<1>. DEFINE c == job[s].cmd
<1>1. /\ s \in Actors /\ pc[s] = "judge"
      /\ UNCHANGED <<files, job, copy, ops, github, auto>>
      /\ \/ /\ c.pin = head[c.pr] /\ judged' = judged \cup {<<c.pr, head[c.pr]>>}
            /\ pc' = [pc EXCEPT ![s] = "allowed"]
         \/ pc' = [pc EXCEPT ![s] = "ask"] /\ judged' = judged
  BY DEF Judge, Pinned, Goes, Actors
<1>2. /\ job \in [Actors -> Jobs] /\ job[s] \in Jobs /\ MayKnow(s, "judge", job[s], merged, judged)
  BY <1>1, ProcessParts
<1>3. c.pr \in Prs /\ head[c.pr] \in Heads
  BY <1>2, GitHubParts DEF MayKnow
<1>4. /\ judged \subseteq judged' /\ judged' \subseteq Prs \X Heads /\ auto' \subseteq judged'
      /\ merged' = merged
  BY <1>1, <1>3, GitHubParts DEF github
<1>5. PICK to \in {"allowed", "ask"} :
           /\ pc' = [pc EXCEPT ![s] = to]
           /\ to = "allowed" => <<c.pr, c.pin>> \in judged'
  BY <1>1
<1>6. MayKnow(s, to, job[s], merged', judged')
  <2>1. job[s].op = "merge" /\ job[s].cmd.pr \in Prs
    BY <1>2 DEF MayKnow
  <2>. QED  BY <1>5, <2>1, Zenon DEF MayKnow
<1>7. job' = [job EXCEPT ![s] = job[s]]
  BY <1>1, <1>2
<1>8. to \in ActorSteps /\ to # "locked"
  BY DEF ActorSteps
<1>9. /\ UNCHANGED files /\ copy' = copy /\ ops' = ops /\ head' = head
      /\ pc' = [pc EXCEPT ![s] = to]
  BY <1>1, <1>5 DEF github
<1>. HIDE DEF c
<1>. QED
  BY <1>1, <1>2, <1>4, <1>6, <1>7, <1>8, <1>9, GitHubParts, QuietKeeps

LEMMA AnswerKeeps ==
  ASSUME Basic, NEW s \in Sessions, Answer(s)
  PROVE  TypeOK' /\ GrantInv'
<1>1. /\ s \in Actors /\ pc[s] = "ask" /\ UNCHANGED <<files, copy, ops, github, history>>
      /\ job \in [Actors -> Jobs] /\ job[s] \in Jobs /\ MayKnow(s, "ask", job[s], merged, judged)
  BY ProcessParts DEF Answer, Actors
<1>2. CASE pc' = [pc EXCEPT ![s] = "approved"] /\ job' = job
  <2>1. MayKnow(s, "approved", job[s], merged', judged') /\ job' = [job EXCEPT ![s] = job[s]]
    BY <1>1, <1>2 DEF MayKnow, github, history
  <2>. QED
    BY <1>1, <1>2, <2>1, GitHubParts, QuietKeeps DEF ActorSteps, github, history
<1>3. CASE Rest(s)
  <2>1. /\ pc' = [pc EXCEPT ![s] = "idle"] /\ job' = [job EXCEPT ![s] = Idle]
        /\ Idle \in Jobs /\ MayKnow(s, "idle", Idle, merged', judged')
    BY <1>1, <1>3, IdleJob DEF Rest, Goes
  <2>. QED
    BY <1>1, <2>1, GitHubParts, QuietKeeps DEF ActorSteps, github, history
<1>. QED  BY <1>2, <1>3 DEF Answer, Goes

\* What merges without a prompt is pinned to a head a gate judged: a pin that is a head is
\* not 0, and the merge lands on it alone.
LEMMA MergeKeeps ==
  ASSUME Basic, NEW s \in Sessions, Merge(s)
  PROVE  TypeOK' /\ GrantInv'
<1>. DEFINE c == job[s].cmd
<1>1. /\ s \in Actors /\ pc[s] \in {"allowed", "approved"} /\ c.pin \in {0, head[c.pr]}
      /\ merged' = [merged EXCEPT ![c.pr] = head[c.pr]]
      /\ auto' = IF pc[s] = "allowed" THEN auto \cup {<<c.pr, head[c.pr]>>} ELSE auto
      /\ pc' = [pc EXCEPT ![s] = "ran"]
      /\ UNCHANGED <<files, job, copy, ops, head, judged>>
  BY DEF Merge, Goes, Actors
<1>2. job \in [Actors -> Jobs] /\ job[s] \in Jobs /\ MayKnow(s, pc[s], job[s], merged, judged)
  BY <1>1, ProcessParts
<1>3. c.pr \in Prs /\ job[s].op = "merge"
  BY <1>1, <1>2 DEF MayKnow
<1>4. /\ head[c.pr] \in Heads /\ merged \in [Prs -> 0..MaxHeads] /\ judged \subseteq Prs \X Heads
      /\ MaxHeads \in Nat
  BY <1>3, GitHubParts, ConstantsAssumption
<1>5. /\ head[c.pr] \in 0..MaxHeads /\ head[c.pr] # 0
      /\ merged' \in [Prs -> 0..MaxHeads] /\ \A p \in Prs : merged[p] # 0 => merged'[p] # 0
  <2>1. head[c.pr] \in 0..MaxHeads /\ head[c.pr] # 0
    BY <1>4 DEF Heads
  <2>2. merged' = [p \in Prs |-> IF p = c.pr THEN head[c.pr] ELSE merged[p]]
    BY <1>1, <1>4
  <2>. QED  BY <1>4, <2>1, <2>2
<1>6. auto' \subseteq judged'
  <2>1. pc[s] = "allowed" => <<c.pr, head[c.pr]>> \in judged
    <3>1. SUFFICES ASSUME pc[s] = "allowed"  PROVE <<c.pr, head[c.pr]>> \in judged
      OBVIOUS
    <3>2. <<c.pr, c.pin>> \in judged
      BY <1>2, <3>1 DEF MayKnow
    <3>3. c.pin \in Heads
      BY <1>4, <3>2
    <3>4. c.pin = head[c.pr]
      BY <1>1, <1>4, <3>3 DEF Heads
    <3>. QED  BY <3>2, <3>4
  <2>. QED  BY <1>1, <2>1, GitHubParts
<1>7. MayKnow(s, "ran", job[s], merged', judged') /\ job' = [job EXCEPT ![s] = job[s]]
  BY <1>1, <1>2, <1>3 DEF MayKnow
<1>. QED
  BY <1>1, <1>2, <1>5, <1>6, <1>7, GitHubParts, QuietKeeps DEF ActorSteps

LEMMA MergeFailsKeeps ==
  ASSUME Basic, NEW s \in Sessions, MergeFails(s)
  PROVE  TypeOK' /\ GrantInv'
<1>1. /\ s \in Actors /\ pc[s] \in {"allowed", "approved"} /\ pc' = [pc EXCEPT ![s] = "ran"]
      /\ UNCHANGED <<files, job, copy, ops, github, history>>
  BY DEF MergeFails, Goes, Actors
<1>2. job \in [Actors -> Jobs] /\ job[s] \in Jobs /\ MayKnow(s, pc[s], job[s], merged, judged)
  BY <1>1, ProcessParts
<1>3. MayKnow(s, "ran", job[s], merged', judged') /\ job' = [job EXCEPT ![s] = job[s]]
  BY <1>1, <1>2 DEF MayKnow, github, history
<1>. QED
  BY <1>1, <1>2, <1>3, GitHubParts, QuietKeeps DEF ActorSteps, github, history

LEMMA MatchKeeps ==
  ASSUME Basic, NEW s \in Sessions, Match(s)
  PROVE  TypeOK' /\ GrantInv'
<1>1. s \in Actors /\ pc[s] = "ran" /\ UNCHANGED <<files, copy, ops, github, history>>
  BY DEF Match, Actors
<1>2. /\ job \in [Actors -> Jobs] /\ job[s] \in Jobs /\ MayKnow(s, "ran", job[s], merged, judged)
  BY <1>1, ProcessParts
<1>3. job[s].cmd.pr \in Prs /\ job[s].op = "merge"
  BY <1>2 DEF MayKnow
<1>4. CASE Wants(s, "prune", NoKey)
  <2>. DEFINE x == [op |-> "prune", key |-> NoKey, cmd |-> job[s].cmd]
  <2>1. /\ pc' = [pc EXCEPT ![s] = "want"] /\ job' = [job EXCEPT ![s] = x]
        /\ x \in Jobs /\ MayKnow(s, "want", x, merged', judged')
    BY <1>1, <1>4, WantsMoves, PruneJob
  <2>. HIDE DEF x
  <2>. QED
    BY <1>1, <2>1, GitHubParts, QuietKeeps DEF ActorSteps, github, history
<1>5. CASE \E m \in Matches(grants, job[s].cmd.pr) :
             Goes(s, "confirm") /\ job' = [job EXCEPT ![s].key = m[1]]
  <2>1. PICK m \in Matches(grants, job[s].cmd.pr) :
             Goes(s, "confirm") /\ job' = [job EXCEPT ![s].key = m[1]]
    BY <1>5
  <2>2. m[1] \in Keys
    BY <1>3, MatchesAreKeys
  <2>. DEFINE x == [op |-> job[s].op, key |-> m[1], cmd |-> job[s].cmd]
  <2>3. [job[s] EXCEPT !.key = m[1]] = x
    BY <1>2, JobWith
  <2>4. x \in Jobs /\ MayKnow(s, "confirm", x, merged', judged')
    BY <1>2, <1>3, <2>2 DEF Jobs, MayKnow
  <2>. HIDE DEF x
  <2>5. pc' = [pc EXCEPT ![s] = "confirm"] /\ job' = [job EXCEPT ![s] = x]
    BY <1>2, <2>1, <2>3 DEF Goes
  <2>. QED
    BY <1>1, <2>4, <2>5, GitHubParts, QuietKeeps DEF ActorSteps, github, history
<1>. QED  BY <1>4, <1>5 DEF Match

LEMMA ConfirmKeeps ==
  ASSUME Basic, NEW s \in Sessions, Confirm(s)
  PROVE  TypeOK' /\ GrantInv'
<1>1. s \in Actors /\ pc[s] = "confirm" /\ UNCHANGED <<files, copy, ops, github, history>>
  BY DEF Confirm, Actors
<1>2. job[s] \in Jobs /\ MayKnow(s, "confirm", job[s], merged, judged)
  BY <1>1, ProcessParts
<1>3. CASE Wants(s, "prune", NoKey)
  <2>. DEFINE x == [op |-> "prune", key |-> NoKey, cmd |-> job[s].cmd]
  <2>1. /\ pc' = [pc EXCEPT ![s] = "want"] /\ job' = [job EXCEPT ![s] = x]
        /\ x \in Jobs /\ MayKnow(s, "want", x, merged', judged')
    BY <1>1, <1>3, WantsMoves, PruneJob
  <2>. HIDE DEF x
  <2>. QED
    BY <1>1, <2>1, GitHubParts, QuietKeeps DEF ActorSteps, github, history
<1>4. CASE Landed(job[s].cmd.pr) /\ Wants(s, "consume", job[s].key)
  <2>. DEFINE x == [op |-> "consume", key |-> job[s].key, cmd |-> job[s].cmd]
  <2>1. x \in Jobs
    BY <1>2 DEF Jobs
  <2>2. MayKnow(s, "want", x, merged', judged')
    BY <1>1, <1>2, <1>4 DEF MayKnow, Landed, github
  <2>3. pc' = [pc EXCEPT ![s] = "want"] /\ job' = [job EXCEPT ![s] = x]
    BY <1>1, <1>4, WantsMoves
  <2>. HIDE DEF x
  <2>. QED
    BY <1>1, <2>1, <2>2, <2>3, GitHubParts, QuietKeeps DEF ActorSteps, github, history
<1>. QED  BY <1>3, <1>4 DEF Confirm

LEMMA AskKeeps ==
  ASSUME Basic, NEW s \in Actors, NEW k \in Keys,
         NEW op \in {"batch", "topup", "authorize", "revoke"}, op = "batch" => s \in Sessions,
         Ask(s, op, k)
  PROVE  TypeOK' /\ GrantInv'
<1>. DEFINE x == [op |-> op, key |-> k, cmd |-> job[s].cmd]
<1>1. /\ ops < MaxOps /\ ops' = ops + 1 /\ UNCHANGED <<files, copy, github, history>>
      /\ Wants(s, op, k)
  BY DEF Ask, Begins
<1>2. pc' = [pc EXCEPT ![s] = "want"] /\ job' = [job EXCEPT ![s] = x]
  BY <1>1, WantsMoves
<1>3. x \in Jobs /\ MayKnow(s, "want", x, merged', judged')
  BY ProcessParts DEF Jobs, MayKnow
<1>. HIDE DEF x
<1>4. ops' \in 0..MaxOps
  BY <1>1, GitHubParts
<1>. QED
  BY <1>1, <1>2, <1>3, <1>4, GitHubParts, QuietKeeps DEF ActorSteps, github, history

LEMMA AskLinkKeeps ==
  ASSUME Basic, NEW s \in Actors, NEW k \in Keys, NEW p \in Prs, AskLink(s, k, p)
  PROVE  TypeOK' /\ GrantInv'
<1>. DEFINE c == [NoCommand EXCEPT !.pr = p]
            x == [op |-> "link", key |-> k, cmd |-> c]
<1>1. /\ ops < MaxOps /\ ops' = ops + 1 /\ UNCHANGED <<files, copy, github, history>>
      /\ pc' = [pc EXCEPT ![s] = "want"] /\ job' = [job EXCEPT ![s] = x]
  BY DEF AskLink, Begins, Goes
<1>2. c \in Commands /\ c.pr = p
  BY ConstantsAssumption DEF NoCommand, Commands
<1>. HIDE DEF c
<1>3. x \in Jobs /\ MayKnow(s, "want", x, merged', judged')
  BY <1>2 DEF Jobs, MayKnow
<1>. HIDE DEF x
<1>4. ops' \in 0..MaxOps
  BY <1>1, GitHubParts
<1>. QED
  BY <1>1, <1>3, <1>4, GitHubParts, QuietKeeps DEF ActorSteps, github, history

LEMMA LockKeeps ==
  ASSUME Basic, NEW s \in Actors, Lock(s)
  PROVE  TypeOK' /\ GrantInv'
<1>1. /\ pc[s] = "want" /\ LockFree /\ pc' = [pc EXCEPT ![s] = "locked"]
      /\ copy' = [copy EXCEPT ![s] = grants]
      /\ UNCHANGED <<files, job, ops, github, history>>
  BY DEF Lock, Goes
<1>2. job \in [Actors -> Jobs] /\ job[s] \in Jobs /\ MayKnow(s, "want", job[s], merged, judged)
  BY <1>1, ProcessParts
<1>3. MayKnow(s, "locked", job[s], merged', judged') /\ job' = [job EXCEPT ![s] = job[s]]
  BY <1>1, <1>2 DEF MayKnow, github, history
<1>4. /\ copy' \in [Actors -> [Keys -> Entries]] /\ copy'[s] = grants
      /\ \A t \in Actors \ {s} : copy'[t] = copy[t]
  BY <1>1, GitHubParts
<1>. QED
  BY <1>1, <1>2, <1>3, <1>4, GitHubParts, QuietKeeps DEF ActorSteps, github, history

LEMMA GiveUpKeeps ==
  ASSUME Basic, NEW s \in Actors, GiveUp(s)
  PROVE  TypeOK' /\ GrantInv'
<1>1. Done(s) /\ UNCHANGED <<files, copy, ops, github, history>>
  BY DEF GiveUp
<1>2. PICK to \in {"want", "idle"}, x \in Jobs :
        /\ pc' = [pc EXCEPT ![s] = to] /\ job' = [job EXCEPT ![s] = x]
        /\ MayKnow(s, to, x, merged', judged')
  BY <1>1, DoneMoves
<1>. QED
  BY <1>1, <1>2, GitHubParts, QuietKeeps DEF ActorSteps, github, history

LEMMA KillKeeps ==
  ASSUME Basic, NEW s \in Actors, Kill(s)
  PROVE  TypeOK' /\ GrantInv'
<1>1. /\ pc' = [pc EXCEPT ![s] = "idle"] /\ job' = [job EXCEPT ![s] = Idle]
      /\ copy' = [copy EXCEPT ![s] = Unread] /\ UNCHANGED <<files, ops, github, history>>
  BY DEF Kill, Rest, Goes
<1>2. Idle \in Jobs /\ MayKnow(s, "idle", Idle, merged', judged')
  BY IdleJob
<1>3. /\ copy' \in [Actors -> [Keys -> Entries]]
      /\ \A t \in Actors \ {s} : copy'[t] = copy[t]
  BY <1>1, GitHubParts, AbsentEntry DEF Unread
<1>. QED
  BY <1>1, <1>2, <1>3, GitHubParts, QuietKeeps DEF ActorSteps, github, history

LEMMA ExpireKeeps ==
  ASSUME Basic, NEW k \in Keys, Expire(k)
  PROVE  TypeOK' /\ GrantInv'
<1>1. UNCHANGED <<grants, mints, typed, archive, process, github, history>>
  BY DEF Expire
<1>2. age' \in [Keys -> Ages]
  BY DEF Expire, Basic, TypeOK, Ages
<1>3. TypeOK'
  BY <1>1, <1>2 DEF Basic, TypeOK, process, github, history
<1>4. LockFacts' /\ JobFacts'
  BY <1>1 DEF Basic, GrantInv, LockFacts, JobFacts, Knows, process, github, history
<1>5. MergedAsJudged' /\ SpentOnMerge' /\ SessionsKept' /\ LinkedOnce'
  BY <1>1 DEF Basic, GrantInv, MergedAsJudged, SpentOnMerge, SessionsKept, LinkedOnce,
              github, history
<1>. QED  BY <1>3, <1>4, <1>5 DEF GrantInv

LEMMA PushKeeps ==
  ASSUME Basic, NEW p \in Prs, Push(p)
  PROVE  TypeOK' /\ GrantInv'
<1>1. UNCHANGED <<files, process, merged, history>>
  BY DEF Push
<1>2. head' \in [Prs -> Heads]
  <2>1. head[p] + 1 \in Heads /\ head \in [Prs -> Heads]
    BY ConstantsAssumption, GitHubParts DEF Push, Heads
  <2>. QED  BY <2>1 DEF Push
<1>3. TypeOK'
  BY <1>1, <1>2 DEF Basic, TypeOK, files, process, history
<1>4. LockFacts' /\ JobFacts'
  BY <1>1 DEF Basic, GrantInv, LockFacts, JobFacts, Knows, files, process, history
<1>5. MergedAsJudged' /\ SpentOnMerge' /\ SessionsKept' /\ LinkedOnce'
  BY <1>1 DEF Basic, GrantInv, MergedAsJudged, SpentOnMerge, SessionsKept, LinkedOnce,
              files, history
<1>. QED  BY <1>3, <1>4, <1>5 DEF GrantInv

-----------------------------------------------------------------------------
(***************************************************************************)
(* The theorems.                                                           *)
(***************************************************************************)
LEMMA InitHolds == Init => Basic
<1>. SUFFICES ASSUME Init  PROVE TypeOK /\ GrantInv
  BY DEF Basic
<1>1. Unread \in [Keys -> Entries] /\ \A k \in Keys : Unread[k] = Absent
  BY AbsentEntry DEF Unread
<1>2. Idle \in Jobs /\ \A s \in Actors : MayKnow(s, "idle", Idle, merged, judged)
  BY ConstantsAssumption DEF Idle, Jobs, NoCommand, Commands, MayKnow
<1>3. TypeOK
  BY <1>1, <1>2, ConstantsAssumption DEF Init, TypeOK, Ages, Heads
<1>4. LockFacts /\ \A s \in Actors : Knows(s)
  <2>1. \A s \in Actors : pc[s] = "idle" /\ job[s] = Idle
    BY DEF Init
  <2>. QED  BY <1>2, <2>1 DEF LockFacts, Knows, MayKnow
<1>5. \A k \in Keys : grants[k] = Absent
  BY <1>1 DEF Init
<1>6. MergedAsJudged /\ SpentOnMerge /\ SessionsKept /\ LinkedOnce
  BY <1>5, AbsentEntry DEF Init, MergedAsJudged, SpentOnMerge, SessionsKept, LinkedOnce, Free
<1>7. JobFacts
  BY <1>4, <1>5, AbsentEntry DEF Init, JobFacts
<1>. QED  BY <1>3, <1>4, <1>6, <1>7 DEF GrantInv

\* A step that leaves the file alone breaks no promise.
LEMMA SameFile ==
  ASSUME grants' = grants
  PROVE  \A j \in Keys : Promised(j)
<1>. QED  BY DEF Promised, Stands

LEMMA StepHolds ==
  ASSUME Basic, [Next]_vars
  PROVE  TypeOK' /\ GrantInv' /\ \A j \in Keys : Promised(j)
<1>1. ASSUME NEW s \in Sessions, NEW c \in Commands, Decide(s, c)
      PROVE  TypeOK' /\ GrantInv' /\ \A j \in Keys : Promised(j)
  <2>1. grants' = grants
    BY <1>1 DEF Decide, files
  <2>. QED  BY <1>1, <2>1, DecideKeeps, SameFile
<1>2. ASSUME NEW s \in Sessions,
             \/ Judge(s) \/ Answer(s) \/ Merge(s) \/ MergeFails(s) \/ Match(s) \/ Confirm(s)
      PROVE  TypeOK' /\ GrantInv' /\ \A j \in Keys : Promised(j)
  <2>1. grants' = grants
    BY <1>2 DEF Judge, Answer, Merge, MergeFails, Match, Confirm, files
  <2>2. TypeOK' /\ GrantInv'
    BY <1>2, JudgeKeeps, AnswerKeeps, MergeKeeps, MergeFailsKeeps, MatchKeeps, ConfirmKeeps
  <2>. QED  BY <2>1, <2>2, SameFile
<1>3. ASSUME NEW s \in Actors, NEW k \in Keys,
             NEW op \in {"batch", "topup", "authorize", "revoke"}, op = "batch" => s \in Sessions,
             Ask(s, op, k)
      PROVE  TypeOK' /\ GrantInv' /\ \A j \in Keys : Promised(j)
  <2>1. grants' = grants
    BY <1>3 DEF Ask, files
  <2>. QED  BY <1>3, <2>1, AskKeeps, SameFile
<1>4. ASSUME NEW s \in Actors, NEW k \in Keys, NEW p \in Prs, AskLink(s, k, p)
      PROVE  TypeOK' /\ GrantInv' /\ \A j \in Keys : Promised(j)
  <2>1. grants' = grants
    BY <1>4 DEF AskLink, files
  <2>. QED  BY <1>4, <2>1, AskLinkKeeps, SameFile
<1>5. ASSUME NEW a \in Actors, Lock(a) \/ GiveUp(a) \/ Kill(a)
      PROVE  TypeOK' /\ GrantInv' /\ \A j \in Keys : Promised(j)
  <2>1. grants' = grants
    BY <1>5 DEF Lock, GiveUp, Kill, files
  <2>2. TypeOK' /\ GrantInv'
    BY <1>5, LockKeeps, GiveUpKeeps, KillKeeps
  <2>. QED  BY <2>1, <2>2, SameFile
<1>6. ASSUME NEW a \in Actors, Mint(a) \/ Extend(a) \/ Change(a) \/ Prune(a)
      PROVE  TypeOK' /\ GrantInv' /\ \A j \in Keys : Promised(j)
  <2>1. Writes(a)
    BY <1>6, MintWrites, ExtendWrites, ChangeWrites, PruneWrites
  <2>. QED  BY <2>1, WriterKeeps
<1>7. ASSUME NEW k \in Keys, Expire(k)
      PROVE  TypeOK' /\ GrantInv' /\ \A j \in Keys : Promised(j)
  <2>1. grants' = grants
    BY <1>7 DEF Expire
  <2>. QED  BY <1>7, <2>1, ExpireKeeps, SameFile
<1>8. ASSUME NEW p \in Prs, Push(p)
      PROVE  TypeOK' /\ GrantInv' /\ \A j \in Keys : Promised(j)
  <2>1. grants' = grants
    BY <1>8 DEF Push, files
  <2>. QED  BY <1>8, <2>1, PushKeeps, SameFile
<1>9. CASE UNCHANGED vars
  <2>. USE <1>9 DEF vars, files, github, history, process
  <2>1. TypeOK'
    BY DEF Basic, TypeOK
  <2>2. LockFacts' /\ JobFacts'
    BY DEF Basic, GrantInv, LockFacts, JobFacts, Knows
  <2>3. MergedAsJudged' /\ SpentOnMerge' /\ SessionsKept' /\ LinkedOnce'
    BY DEF Basic, GrantInv, MergedAsJudged, SpentOnMerge, SessionsKept, LinkedOnce
  <2>. QED  BY <2>1, <2>2, <2>3, SameFile DEF GrantInv
<1>. QED
  <2>1. Sessions \subseteq Actors /\ Terminals \subseteq Actors
    BY DEF Actors
  <2>2. CASE \E s \in Sessions :
               \/ \E c \in Commands : Decide(s, c)
               \/ Judge(s) \/ Answer(s) \/ Merge(s) \/ MergeFails(s) \/ Match(s) \/ Confirm(s)
               \/ \E k \in Keys : Ask(s, "batch", k)
    BY <1>1, <1>2, <1>3, <2>1, <2>2
  <2>3. CASE \E t \in Terminals, k \in Keys :
               \/ \E op \in {"topup", "authorize", "revoke"} : Ask(t, op, k)
               \/ \E p \in Prs : AskLink(t, k, p)
    BY <1>3, <1>4, <2>1, <2>3
  <2>4. CASE \E a \in Actors :
               Lock(a) \/ GiveUp(a) \/ Mint(a) \/ Extend(a) \/ Change(a) \/ Prune(a) \/ Kill(a)
    BY <1>5, <1>6, <2>4
  <2>5. CASE (\E k \in Keys : Expire(k)) \/ \E p \in Prs : Push(p)
    BY <1>7, <1>8, <2>5
  <2>. QED  BY <1>9, <2>2, <2>3, <2>4, <2>5 DEF Next

\* The inductive invariant: types, one holder of the lock whose copy is the file, what each
\* process between two steps still knows, and the four properties.
THEOREM InvariantHolds == Spec => []Basic
<1>1. Init => Basic
  BY InitHolds
<1>2. Basic /\ [Next]_vars => Basic'
  BY StepHolds DEF Basic
<1>. QED  BY <1>1, <1>2, PTL DEF Spec

\* Every variable keeps its type: the file never holds half an entry, and no process a
\* job it cannot have.
THEOREM TypeCorrect == Spec => []TypeOK
<1>1. Basic => TypeOK
  BY DEF Basic
<1>. QED  BY <1>1, InvariantHolds, PTL

\* Whatever is pushed between the gate's read of CI and the merge, what merged without a
\* prompt is a head the gate judged green.
THEOREM JudgedHeads == Spec => []MergedAsJudged
<1>1. Basic => MergedAsJudged
  BY DEF Basic, GrantInv
<1>. QED  BY <1>1, InvariantHolds, PTL

\* The hook spends a target only by a command whose pull request is merged.
THEOREM SpentTargetsMerged == Spec => []SpentOnMerge
<1>1. Basic => SpentOnMerge
  BY DEF Basic, GrantInv
<1>. QED  BY <1>1, InvariantHolds, PTL

\* Two sessions that name the same issue at once both end up on its grant.
THEOREM NoSessionDropped == Spec => []SessionsKept
<1>1. Basic => SessionsKept
  BY DEF Basic, GrantInv
<1>. QED  BY <1>1, InvariantHolds, PTL

\* A pull request with a free target of a key has no other target of that key.
THEOREM OneTargetPerLink == Spec => []LinkedOnce
<1>1. Basic => LinkedOnce
  BY DEF Basic, GrantInv
<1>. QED  BY <1>1, InvariantHolds, PTL

\* No step, of any process, loses what another wrote of a grant: a target is never freed,
\* unlinked or dropped, and a grant goes only stale and archived.
THEOREM NoWriteLost == Spec => GrantsStand
<1>1. Basic /\ [Next]_vars =>
        [\A k \in Keys :
           LET e == grants[k]  f == grants'[k]
           IN  \/ ~Present(e)
               \/ f.mint > e.mint
               \/ /\ ~Present(f)
                  /\ age[k] = "stale" /\ <<k, e.mint>> \in archive'
               \/ /\ f.mint = e.mint
                  /\ \A n \in Places(e) :
                       /\ n \in Places(f)
                       /\ e.slots[n].is # "free" => f.slots[n].is = e.slots[n].is
                       /\ e.slots[n].pr # NoPr => f.slots[n].pr = e.slots[n].pr]_vars
  BY StepHolds, Zenon DEF Promised, Stands
<1>. QED  BY <1>1, InvariantHolds, PTL DEF Spec, GrantsStand
=============================================================================
