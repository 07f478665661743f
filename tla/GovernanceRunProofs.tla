------------------------ MODULE GovernanceRunProofs ------------------------
(***************************************************************************)
(* GovernanceRun for every policy, every set of failures and any number of *)
(* them and of human retries: its types, that recovery always has an error *)
(* to work on, that the only error of a node is retried as often as its    *)
(* policy allows, and that a run leaves finalize_run_tasks with settled    *)
(* tasks.                                                                  *)
(***************************************************************************)
EXTENDS GovernanceRun, FiniteSetTheorems, NaturalsInduction, WellFoundedInduction, TLAPS

(***************************************************************************)
(* The error channel.                                                      *)
(***************************************************************************)
Degradation == Fallback \cup {NoFallback}

\* What an error is about: a failure, or a task update that was refused.
Problem == Failure \cup {Refusal(t, s) : t \in Tasks, s \in TaskStatus}

Entry == [failure : Problem, status : ErrorStatus, fatal : BOOLEAN, retries : Nat, max : Nat,
          fallback : Degradation, auto : Nat]

Sound(e) == e \in Entry /\ (e.fatal => e.status \notin Settled)

Has(errs, f) == \E i \in DOMAIN errs : errs[i].failure = f

\* Another error of the same node and task: its count is the one that f, when it
\* is recorded, goes on with.
HasSibling(errs, f) ==
    \E i \in DOMAIN errs : /\ errs[i].failure # f
                           /\ errs[i].failure.node = f.node
                           /\ errs[i].failure.task = f.task

\* The stored count covers the automatic retries, and those keep to the policy.
Within(e) == e.auto <= e.retries /\ e.auto <= Policies[e.failure.category].max

Bounded(errs, e) == e.failure.raised \/ HasSibling(errs, e.failure) \/ Within(e)

ErrorsFit(errs) ==
    /\ errs \in Seq(Entry)
    /\ \A i, j \in DOMAIN errs : errs[i].failure = errs[j].failure => i = j
    /\ \A i \in DOMAIN errs : Sound(errs[i]) /\ Bounded(errs, errs[i])

\* No error disappears.
Grows(errs, more) == \A i \in DOMAIN errs : Has(more, errs[i].failure)

\* An error that a router may stop for.
IsOpen(errs, f) == \E i \in DOMAIN errs : errs[i].failure = f /\ Unresolved(errs[i])

HasUnsettled(errs) == \E i \in DOMAIN errs : errs[i].status \notin Settled

(***************************************************************************)
(* Induction over the natural numbers for a set, and the largest element   *)
(* of a set of positions.                                                  *)
(***************************************************************************)
LEMMA SetInduction ==
    ASSUME NEW S, 0 \in S, \A n \in Nat : n \in S => n + 1 \in S
    PROVE  \A n \in Nat : n \in S
<1>. DEFINE R == OpToRel(<, Nat)
            T == Nat \ S
<1>. SUFFICES ASSUME T # {} PROVE FALSE
  OBVIOUS
<1>1. PICK x \in T : \A y \in T : ~(<<y, x>> \in R)
  BY NatLessThanWellFounded, WFMin
<1>2. x # 0 /\ x \in Nat /\ x - 1 \in Nat
  OBVIOUS
<1>3. <<x - 1, x>> \in R
  BY <1>2 DEF OpToRel
<1>4. x - 1 \in S
  <2>. HIDE DEF R
  <2>. QED  BY <1>1, <1>2, <1>3
<1>5. x \in S
  BY <1>2, <1>4
<1>. QED  BY <1>5

LEMMA LastExists ==
    ASSUME NEW n \in Nat, NEW S \in SUBSET (1..n), S # {}
    PROVE  \E i \in S : \A j \in S : j <= i
<1>. DEFINE P == {m \in Nat : \A T \in SUBSET (1..m) : T # {} => \E i \in T : \A j \in T : j <= i}
<1>1. 0 \in P
  <2>1. \A T \in SUBSET (1..0) : T = {}
    OBVIOUS
  <2>. QED  BY <2>1
<1>2. ASSUME NEW m \in Nat, m \in P PROVE m + 1 \in P
  <2>. SUFFICES ASSUME NEW T \in SUBSET (1..(m + 1)), T # {}
                PROVE  \E i \in T : \A j \in T : j <= i
    BY <1>2
  <2>1. CASE m + 1 \in T
    <3>1. \A j \in T : j <= m + 1
      OBVIOUS
    <3>. QED  BY <2>1, <3>1
  <2>2. CASE m + 1 \notin T
    <3>1. T \in SUBSET (1..m)
      BY <2>2
    <3>. QED  BY <1>2, <3>1
  <2>. QED  BY <2>1, <2>2
<1>3. \A m \in Nat : m \in P
  <2>. HIDE DEF P
  <2>. QED  BY <1>1, <1>2, SetInduction
<1>. QED  BY <1>3

(***************************************************************************)
(* The reducer and the records that go through it.                         *)
(***************************************************************************)
LEMMA ProblemShape ==
    ASSUME NEW f \in Problem
    PROVE  f # NoFailure /\ f.category \in Category /\ f.task \in Tasks \cup {NoTask}
<1>1. /\ "category" \in DOMAIN f
      /\ f.category \in Category /\ f.task \in Tasks \cup {NoTask}
  <2>1. CASE f \in Failure
    BY <2>1 DEF Failure
  <2>2. CASE f \in {Refusal(t, s) : t \in Tasks, s \in TaskStatus}
    <3>1. PICK t \in Tasks, s \in TaskStatus : f = Refusal(t, s)
      BY <2>2
    <3>. QED  BY <3>1 DEF Refusal, Category
  <2>. QED  BY <2>1, <2>2 DEF Problem
<1>2. DOMAIN NoFailure = {"at"}
  BY DEF NoFailure
<1>. QED  BY <1>1, <1>2

LEMMA RuleType == \A c \in Category : Policies[c] \in Rule
  BY PoliciesAssumption

LEMMA EntryFound ==
    ASSUME NEW errs, ErrorsFit(errs), NEW f, Has(errs, f)
    PROVE  /\ Positions(errs, f) # {}
           /\ \E i \in DOMAIN errs : errs[i] = EntryOf(errs, f)
           /\ EntryOf(errs, f).failure = f
           /\ Sound(EntryOf(errs, f))
           /\ Bounded(errs, EntryOf(errs, f))
<1>1. PICK i \in DOMAIN errs : errs[i].failure = f
  BY DEF Has
<1>2. i \in Positions(errs, f)
  BY <1>1 DEF Positions
<1>. DEFINE k == CHOOSE j \in Positions(errs, f) : TRUE
<1>3. k \in DOMAIN errs /\ errs[k].failure = f
  BY <1>2 DEF Positions
<1>4. EntryOf(errs, f) = errs[k]
  BY DEF EntryOf
<1>. QED  BY <1>2, <1>3, <1>4 DEF ErrorsFit

LEMMA MergedKeeps ==
    ASSUME NEW errs, ErrorsFit(errs), NEW e, Sound(e), Bounded(errs, e)
    PROVE  /\ ErrorsFit(Merged(errs, e))
           /\ Grows(errs, Merged(errs, e))
           /\ \E i \in DOMAIN Merged(errs, e) : Merged(errs, e)[i] = e
           /\ \A i \in DOMAIN errs : errs[i].failure # e.failure =>
                  \E j \in DOMAIN Merged(errs, e) : Merged(errs, e)[j] = errs[i]
<1>. DEFINE new == Merged(errs, e)
            n   == Len(errs)
<1>0. errs \in Seq(Entry) /\ n \in Nat /\ DOMAIN errs = 1..n /\ e \in Entry
  BY DEF ErrorsFit, Sound
<1>1. /\ new \in Seq(Entry)
      /\ \A i \in DOMAIN errs : i \in DOMAIN new
                                /\ (errs[i].failure # e.failure => new[i] = errs[i])
                                /\ (errs[i].failure = e.failure => new[i] = e)
      /\ \A i \in DOMAIN new : new[i] = e \/ (i \in DOMAIN errs /\ new[i] = errs[i]
                                                /\ errs[i].failure # e.failure)
      /\ \A i, j \in DOMAIN new : new[i].failure = e.failure /\ new[j].failure = e.failure => i = j
      /\ \E i \in DOMAIN new : new[i] = e
  <2>1. CASE Positions(errs, e.failure) = {}
    <3>1. \A i \in DOMAIN errs : errs[i].failure # e.failure
      BY <2>1 DEF Positions
    <3>2. new = Append(errs, e)
      BY <2>1 DEF Merged
    <3>3. new \in Seq(Entry) /\ Len(new) = n + 1 /\ DOMAIN new = 1..(n + 1)
      BY <1>0, <3>2
    <3>4. new[n + 1] = e /\ \A i \in 1..n : new[i] = errs[i]
      BY <1>0, <3>2
    <3>. HIDE DEF new, n
    <3>. QED  BY <1>0, <3>1, <3>3, <3>4
  <2>2. CASE Positions(errs, e.failure) # {}
    <3>1. PICK k \in DOMAIN errs : errs[k].failure = e.failure
      BY <2>2 DEF Positions
    <3>2. new = [i \in DOMAIN errs |-> IF errs[i].failure = e.failure THEN e ELSE errs[i]]
      BY <2>2 DEF Merged
    <3>3. \A i \in 1..n : (IF errs[i].failure = e.failure THEN e ELSE errs[i]) \in Entry
      BY <1>0
    <3>4. new \in [1..n -> Entry]
      BY <1>0, <3>2, <3>3
    <3>5. new \in Seq(Entry)
      BY <1>0, <3>4
    <3>6. \A i, j \in DOMAIN errs : errs[i].failure = errs[j].failure => i = j
      BY DEF ErrorsFit
    <3>. HIDE DEF new, n
    <3>. QED  BY <1>0, <3>1, <3>2, <3>4, <3>5, <3>6
  <2>. QED  BY <2>1, <2>2
<1>. HIDE DEF new, n
<1>2. Grows(errs, new)
  BY <1>1 DEF Grows, Has
<1>3. \A f : HasSibling(errs, f) => HasSibling(new, f)
  BY <1>2 DEF HasSibling, Grows, Has
<1>4. \A i \in DOMAIN errs : Sound(errs[i]) /\ Bounded(errs, errs[i])
  BY DEF ErrorsFit
<1>5. \A i \in DOMAIN new : Sound(new[i]) /\ Bounded(new, new[i])
  BY <1>1, <1>3, <1>4 DEF Bounded
<1>6. \A i, j \in DOMAIN new : new[i].failure = new[j].failure => i = j
  BY <1>1 DEF ErrorsFit
<1>7. ErrorsFit(new)
  BY <1>1, <1>5, <1>6 DEF ErrorsFit
<1>. QED  BY <1>1, <1>2, <1>7 DEF new

\* A fresh record of an error is open, and counts on from a count that covers
\* its own.
LEMMA NewEntryFits ==
    ASSUME NEW errs, ErrorsFit(errs), NEW f \in Problem, NEW count \in Nat,
           \/ f.raised
           \/ HasSibling(errs, f)
           \/ ~Has(errs, f)
           \/ EntryOf(errs, f).status \in Settled
           \/ count = EntryOf(errs, f).retries
    PROVE  LET e == NewEntry(errs, f, count)
           IN  /\ Sound(e) /\ Bounded(errs, e)
               /\ e.failure = f /\ Unresolved(e)
<1>. DEFINE e   == NewEntry(errs, f, count)
            old == EntryOf(errs, f)
            on  == Positions(errs, f) # {} /\ old.status \notin Settled
<1>1. Policies[f.category] \in Rule /\ f.category \in Category
  BY RuleType, ProblemShape
<1>2. e = [failure |-> f, status |-> "pending", fatal |-> TRUE, retries |-> count,
           max |-> Policies[f.category].max, fallback |-> Policies[f.category].fallback,
           auto |-> IF on THEN old.auto ELSE 0]
  BY DEF NewEntry
<1>3. on => /\ old.auto \in Nat
            /\ Bounded(errs, old) /\ old.failure = f
  <2>. SUFFICES ASSUME on PROVE old.auto \in Nat /\ Bounded(errs, old) /\ old.failure = f
    OBVIOUS
  <2>1. Has(errs, f)
    BY DEF Has, Positions
  <2>. HIDE DEF old
  <2>. QED  BY <2>1, EntryFound DEF Sound, Entry, old
<1>4. f.raised \/ HasSibling(errs, f) \/ (on => count = old.retries)
  BY DEF Has, Positions
<1>. HIDE DEF old, on
<1>5. e \in Entry
  BY <1>1, <1>2, <1>3 DEF Entry, ErrorStatus, Settled, Rule, Degradation
<1>6. e.status = "pending" /\ e.fatal /\ e.failure = f /\ e.auto = (IF on THEN old.auto ELSE 0)
      /\ e.retries = count
  BY <1>2
<1>. HIDE DEF e
<1>7. Sound(e) /\ Unresolved(e)
  BY <1>5, <1>6 DEF Sound, Unresolved, Settled
<1>8. Bounded(errs, e)
  <2>1. CASE on
    BY <2>1, <1>3, <1>4, <1>6 DEF Bounded, Within
  <2>2. CASE ~on
    <3>1. e.auto = 0 /\ Policies[f.category].max \in Nat
      BY <2>2, <1>1, <1>6 DEF Rule
    <3>. QED  BY <3>1, <1>6 DEF Bounded, Within
  <2>. QED  BY <2>1, <2>2
<1>. QED  BY <1>6, <1>7, <1>8 DEF e

\* What recording an error of f makes of the channel.
Records(errs, new, f) ==
    /\ ErrorsFit(new)
    /\ Grows(errs, new)
    /\ IsOpen(new, f)
    /\ \A g : IsOpen(errs, g) => IsOpen(new, g)

LEMMA MergedRecords ==
    ASSUME NEW errs, ErrorsFit(errs), NEW e, Sound(e), Bounded(errs, e), Unresolved(e)
    PROVE  Records(errs, Merged(errs, e), e.failure)
<1>. DEFINE new == Merged(errs, e)
<1>1. /\ ErrorsFit(new)
      /\ Grows(errs, new)
      /\ \E i \in DOMAIN new : new[i] = e
      /\ \A i \in DOMAIN errs : errs[i].failure # e.failure =>
             \E j \in DOMAIN new : new[j] = errs[i]
  BY MergedKeeps
<1>. HIDE DEF new
<1>2. IsOpen(new, e.failure)
  BY <1>1 DEF IsOpen
<1>3. \A g : IsOpen(errs, g) => IsOpen(new, g)
  BY <1>1, <1>2 DEF IsOpen
<1>. QED  BY <1>1, <1>2, <1>3 DEF Records, new

LEMMA CapturedRecords ==
    ASSUME NEW errs, ErrorsFit(errs), NEW f \in Problem, f.raised
    PROVE  Records(errs, Captured(errs, f), f)
<1>. DEFINE e == NewEntry(errs, f, 0)
<1>1. Sound(e) /\ Bounded(errs, e) /\ e.failure = f /\ Unresolved(e)
  BY NewEntryFits
<1>. HIDE DEF e
<1>2. Records(errs, Merged(errs, e), f)
  BY <1>1, MergedRecords
<1>. QED  BY <1>2 DEF Captured, e

LEMMA RecordedRecords ==
    ASSUME NEW errs, ErrorsFit(errs), NEW f \in Problem
    PROVE  Records(errs, Recorded(errs, f), f)
<1>. DEFINE prior == {i \in DOMAIN errs : /\ errs[i].failure.node = f.node
                                          /\ errs[i].failure.task = f.task
                                          /\ errs[i].status \notin Settled}
            last  == CHOOSE i \in prior : \A j \in prior : j <= i
            count == IF prior = {} THEN 0 ELSE errs[last].retries
            e     == NewEntry(errs, f, count)
<1>1. prior # {} => last \in prior
  <2>1. prior \in SUBSET (1..Len(errs)) /\ Len(errs) \in Nat
    BY DEF ErrorsFit
  <2>2. prior # {} => \E i \in prior : \A j \in prior : j <= i
    <3>. HIDE DEF prior
    <3>. QED  BY <2>1, LastExists
  <2>. QED  BY <2>2
<1>2. count \in Nat
  <2>1. prior # {} => last \in DOMAIN errs
    BY <1>1
  <2>2. \A i \in DOMAIN errs : errs[i].retries \in Nat
    BY DEF ErrorsFit, Sound, Entry
  <2>. HIDE DEF prior, last
  <2>. QED  BY <2>1, <2>2
<1>3. \/ HasSibling(errs, f)
      \/ ~Has(errs, f)
      \/ EntryOf(errs, f).status \in Settled
      \/ count = EntryOf(errs, f).retries
  <2>. SUFFICES ASSUME ~HasSibling(errs, f), Has(errs, f), EntryOf(errs, f).status \notin Settled
                PROVE  count = EntryOf(errs, f).retries
    OBVIOUS
  <2>1. PICK k \in DOMAIN errs : errs[k] = EntryOf(errs, f)
    BY EntryFound
  <2>2. errs[k].failure = f
    BY <2>1, EntryFound
  <2>3. k \in prior
    BY <2>1, <2>2
  <2>4. \A i \in prior : i = k
    BY <2>2 DEF HasSibling, ErrorsFit
  <2>5. last = k
    <3>. HIDE DEF prior, last
    <3>. QED  BY <1>1, <2>3, <2>4
  <2>. QED  BY <2>1, <2>3, <2>5
<1>4. Recorded(errs, f) = Merged(errs, e)
  BY DEF Recorded
<1>. HIDE DEF count
<1>5. Sound(e) /\ Bounded(errs, e) /\ e.failure = f /\ Unresolved(e)
  BY <1>2, <1>3, NewEntryFits
<1>. HIDE DEF e
<1>. QED  BY <1>4, <1>5, MergedRecords

\* The failures recorded one after the other: g[i] is the channel after i of them.
AfterRecord(errs, fs, g, i) == IF i = 0 THEN errs ELSE Recorded(g[i-1], fs[i])

RecordsUpTo(errs, fs, g, m) == g = [i \in 0..m |-> AfterRecord(errs, fs, g, i)]

LEMMA RecordsExist ==
    ASSUME NEW errs, NEW fs
    PROVE  \A n \in Nat : \E g : RecordsUpTo(errs, fs, g, n)
<1>. DEFINE P == {m \in Nat : \E g : RecordsUpTo(errs, fs, g, m)}
<1>1. 0 \in P
  <2>. DEFINE g == [i \in 0..0 |-> errs]
  <2>1. g = [i \in 0..0 |-> AfterRecord(errs, fs, g, i)]
    BY DEF AfterRecord
  <2>. HIDE DEF g
  <2>2. RecordsUpTo(errs, fs, g, 0)
    BY <2>1 DEF RecordsUpTo
  <2>. QED  BY <2>2
<1>2. ASSUME NEW m \in Nat, m \in P PROVE m + 1 \in P
  <2>1. PICK g : RecordsUpTo(errs, fs, g, m)
    BY <1>2
  <2>. DEFINE h == [i \in 0..(m + 1) |-> IF i = m + 1 THEN Recorded(g[m], fs[m + 1]) ELSE g[i]]
  <2>2. \A i \in 0..m : g[i] = AfterRecord(errs, fs, g, i)
    BY <2>1 DEF RecordsUpTo
  <2>3. \A i \in 0..m : h[i] = g[i]
    OBVIOUS
  <2>4. h[m + 1] = Recorded(h[m], fs[m + 1])
    BY <2>3
  <2>5. h = [i \in 0..(m + 1) |-> h[i]]
    OBVIOUS
  <2>. HIDE DEF h
  <2>6. \A i \in 0..(m + 1) : h[i] = AfterRecord(errs, fs, h, i)
    <3>1. ASSUME NEW i \in 0..m PROVE h[i] = AfterRecord(errs, fs, h, i)
      <4>1. CASE i = 0
        BY <4>1, <2>2, <2>3 DEF AfterRecord
      <4>2. CASE i # 0
        <5>1. i - 1 \in 0..m
          BY <4>2
        <5>. QED  BY <4>2, <5>1, <2>2, <2>3 DEF AfterRecord
      <4>. QED  BY <4>1, <4>2
    <3>2. h[m + 1] = AfterRecord(errs, fs, h, m + 1)
      BY <2>4 DEF AfterRecord
    <3>. QED  BY <3>1, <3>2
  <2>7. h = [i \in 0..(m + 1) |-> AfterRecord(errs, fs, h, i)]
    BY <2>5, <2>6
  <2>8. RecordsUpTo(errs, fs, h, m + 1)
    BY <2>7 DEF RecordsUpTo
  <2>. QED  BY <2>8
<1>3. \A m \in Nat : m \in P
  <2>. HIDE DEF P
  <2>. QED  BY <1>1, <1>2, SetInduction
<1>. QED  BY <1>3

LEMMA RecordedAllRecords ==
    ASSUME NEW errs, ErrorsFit(errs), NEW fs \in Seq(Problem)
    PROVE  /\ ErrorsFit(RecordedAll(errs, fs))
           /\ Grows(errs, RecordedAll(errs, fs))
           /\ \A i \in 1..Len(fs) : IsOpen(RecordedAll(errs, fs), fs[i])
           /\ fs = <<>> => RecordedAll(errs, fs) = errs
<1>. DEFINE n == Len(fs)
            upTo == CHOOSE g : RecordsUpTo(errs, fs, g, n)
<1>0. n \in Nat /\ \A i \in 1..n : fs[i] \in Problem
  OBVIOUS
<1>2. RecordsUpTo(errs, fs, upTo, n)
  BY <1>0, RecordsExist
<1>3. RecordedAll(errs, fs) = upTo[n]
  BY DEF RecordedAll, RecordsUpTo, AfterRecord
<1>. HIDE DEF upTo
<1>4. upTo[0] = errs /\ \A i \in 1..n : upTo[i] = Recorded(upTo[i-1], fs[i])
  <2>1. \A i \in 0..n : upTo[i] = AfterRecord(errs, fs, upTo, i)
    BY <1>2 DEF RecordsUpTo
  <2>. QED  BY <1>0, <2>1 DEF AfterRecord
<1>. DEFINE Fits(m) == /\ ErrorsFit(upTo[m])
                       /\ Grows(errs, upTo[m])
                       /\ \A i \in 1..m : IsOpen(upTo[m], fs[i])
            Q == {m \in Nat : m <= n => Fits(m)}
<1>5. 0 \in Q
  <2>1. Grows(errs, errs)
    BY DEF Grows, Has
  <2>2. \A i \in 1..0 : FALSE
    OBVIOUS
  <2>. QED  BY <1>4, <2>1, <2>2
<1>6. ASSUME NEW m \in Nat, m \in Q PROVE m + 1 \in Q
  <2>. SUFFICES ASSUME m + 1 <= n PROVE Fits(m + 1)
    OBVIOUS
  <2>1. Fits(m)
    BY <1>0, <1>6
  <2>2. upTo[m + 1] = Recorded(upTo[m], fs[m + 1]) /\ fs[m + 1] \in Problem
    <3>1. m + 1 \in 1..n /\ (m + 1) - 1 = m
      BY <1>0
    <3>. HIDE DEF n
    <3>. QED  BY <1>0, <1>4, <3>1
  <2>3. Records(upTo[m], upTo[m + 1], fs[m + 1])
    BY <2>1, <2>2, RecordedRecords
  <2>4. Grows(errs, upTo[m + 1])
    BY <2>1, <2>3 DEF Records, Grows, Has
  <2>5. \A i \in 1..(m + 1) : i \in 1..m \/ i = m + 1
    OBVIOUS
  <2>. QED  BY <2>1, <2>3, <2>4, <2>5 DEF Records
<1>7. \A m \in Nat : m \in Q
  <2>. HIDE DEF Q
  <2>. QED  BY <1>5, <1>6, SetInduction
<1>8. Fits(n)
  BY <1>0, <1>7
<1>9. fs = <<>> => n = 0
  OBVIOUS
<1>. QED  BY <1>3, <1>4, <1>8, <1>9

(***************************************************************************)
(* The pending queue stays a sequence of failures.                         *)
(***************************************************************************)
AfterKept(p, fs, g, i) ==
    IF i = 0 THEN <<>> ELSE IF p[i] \in fs THEN g[i-1] ELSE Append(g[i-1], p[i])

KeptUpTo(p, fs, g, m) == g = [i \in 0..m |-> AfterKept(p, fs, g, i)]

LEMMA KeptExists ==
    ASSUME NEW p, NEW fs
    PROVE  \A n \in Nat : \E g : KeptUpTo(p, fs, g, n)
<1>. DEFINE P == {m \in Nat : \E g : KeptUpTo(p, fs, g, m)}
            Kept(q, i) == IF p[i] \in fs THEN q ELSE Append(q, p[i])
<1>1. 0 \in P
  <2>. DEFINE g == [i \in 0..0 |-> <<>>]
  <2>1. g = [i \in 0..0 |-> AfterKept(p, fs, g, i)]
    BY DEF AfterKept
  <2>. HIDE DEF g
  <2>2. KeptUpTo(p, fs, g, 0)
    BY <2>1 DEF KeptUpTo
  <2>. QED  BY <2>2
<1>2. ASSUME NEW m \in Nat, m \in P PROVE m + 1 \in P
  <2>1. PICK g : KeptUpTo(p, fs, g, m)
    BY <1>2
  <2>. DEFINE h == [i \in 0..(m + 1) |-> IF i = m + 1 THEN Kept(g[m], m + 1) ELSE g[i]]
  <2>2. \A i \in 0..m : g[i] = AfterKept(p, fs, g, i)
    BY <2>1 DEF KeptUpTo
  <2>3. \A i \in 0..m : h[i] = g[i]
    OBVIOUS
  <2>4. h[m + 1] = Kept(h[m], m + 1)
    <3>. HIDE DEF Kept
    <3>. QED  BY <2>3
  <2>5. h = [i \in 0..(m + 1) |-> h[i]]
    OBVIOUS
  <2>. HIDE DEF h
  <2>6. \A i \in 0..(m + 1) : h[i] = AfterKept(p, fs, h, i)
    <3>1. ASSUME NEW i \in 0..m PROVE h[i] = AfterKept(p, fs, h, i)
      <4>1. CASE i = 0
        BY <4>1, <2>2, <2>3 DEF AfterKept
      <4>2. CASE i # 0
        <5>1. i - 1 \in 0..m
          BY <4>2
        <5>. QED  BY <4>2, <5>1, <2>2, <2>3 DEF AfterKept
      <4>. QED  BY <4>1, <4>2
    <3>2. h[m + 1] = AfterKept(p, fs, h, m + 1)
      BY <2>4 DEF AfterKept
    <3>. QED  BY <3>1, <3>2
  <2>7. h = [i \in 0..(m + 1) |-> AfterKept(p, fs, h, i)]
    BY <2>5, <2>6
  <2>8. KeptUpTo(p, fs, h, m + 1)
    BY <2>7 DEF KeptUpTo
  <2>. QED  BY <2>8
<1>3. \A m \in Nat : m \in P
  <2>. HIDE DEF P
  <2>. QED  BY <1>1, <1>2, SetInduction
<1>. QED  BY <1>3

LEMMA WithoutIsSeq ==
    ASSUME NEW S, NEW p \in Seq(S), NEW fs
    PROVE  Without(p, fs) \in Seq(S)
<1>. DEFINE n == Len(p)
            kept == CHOOSE g : KeptUpTo(p, fs, g, n)
<1>0. n \in Nat /\ \A i \in 1..n : p[i] \in S
  OBVIOUS
<1>1. KeptUpTo(p, fs, kept, n)
  BY <1>0, KeptExists
<1>2. Without(p, fs) = kept[n]
  BY DEF Without, KeptUpTo, AfterKept
<1>. HIDE DEF kept
<1>3. \A i \in 0..n : kept[i] = AfterKept(p, fs, kept, i)
  BY <1>1 DEF KeptUpTo
<1>. DEFINE Q == {m \in Nat : m <= n => kept[m] \in Seq(S)}
<1>4. 0 \in Q
  <2>1. kept[0] = <<>>
    <3>1. 0 \in 0..n
      BY <1>0
    <3>. QED  BY <1>3, <3>1 DEF AfterKept
  <2>2. <<>> \in Seq(S)
    OBVIOUS
  <2>3. kept[0] \in Seq(S)
    BY <2>1, <2>2
  <2>. HIDE DEF n
  <2>. QED  BY <2>3
<1>5. ASSUME NEW m \in Nat, m \in Q PROVE m + 1 \in Q
  <2>. SUFFICES ASSUME m + 1 <= n PROVE kept[m + 1] \in Seq(S)
    OBVIOUS
  <2>1. kept[m] \in Seq(S) /\ p[m + 1] \in S /\ m + 1 \in 0..n /\ (m + 1) - 1 = m
    BY <1>0, <1>5
  <2>2. kept[m + 1] = (IF p[m + 1] \in fs THEN kept[m] ELSE Append(kept[m], p[m + 1]))
    BY <1>3, <2>1 DEF AfterKept
  <2>. HIDE DEF n
  <2>. QED  BY <2>1, <2>2
<1>6. \A m \in Nat : m \in Q
  <2>. HIDE DEF Q
  <2>. QED  BY <1>4, <1>5, SetInduction
<1>. QED  BY <1>0, <1>2, <1>6

LEMMA AddPendingIsSeq ==
    ASSUME NEW S, NEW p \in Seq(S), NEW f \in S
    PROVE  AddPending(p, f) \in Seq(S)
BY DEF AddPending

(***************************************************************************)
(* Where a run goes on is never a node of the recovery graph.              *)
(***************************************************************************)
RecoveryNodes ==
    {"select_recovery_error", "decide_recovery_action", "schedule_recovery_retry",
     "apply_recovery_fallback", "prepare_recovery_human_input",
     "request_recovery_human_input", "mark_recovery_aborted"}

ElementsOf(line) == {line[i] : i \in 1..Len(line)}

LineNodes == ElementsOf(MainLine) \cup ElementsOf(ClosingLine) \cup ElementsOf(HumanLine)

LEMMA NextOnLine ==
    ASSUME NEW line, Len(line) \in Nat, NEW n \in {line[i] : i \in 1..(Len(line) - 1)},
           \A i \in 1..(Len(line) - 1) : line[i] # line[Len(line)]
    PROVE  NextOn(line)[n] \in ElementsOf(line)
<1>. DEFINE k == CHOOSE i \in 1..Len(line) : line[i] = n
<1>1. k \in 1..Len(line) /\ line[k] = n
  OBVIOUS
<1>2. k # Len(line)
  BY <1>1
<1>3. NextOn(line)[n] = line[1 + k]
  BY DEF NextOn
<1>. HIDE DEF k
<1>4. 1 + k \in 1..Len(line)
  BY <1>1, <1>2
<1>. QED  BY <1>3, <1>4 DEF ElementsOf

LEMMA LinesEnd ==
    /\ Len(MainLine) = 20 /\ Len(ClosingLine) = 5 /\ Len(HumanLine) = 2
    /\ \A i \in 1..19 : MainLine[i] # MainLine[20]
    /\ \A i \in 1..4 : ClosingLine[i] # ClosingLine[5]
    /\ HumanLine[1] # HumanLine[2]
<1>1. Len(MainLine) = 20 /\ Len(ClosingLine) = 5 /\ Len(HumanLine) = 2
  BY DEF MainLine, ClosingLine, HumanLine
<1>2. \A i \in 1..19 : MainLine[i] # MainLine[20]
  BY DEF MainLine
<1>3. \A i \in 1..4 : ClosingLine[i] # ClosingLine[5]
  BY DEF ClosingLine
<1>4. HumanLine[1] # HumanLine[2]
  BY DEF HumanLine
<1>. QED  BY <1>1, <1>2, <1>3, <1>4

LEMMA LineNodesAreOrdinary == LineNodes \cap RecoveryNodes = {}
<1>1. ASSUME NEW i \in 1..20 PROVE MainLine[i] \notin RecoveryNodes
  BY DEF MainLine, RecoveryNodes
<1>2. ASSUME NEW i \in 1..5 PROVE ClosingLine[i] \notin RecoveryNodes
  BY DEF ClosingLine, RecoveryNodes
<1>3. ASSUME NEW i \in 1..2 PROVE HumanLine[i] \notin RecoveryNodes
  BY DEF HumanLine, RecoveryNodes
<1>. QED  BY <1>1, <1>2, <1>3, LinesEnd DEF LineNodes, ElementsOf

(***************************************************************************)
(* The invariant.                                                          *)
(***************************************************************************)
TablesFit(t, d) ==
    /\ t # <<>> => t \in [Tasks -> TaskRow]
    /\ d # <<>> => DOMAIN d = Todos

Action == {"none", "retry", "fallback", "wait_human", "abort", "skip_file", "continue_partial"}

Recovery == [current : Problem \cup {NoFailure}, pending : Seq(Problem), action : Action,
             retryAt : RetryNodes \cup {NoNode}, resumeAfter : LineNodes \cup {NoNode},
             fallback : Degradation, allowed : SUBSET HumanAction,
             selected : HumanAction \cup {NoAnswer}]

RecoveryFits(r, errs) ==
    /\ r \in Recovery
    /\ r.current # NoFailure => Has(errs, r.current)

\* The nodes that treat an error that can be retried somewhere.
TargetNodes == {"decide_recovery_action", "schedule_recovery_retry", "apply_recovery_fallback",
                "prepare_recovery_human_input", "request_recovery_human_input"}

\* What the nodes of the recovery graph find.
NodeFinds(p, r, errs) ==
    /\ p = "select_recovery_error" => HasUnsettled(errs)
    /\ p \in RecoveryNodes \ {"select_recovery_error"} => r.current # NoFailure
    /\ p \in TargetNodes => r.retryAt \in RetryNodes /\ r.resumeAfter \in LineNodes
    /\ p = "request_recovery_human_input" => r.action = "wait_human"
    /\ p = "schedule_recovery_retry" /\ r.action # "wait_human" =>
           EntryOf(errs, r.current).retries < Policies[r.current.category].max

StatusKind == {"running", "recovering", "waiting_human", "failed", "partial", "completed"}

RunInvariant ==
    /\ status \in StatusKind /\ report \in ReportKind
    /\ TablesFit(tasks, todos)
    /\ ErrorsFit(errors)
    /\ RecoveryFits(recovery, errors)
    /\ NodeFinds(pc, recovery, errors)

(***************************************************************************)
(* Where the errors send a run.                                            *)
(***************************************************************************)
LEMMA RetryNodesOnLines ==
    /\ RetryNodes \subseteq LineNodes
    /\ \A n \in RetryNodes : After(n) \in LineNodes
<1>1. /\ DOMAIN NextOn(MainLine) = {MainLine[i] : i \in 1..19}
      /\ DOMAIN NextOn(ClosingLine) = {ClosingLine[i] : i \in 1..4}
      /\ DOMAIN NextOn(HumanLine) = {HumanLine[i] : i \in 1..1}
  BY LinesEnd DEF NextOn
<1>2. /\ \A n \in DOMAIN NextOn(MainLine) : NextOn(MainLine)[n] \in ElementsOf(MainLine)
      /\ \A n \in DOMAIN NextOn(ClosingLine) : NextOn(ClosingLine)[n] \in ElementsOf(ClosingLine)
      /\ \A n \in DOMAIN NextOn(HumanLine) : NextOn(HumanLine)[n] \in ElementsOf(HumanLine)
  <2>1. ASSUME NEW n \in DOMAIN NextOn(MainLine)
        PROVE  NextOn(MainLine)[n] \in ElementsOf(MainLine)
    <3>1. Len(MainLine) \in Nat /\ Len(MainLine) - 1 = 19
      BY LinesEnd
    <3>. QED  BY <1>1, <3>1, LinesEnd, NextOnLine
  <2>2. ASSUME NEW n \in DOMAIN NextOn(ClosingLine)
        PROVE  NextOn(ClosingLine)[n] \in ElementsOf(ClosingLine)
    <3>1. Len(ClosingLine) \in Nat /\ Len(ClosingLine) - 1 = 4
      BY LinesEnd
    <3>. QED  BY <1>1, <3>1, LinesEnd, NextOnLine
  <2>3. ASSUME NEW n \in DOMAIN NextOn(HumanLine)
        PROVE  NextOn(HumanLine)[n] \in ElementsOf(HumanLine)
    <3>1. Len(HumanLine) \in Nat /\ Len(HumanLine) - 1 = 1
      BY LinesEnd
    <3>2. \A i \in 1..1 : HumanLine[i] # HumanLine[2]
      BY LinesEnd
    <3>. QED  BY <1>1, <3>1, <3>2, LinesEnd, NextOnLine
  <2>. QED  BY <2>1, <2>2, <2>3
<1>3. RetryNodes \subseteq LineNodes
  BY <1>1, LinesEnd DEF RetryNodes, LineNodes, ElementsOf
<1>4. ASSUME NEW n \in RetryNodes PROVE After(n) \in LineNodes
  BY <1>2 DEF RetryNodes, LineNodes, After
<1>. QED  BY <1>3, <1>4

\* The nodes before which the top graph waits for nothing.
LEMMA NamesOfRetryNodes ==
    RetryNodes =
        {"execute_before_run_hooks", "validate_request", "load_system_prompt",
         "recall_long_term_memory", "load_skill_registry", "plan_run_tasks",
         "run_inventory_subgraph", "sync_inventory_task_status",
         "run_context_compact_after_inventory", "dispatch_content_subagent_task",
         "run_version_analysis_subgraph", "sync_version_task_status",
         "run_evidence_subgraph", "sync_evidence_task_status",
         "dispatch_evidence_subagent_task", "run_context_compact_after_evidence",
         "run_recommendation_subgraph", "dispatch_recommendation_judge_task",
         "sync_recommendation_task_status", "validate_report_result",
         "persist_long_term_memory", "finalize_run_tasks", "execute_after_run_hooks",
         "sync_human_review_task_status"}
<1>1. /\ DOMAIN NextOn(MainLine) = {MainLine[i] : i \in 1..19}
      /\ DOMAIN NextOn(ClosingLine) = {ClosingLine[i] : i \in 1..4}
      /\ DOMAIN NextOn(HumanLine) = {HumanLine[i] : i \in 1..1}
  BY LinesEnd DEF NextOn
<1>2. {MainLine[i] : i \in 1..19} =
        {"execute_before_run_hooks", "validate_request", "load_system_prompt",
         "recall_long_term_memory", "load_skill_registry", "plan_run_tasks",
         "run_inventory_subgraph", "sync_inventory_task_status",
         "run_context_compact_after_inventory", "dispatch_content_subagent_task",
         "run_version_analysis_subgraph", "sync_version_task_status",
         "run_evidence_subgraph", "sync_evidence_task_status",
         "dispatch_evidence_subagent_task", "run_context_compact_after_evidence",
         "run_recommendation_subgraph", "dispatch_recommendation_judge_task",
         "sync_recommendation_task_status"}
  BY DEF MainLine
<1>3. {ClosingLine[i] : i \in 1..4} =
        {"validate_report_result", "persist_long_term_memory", "finalize_run_tasks",
         "execute_after_run_hooks"}
  BY DEF ClosingLine
<1>4. {HumanLine[i] : i \in 1..1} = {"sync_human_review_task_status"}
  BY DEF HumanLine
<1>. QED  BY <1>1, <1>2, <1>3, <1>4 DEF RetryNodes

LEMMA RetryNodeIsOne ==
    ASSUME NEW node, NEW stage, NEW task
    PROVE  /\ RetryNode(node, stage, task) \in RetryNodes \cup {NoNode}
           /\ node \in RetryNodes => RetryNode(node, stage, task) = node
<1>1. \A s \in DOMAIN StageNode : StageNode[s] \in RetryNodes
  BY NamesOfRetryNodes DEF StageNode
<1>2. \A t \in DOMAIN TaskNode : TaskNode[t] \in RetryNodes
  BY NamesOfRetryNodes DEF TaskNode
<1>3. \A t \in DOMAIN DispatchNode : DispatchNode[t] \in RetryNodes
  BY NamesOfRetryNodes DEF DispatchNode
<1>. QED  BY <1>1, <1>2, <1>3 DEF RetryNode

LEMMA OnwardIsOrdinary ==
    ASSUME NEW n \in RetryNodes \cup {"initialize_run"}, NEW data
    PROVE  Onward(n, data) \notin RecoveryNodes
<1>1. n # "initialize_run" => After(n) \in LineNodes
  BY RetryNodesOnLines
<1>2. \A m \in LineNodes : m \notin RecoveryNodes
  BY LineNodesAreOrdinary
<1>3. {"execute_before_run_hooks", "generate_no_data_report", "prepare_human_review"}
        \cap RecoveryNodes = {}
  BY DEF RecoveryNodes
<1>. QED  BY <1>1, <1>2, <1>3 DEF Onward

\* A router stops a run only for an open error.
LEMMA RoutedWithReason ==
    ASSUME NEW n \in RetryNodes \cup {"initialize_run"}, NEW errs, NEW data
    PROVE  \/ Routed(n, errs, data) = "select_recovery_error" /\ HasUnsettled(errs)
           \/ Routed(n, errs, data) = Onward(n, data) /\ Onward(n, data) \notin RecoveryNodes
              /\ \A i \in DOMAIN errs : Unresolved(errs[i]) =>
                     ~StopsOnTheWay(n, errs[i].failure) /\ ~StopsTheEnd(n, errs[i].failure)
<1>1. Onward(n, data) \notin RecoveryNodes
  BY OnwardIsOrdinary
<1>2. \A i \in DOMAIN errs : Unresolved(errs[i]) => HasUnsettled(errs)
  BY DEF HasUnsettled, Unresolved
<1>. QED  BY <1>1, <1>2 DEF Routed

(***************************************************************************)
(* The nodes of the recovery graph.                                        *)
(***************************************************************************)
LEMMA Elsewhere ==
    ASSUME NEW p, p \notin RecoveryNodes, NEW r, NEW errs
    PROVE  NodeFinds(p, r, errs)
BY DEF NodeFinds, RecoveryNodes, TargetNodes

\* When anything is open, the selection finds an error of the channel.
LEMMA SelectedIsThere ==
    ASSUME ErrorsFit(errors), RecoveryFits(recovery, errors), HasUnsettled(errors)
    PROVE  Selected \in Problem /\ Has(errors, Selected)
<1>. DEFINE open(f) == f # NoFailure /\ Positions(errors, f) # {}
                       /\ EntryOf(errors, f).status \notin Settled
            waiting == {i \in DOMAIN recovery.pending : open(recovery.pending[i])}
            any     == {i \in DOMAIN errors : errors[i].status \notin Settled}
            last(S) == CHOOSE i \in S : \A j \in S : j <= i
<1>1. Selected = IF open(recovery.current) THEN recovery.current
                 ELSE IF waiting # {} THEN recovery.pending[last(waiting)]
                 ELSE IF any # {} THEN errors[last(any)].failure ELSE NoFailure
  BY DEF Selected
<1>2. /\ recovery.current \in Problem \cup {NoFailure} /\ recovery.pending \in Seq(Problem)
      /\ errors \in Seq(Entry) /\ \A i \in DOMAIN errors : errors[i].failure \in Problem
  BY DEF RecoveryFits, Recovery, ErrorsFit, Sound, Entry
<1>3. any # {}
  BY DEF HasUnsettled
<1>4. \A f : open(f) => Has(errors, f)
  BY DEF Positions, Has
<1>5. \A i \in waiting : open(recovery.pending[i]) /\ i \in DOMAIN recovery.pending
  OBVIOUS
<1>6. any \subseteq DOMAIN errors
  OBVIOUS
<1>7. waiting # {} => last(waiting) \in waiting
  <2>1. waiting \in SUBSET (1..Len(recovery.pending)) /\ Len(recovery.pending) \in Nat
    BY <1>2
  <2>. HIDE DEF waiting
  <2>. QED  BY <2>1, LastExists
<1>8. last(any) \in any
  <2>1. any \in SUBSET (1..Len(errors)) /\ Len(errors) \in Nat
    BY <1>2
  <2>. HIDE DEF any
  <2>. QED  BY <1>3, <2>1, LastExists
<1>. HIDE DEF waiting, any, last
<1>9. CASE open(recovery.current)
  <2>1. Selected = recovery.current /\ recovery.current # NoFailure
    BY <1>1, <1>9
  <2>. HIDE DEF open
  <2>. QED  BY <1>2, <1>4, <1>9, <2>1
<1>. HIDE DEF open
<1>10. CASE ~open(recovery.current) /\ waiting # {}
  <2>1. Selected = recovery.pending[last(waiting)]
    BY <1>1, <1>10
  <2>2. open(recovery.pending[last(waiting)]) /\ last(waiting) \in DOMAIN recovery.pending
    BY <1>5, <1>7, <1>10
  <2>. QED  BY <1>2, <1>4, <2>1, <2>2
<1>11. CASE ~open(recovery.current) /\ waiting = {}
  <2>1. Selected = errors[last(any)].failure /\ last(any) \in DOMAIN errors
    BY <1>1, <1>3, <1>6, <1>8, <1>11
  <2>. QED  BY <1>2, <2>1 DEF Has
<1>. QED  BY <1>9, <1>10, <1>11

\* An entry rewritten without touching its counts.
SameCounts(e, old) == e.failure = old.failure /\ e.retries = old.retries /\ e.auto = old.auto

LEMMA RewrittenFits ==
    ASSUME NEW errs, ErrorsFit(errs), NEW f, Has(errs, f),
           NEW e, Sound(e), SameCounts(e, EntryOf(errs, f))
    PROVE  /\ ErrorsFit(Merged(errs, e))
           /\ Grows(errs, Merged(errs, e))
           /\ Has(Merged(errs, e), f)
<1>1. EntryOf(errs, f).failure = f /\ Bounded(errs, EntryOf(errs, f))
  BY EntryFound
<1>2. Bounded(errs, e)
  BY <1>1 DEF Bounded, Within, SameCounts
<1>3. ErrorsFit(Merged(errs, e)) /\ Grows(errs, Merged(errs, e))
  BY <1>2, MergedKeeps
<1>4. Has(Merged(errs, e), f)
  BY <1>3 DEF Grows, Has
<1>. QED  BY <1>3, <1>4

LEMMA ReopenedIsSound ==
    ASSUME NEW old, Sound(old)
    PROVE  /\ Sound(Reopened(old))
           /\ Sound([Reopened(old) EXCEPT !.status = "failed", !.fatal = TRUE])
           /\ SameCounts(Reopened(old), old)
           /\ SameCounts([Reopened(old) EXCEPT !.status = "failed", !.fatal = TRUE], old)
<1>1. old \in Entry /\ old.failure.category \in Category
  BY ProblemShape DEF Sound, Entry
<1>2. Policies[old.failure.category] \in Rule
  BY <1>1, RuleType
<1>. DEFINE e == Reopened(old)
<1>3. /\ e \in Entry
      /\ e.failure = old.failure /\ e.retries = old.retries /\ e.auto = old.auto
      /\ e.fatal = old.fatal
      /\ e.status = IF old.status = "failed" THEN "pending" ELSE old.status
  BY <1>1, <1>2 DEF Reopened, Entry, Rule, Degradation, ErrorStatus, Settled
<1>. HIDE DEF e
<1>4. Sound(e)
  BY <1>3 DEF Sound, Settled
<1>. DEFINE g == [e EXCEPT !.status = "failed", !.fatal = TRUE]
<1>5. /\ g \in Entry /\ g.failure = e.failure /\ g.retries = e.retries /\ g.auto = e.auto
      /\ g.status = "failed"
  BY <1>3 DEF Entry, ErrorStatus
<1>. HIDE DEF g
<1>6. Sound(g)
  BY <1>5 DEF Sound, Settled
<1>7. SameCounts(e, old) /\ SameCounts(g, old)
  BY <1>3, <1>5 DEF SameCounts
<1>. QED  BY <1>4, <1>6, <1>7 DEF e, g

LEMMA SelectKeeps ==
    ASSUME RunInvariant, SelectRecoveryError, UNCHANGED runVars
    PROVE  RunInvariant'
<1>. DEFINE f      == Selected
            known  == IF f.task \in DOMAIN tasks THEN f.task ELSE NoTask
            target == RetryNode(f.node, f.stage, known)
            old    == EntryOf(errors, f)
            e      == IF target = NoNode
                      THEN [Reopened(old) EXCEPT !.status = "failed", !.fatal = TRUE]
                      ELSE Reopened(old)
<1>1. /\ pc = "select_recovery_error"
      /\ errors' = Merged(errors, e)
      /\ recovery' = [recovery EXCEPT
                            !.current = f, !.pending = AddPending(@, f),
                            !.action = IF target = NoNode THEN "abort" ELSE "none",
                            !.retryAt = target,
                            !.resumeAfter = IF target = NoNode THEN NoNode ELSE After(target)]
      /\ status' = "recovering"
      /\ pc' = IF target = NoNode THEN "mark_recovery_aborted" ELSE "decide_recovery_action"
      /\ tasks' = tasks /\ todos' = todos /\ report' = report
  BY DEF SelectRecoveryError, runVars
<1>2. f \in Problem /\ Has(errors, f)
  BY <1>1, SelectedIsThere DEF RunInvariant, NodeFinds
<1>3. target \in RetryNodes \cup {NoNode}
  BY RetryNodeIsOne
<1>. HIDE DEF f, target
<1>4. Sound(old)
  BY <1>2, EntryFound DEF RunInvariant
<1>5. Sound(e) /\ SameCounts(e, old)
  BY <1>4, ReopenedIsSound
<1>. HIDE DEF e
<1>6. ErrorsFit(errors') /\ Has(errors', f)
  BY <1>1, <1>2, <1>5, RewrittenFits DEF RunInvariant
<1>7. recovery \in Recovery /\ AddPending(recovery.pending, f) \in Seq(Problem)
  BY <1>2, AddPendingIsSeq DEF RunInvariant, RecoveryFits, Recovery
<1>8. target # NoNode => target \in RetryNodes /\ After(target) \in LineNodes
  BY <1>3, RetryNodesOnLines
<1>9. /\ recovery' \in Recovery /\ recovery'.current = f /\ recovery'.retryAt = target
      /\ target # NoNode => recovery'.resumeAfter \in LineNodes
  BY <1>1, <1>2, <1>3, <1>7, <1>8 DEF Recovery, Action
<1>10. f # NoFailure
  BY <1>2, ProblemShape
<1>11. RecoveryFits(recovery', errors')
  BY <1>6, <1>9 DEF RecoveryFits
<1>12. NodeFinds(pc', recovery', errors')
  BY <1>1, <1>8, <1>9, <1>10 DEF NodeFinds, RecoveryNodes, TargetNodes
<1>. QED  BY <1>1, <1>6, <1>11, <1>12 DEF RunInvariant, StatusKind

\* The nodes after the selection treat the current error.
LEMMA CurrentIsThere ==
    ASSUME RunInvariant, pc \in RecoveryNodes \ {"select_recovery_error"}
    PROVE  /\ recovery.current \in Problem /\ Has(errors, recovery.current)
           /\ Sound(Current) /\ Bounded(errors, Current)
           /\ Current.failure = recovery.current
<1>1. recovery.current # NoFailure
  BY DEF RunInvariant, NodeFinds
<1>2. recovery.current \in Problem /\ Has(errors, recovery.current)
  BY <1>1 DEF RunInvariant, RecoveryFits, Recovery
<1>. QED  BY <1>2, EntryFound DEF RunInvariant, Current

LEMMA RecommendIsOne ==
    ASSUME NEW c \in Category, NEW n \in Nat
    PROVE  /\ Recommend(c, n) \in {"retry", "fallback", "wait_human", "abort"}
           /\ Recommend(c, n) = "retry" => n < Policies[c].max
BY DEF Recommend

LEMMA DecideKeeps ==
    ASSUME RunInvariant, DecideRecoveryAction, UNCHANGED runVars
    PROVE  RunInvariant'
<1>. DEFINE action == Recommend(Current.failure.category, Current.retries)
<1>1. /\ pc = "decide_recovery_action"
      /\ recovery' = [recovery EXCEPT !.action = action, !.fallback = Current.fallback]
      /\ pc' = CASE action = "retry"      -> "schedule_recovery_retry"
                 [] action = "fallback"   -> "apply_recovery_fallback"
                 [] action = "wait_human" -> "prepare_recovery_human_input"
                 [] OTHER                 -> "mark_recovery_aborted"
      /\ status' = status /\ tasks' = tasks /\ errors' = errors
      /\ todos' = todos /\ report' = report
  BY DEF DecideRecoveryAction, runVars
<1>2. /\ recovery.current \in Problem /\ Has(errors, recovery.current)
      /\ Sound(Current) /\ Current.failure = recovery.current
  BY <1>1, CurrentIsThere DEF RecoveryNodes
<1>3. Current.retries \in Nat /\ Current.fallback \in Degradation
      /\ Current.failure.category \in Category
  BY <1>2, ProblemShape DEF Sound, Entry
<1>4. /\ action \in {"retry", "fallback", "wait_human", "abort"}
      /\ action = "retry" => Current.retries < Policies[recovery.current.category].max
  BY <1>2, <1>3, RecommendIsOne
<1>. HIDE DEF action
<1>5. recovery \in Recovery /\ recovery.retryAt \in RetryNodes /\ recovery.resumeAfter \in LineNodes
  BY <1>1 DEF RunInvariant, RecoveryFits, NodeFinds, TargetNodes
<1>6. /\ recovery' \in Recovery /\ recovery'.current = recovery.current
      /\ recovery'.retryAt = recovery.retryAt /\ recovery'.resumeAfter = recovery.resumeAfter
      /\ recovery'.action = action
  BY <1>1, <1>3, <1>4, <1>5 DEF Recovery, Action
<1>7. RecoveryFits(recovery', errors')
  BY <1>1, <1>2, <1>6 DEF RecoveryFits
<1>8. recovery.current # NoFailure
  BY <1>2, ProblemShape
<1>9. action = "retry" =>
          EntryOf(errors', recovery'.current).retries < Policies[recovery'.current.category].max
  BY <1>1, <1>4, <1>6 DEF Current
<1>10. NodeFinds(pc', recovery', errors')
  BY <1>1, <1>4, <1>5, <1>6, <1>8, <1>9 DEF NodeFinds, RecoveryNodes, TargetNodes
<1>. QED  BY <1>1, <1>7, <1>10 DEF RunInvariant

\* Every outcome leads out of the recovery graph.
LEMMA FinishLeaves ==
    ASSUME NEW r \in Recovery, FinishRecovery(r),
           r.action = "retry" => r.retryAt \in RetryNodes,
           r.action \in {"skip_file", "fallback", "continue_partial"} => r.resumeAfter \in LineNodes
    PROVE  /\ recovery' \in Recovery /\ recovery'.current = r.current
           /\ pc' \notin RecoveryNodes
           /\ status' \in StatusKind
<1>1. recovery' = [r EXCEPT !.allowed = {}] /\ pc' = ResumeNode(r)
      /\ status' \in {"recovering", "running"}
  BY DEF FinishRecovery, Finalized
<1>2. recovery' \in Recovery /\ recovery'.current = r.current
  BY <1>1 DEF Recovery
<1>3. ResumeNode(r) \in LineNodes \cup {"generate_lifecycle_failure_report", "generate_failure_report"}
  BY RetryNodesOnLines DEF ResumeNode
<1>4. pc' \notin RecoveryNodes
  BY <1>1, <1>3, LineNodesAreOrdinary DEF RecoveryNodes
<1>. QED  BY <1>1, <1>2, <1>4 DEF StatusKind

LEMMA OverwrittenFits ==
    ASSUME TablesFit(tasks, todos), NEW f, NEW s \in TaskStatus, NEW again \in BOOLEAN
    PROVE  TablesFit(TaskOverwritten(f, s, again), todos)
<1>. DEFINE t == f.task
            row == [status |-> s, error |-> TRUE,
                    attempts |-> tasks[t].attempts + (IF again THEN 1 ELSE 0)]
            new == [tasks EXCEPT ![t] = row]
<1>1. CASE t \notin DOMAIN tasks
  BY <1>1 DEF TaskOverwritten
<1>2. CASE t \in DOMAIN tasks
  <2>1. tasks # <<>>
    BY <1>2
  <2>2. tasks \in [Tasks -> TaskRow] /\ t \in Tasks
    BY <2>1, <1>2 DEF TablesFit
  <2>3. tasks[t].attempts \in Nat
    BY <2>2 DEF TaskRow
  <2>4. row \in TaskRow
    BY <2>3 DEF TaskRow
  <2>5. TaskOverwritten(f, s, again) = new
    BY <1>2 DEF TaskOverwritten
  <2>. HIDE DEF row, t
  <2>6. new \in [Tasks -> TaskRow]
    BY <2>2, <2>4
  <2>. QED  BY <2>5, <2>6 DEF TablesFit
<1>. QED  BY <1>1, <1>2

Retrying(old, n, m, a) ==
    [old EXCEPT !.status = "retrying", !.fatal = FALSE, !.retries = n, !.max = m, !.auto = a]

IsRetrying(e, f, n, a) ==
    e \in Entry /\ e.failure = f /\ e.status = "retrying" /\ e.fatal = FALSE
    /\ e.retries = n /\ e.auto = a

LEMMA RetryingIsEntry ==
    ASSUME NEW old \in Entry, NEW n \in Nat, NEW m \in Nat, NEW a \in Nat
    PROVE  IsRetrying(Retrying(old, n, m, a), old.failure, n, a)
BY DEF Entry, ErrorStatus, Retrying, IsRetrying

LEMMA ScheduleKeeps ==
    ASSUME RunInvariant, ScheduleRecoveryRetry, UNCHANGED runVars
    PROVE  RunInvariant'
<1>. DEFINE f == recovery.current
            n == Current.retries + 1
            e == [Current EXCEPT !.status = "retrying", !.fatal = FALSE,
                                 !.retries = n,
                                 !.max = IF n > @ THEN n ELSE @,
                                 !.auto = IF recovery.action = "wait_human" THEN 0 ELSE @ + 1]
            r == [recovery EXCEPT !.action = "retry"]
<1>1. /\ pc = "schedule_recovery_retry"
      /\ errors' = Merged(errors, e)
      /\ tasks' = TaskOverwritten(f, "running", TRUE)
      /\ FinishRecovery(r)
      /\ todos' = todos /\ report' = report
  BY DEF ScheduleRecoveryRetry, runVars
<1>2. /\ f \in Problem /\ Has(errors, f)
      /\ Sound(Current) /\ Bounded(errors, Current) /\ Current.failure = f
  BY <1>1, CurrentIsThere DEF RecoveryNodes
<1>3. /\ Current \in Entry /\ Current.retries \in Nat /\ Current.auto \in Nat /\ Current.max \in Nat
      /\ f.category \in Category /\ Policies[f.category] \in Rule
  BY <1>2, RuleType, ProblemShape DEF Sound, Entry
<1>4. recovery.action # "wait_human" => Current.retries < Policies[f.category].max
  BY <1>1 DEF RunInvariant, NodeFinds, Current
<1>5. /\ e \in Entry /\ e.failure = f /\ e.status = "retrying" /\ ~e.fatal
      /\ e.retries = Current.retries + 1
      /\ e.auto = IF recovery.action = "wait_human" THEN 0 ELSE Current.auto + 1
  <2>. DEFINE m == IF n > Current.max THEN n ELSE Current.max
              a == IF recovery.action = "wait_human" THEN 0 ELSE Current.auto + 1
  <2>1. n \in Nat /\ m \in Nat /\ a \in Nat /\ Current \in Entry
    BY <1>3
  <2>2. e = Retrying(Current, n, m, a)
    BY DEF Retrying
  <2>. HIDE DEF n, m, a, e
  <2>3. IsRetrying(Retrying(Current, n, m, a), Current.failure, n, a)
    BY <2>1, RetryingIsEntry
  <2>. QED  BY <1>2, <2>2, <2>3 DEF n, a, IsRetrying
<1>. HIDE DEF e
<1>6. Sound(e)
  BY <1>5 DEF Sound
<1>7. Within(Current) => Within(e)
  <2>1. Policies[f.category].max \in Nat
    BY <1>3 DEF Rule
  <2>. QED  BY <1>2, <1>3, <1>4, <1>5, <2>1 DEF Within
<1>8. Bounded(errors, e)
  BY <1>2, <1>5, <1>7 DEF Bounded
<1>9. ErrorsFit(errors') /\ Has(errors', f)
  <2>1. ErrorsFit(Merged(errors, e)) /\ Grows(errors, Merged(errors, e))
    BY <1>6, <1>8, MergedKeeps DEF RunInvariant
  <2>. QED  BY <1>1, <1>2, <2>1 DEF Grows, Has
<1>10. TablesFit(tasks', todos')
  <2>1. TablesFit(TaskOverwritten(f, "running", TRUE), todos)
    BY OverwrittenFits DEF RunInvariant, TaskStatus
  <2>. QED  BY <1>1, <2>1
<1>11. recovery \in Recovery /\ recovery.retryAt \in RetryNodes
  BY <1>1 DEF RunInvariant, RecoveryFits, NodeFinds, TargetNodes
<1>12. r \in Recovery /\ r.action = "retry" /\ r.retryAt \in RetryNodes /\ r.current = f
  BY <1>11 DEF Recovery, Action
<1>. HIDE DEF r
<1>13. /\ recovery' \in Recovery /\ recovery'.current = f
       /\ pc' \notin RecoveryNodes /\ status' \in StatusKind
  BY <1>1, <1>12, FinishLeaves
<1>14. RecoveryFits(recovery', errors') /\ NodeFinds(pc', recovery', errors')
  BY <1>9, <1>13, Elsewhere DEF RecoveryFits
<1>. QED  BY <1>1, <1>9, <1>10, <1>13, <1>14 DEF RunInvariant

LEMMA DegradedIsSound ==
    ASSUME NEW old, Sound(old), NEW d \in Degradation
    PROVE  Sound(Degraded(old, d)) /\ SameCounts(Degraded(old, d), old)
<1>1. old \in Entry
  BY DEF Sound
<1>2. Degraded(old, d) \in Entry /\ Degraded(old, d).fatal = FALSE
  BY <1>1 DEF Degraded, Entry, ErrorStatus, Settled
<1>3. SameCounts(Degraded(old, d), old)
  BY <1>1 DEF Degraded, SameCounts, Entry
<1>. QED  BY <1>2, <1>3 DEF Sound

\* Every error of a set is degraded where it stands.
LEMMA DegradedFits ==
    ASSUME NEW errs, ErrorsFit(errs), NEW fs, NEW d \in Degradation
    PROVE  LET new == [i \in DOMAIN errs |->
                          IF errs[i].failure \in fs THEN Degraded(errs[i], d) ELSE errs[i]]
           IN  ErrorsFit(new) /\ Grows(errs, new)
<1>. DEFINE new == [i \in DOMAIN errs |->
                       IF errs[i].failure \in fs THEN Degraded(errs[i], d) ELSE errs[i]]
            n   == Len(errs)
<1>1. n \in Nat /\ DOMAIN errs = 1..n /\ DOMAIN new = 1..n
  BY DEF ErrorsFit
<1>2. \A i \in 1..n : Sound(errs[i]) /\ Bounded(errs, errs[i])
  BY <1>1 DEF ErrorsFit
<1>3. \A i \in 1..n : Sound(new[i]) /\ SameCounts(new[i], errs[i])
  <2>1. ASSUME NEW i \in 1..n PROVE Sound(new[i]) /\ SameCounts(new[i], errs[i])
    <3>1. Sound(Degraded(errs[i], d)) /\ SameCounts(Degraded(errs[i], d), errs[i])
      BY <1>2, DegradedIsSound
    <3>2. new[i] = Degraded(errs[i], d) \/ new[i] = errs[i]
      BY <1>1
    <3>3. SameCounts(errs[i], errs[i])
      BY DEF SameCounts
    <3>. HIDE DEF new
    <3>. QED  BY <1>2, <3>1, <3>2, <3>3
  <2>. QED  BY <2>1
<1>4. new \in Seq(Entry)
  <2>1. \A i \in 1..n : new[i] \in Entry
    BY <1>3 DEF Sound
  <2>2. new = [i \in 1..n |-> new[i]]
    BY <1>1
  <2>. HIDE DEF new, n
  <2>3. new \in [1..n -> Entry]
    BY <2>1, <2>2
  <2>. QED  BY <1>1, <2>3
<1>. HIDE DEF new, n
<1>5. \A i \in 1..n : new[i].failure = errs[i].failure
  BY <1>3 DEF SameCounts
<1>6. \A i, j \in DOMAIN new : new[i].failure = new[j].failure => i = j
  BY <1>1, <1>5 DEF ErrorsFit
<1>7. \A f : HasSibling(errs, f) => HasSibling(new, f)
  BY <1>1, <1>5 DEF HasSibling
<1>8. \A i \in 1..n : Bounded(new, new[i])
  BY <1>2, <1>3, <1>7 DEF Bounded, Within, SameCounts
<1>9. Grows(errs, new)
  BY <1>1, <1>5 DEF Grows, Has
<1>. QED  BY <1>1, <1>3, <1>4, <1>6, <1>8, <1>9 DEF ErrorsFit, new

LEMMA FallbackKeeps ==
    ASSUME RunInvariant, ApplyRecoveryFallback, UNCHANGED runVars
    PROVE  RunInvariant'
<1>. DEFINE f        == recovery.current
            fallback == IF recovery.selected = "skip_file" THEN "skip_file" ELSE recovery.fallback
            cohort   == {f} \cup {e.failure : e \in {errors[i] : i \in {j \in DOMAIN errors :
                            /\ errors[j].failure.task = f.task
                            /\ errors[j].fallback = fallback
                            /\ errors[j].status \notin Settled}}}
            action   == CASE fallback = "skip_file"      -> "skip_file"
                          [] fallback = "partial_result" -> "continue_partial"
                          [] OTHER                       -> "fallback"
            r        == [recovery EXCEPT !.fallback = fallback, !.action = action,
                                         !.pending = Without(@, cohort)]
<1>1. /\ pc = "apply_recovery_fallback"
      /\ errors' = [i \in DOMAIN errors |->
                        IF errors[i].failure \in cohort
                        THEN Degraded(errors[i], fallback) ELSE errors[i]]
      /\ tasks' = TaskOverwritten(f, "partial", FALSE)
      /\ FinishRecovery(r)
      /\ todos' = todos /\ report' = report
  BY DEF ApplyRecoveryFallback, runVars
<1>. HIDE DEF cohort
<1>2. f \in Problem /\ Has(errors, f)
  BY <1>1, CurrentIsThere DEF RecoveryNodes
<1>3. recovery \in Recovery /\ recovery.resumeAfter \in LineNodes
  BY <1>1 DEF RunInvariant, RecoveryFits, NodeFinds, TargetNodes
<1>4. fallback \in Degradation
  BY <1>3 DEF Recovery, Degradation, Fallback
<1>5. action \in {"skip_file", "continue_partial", "fallback"}
  OBVIOUS
<1>6. Without(recovery.pending, cohort) \in Seq(Problem)
  BY <1>3, WithoutIsSeq DEF Recovery
<1>. HIDE DEF fallback, action
<1>7. ErrorsFit(errors') /\ Has(errors', f)
  <2>1. ErrorsFit(errors') /\ Grows(errors, errors')
    BY <1>1, <1>4, DegradedFits DEF RunInvariant
  <2>. QED  BY <1>2, <2>1 DEF Grows, Has
<1>8. /\ r \in Recovery /\ r.current = f
      /\ r.action \in {"skip_file", "continue_partial", "fallback"}
      /\ r.resumeAfter \in LineNodes
  BY <1>3, <1>4, <1>5, <1>6 DEF Recovery, Action
<1>. HIDE DEF r
<1>9. /\ recovery' \in Recovery /\ recovery'.current = f
      /\ pc' \notin RecoveryNodes /\ status' \in StatusKind
  BY <1>1, <1>8, FinishLeaves
<1>10. TablesFit(tasks', todos')
  <2>1. TablesFit(TaskOverwritten(f, "partial", FALSE), todos)
    BY OverwrittenFits DEF RunInvariant, TaskStatus, TerminalTask
  <2>. QED  BY <1>1, <2>1
<1>11. RecoveryFits(recovery', errors') /\ NodeFinds(pc', recovery', errors')
  BY <1>7, <1>9, Elsewhere DEF RecoveryFits
<1>. QED  BY <1>1, <1>7, <1>9, <1>10, <1>11 DEF RunInvariant

LEMMA PrepareKeeps ==
    ASSUME RunInvariant, PrepareRecoveryHumanInput, UNCHANGED runVars
    PROVE  RunInvariant'
<1>. DEFINE f == recovery.current
            e == [Current EXCEPT !.status = "waiting_human", !.fatal = FALSE]
<1>1. /\ pc = "prepare_recovery_human_input"
      /\ errors' = Merged(errors, e)
      /\ recovery' = [recovery EXCEPT !.action = "wait_human",
                                      !.allowed = AllowedAnswers(Current), !.selected = NoAnswer]
      /\ status' = "waiting_human"
      /\ pc' = "request_recovery_human_input"
      /\ tasks' = tasks /\ todos' = todos /\ report' = report
  BY DEF PrepareRecoveryHumanInput, runVars
<1>2. f \in Problem /\ Has(errors, f) /\ Sound(Current)
  BY <1>1, CurrentIsThere DEF RecoveryNodes
<1>3. Current \in Entry
  BY <1>2 DEF Sound
<1>4. e \in Entry /\ e.fatal = FALSE /\ SameCounts(e, Current)
  BY <1>3 DEF Entry, ErrorStatus, SameCounts
<1>. HIDE DEF e
<1>5. ErrorsFit(errors') /\ Has(errors', f)
  <2>1. Sound(e)
    BY <1>4 DEF Sound
  <2>. QED  BY <1>1, <1>2, <1>4, <2>1, RewrittenFits DEF RunInvariant, Current
<1>6. recovery \in Recovery /\ recovery.retryAt \in RetryNodes /\ recovery.resumeAfter \in LineNodes
  BY <1>1 DEF RunInvariant, RecoveryFits, NodeFinds, TargetNodes
<1>7. AllowedAnswers(Current) \in SUBSET HumanAction
  BY DEF AllowedAnswers, HumanAction
<1>8. /\ recovery' \in Recovery /\ recovery'.current = f /\ recovery'.action = "wait_human"
      /\ recovery'.retryAt \in RetryNodes /\ recovery'.resumeAfter \in LineNodes
  BY <1>1, <1>6, <1>7 DEF Recovery, Action
<1>9. f # NoFailure
  BY <1>2, ProblemShape
<1>10. RecoveryFits(recovery', errors') /\ NodeFinds(pc', recovery', errors')
  BY <1>1, <1>5, <1>8, <1>9 DEF RecoveryFits, NodeFinds, RecoveryNodes, TargetNodes
<1>. QED  BY <1>1, <1>5, <1>10 DEF RunInvariant, StatusKind

LEMMA AnswerKeeps ==
    ASSUME RunInvariant, NEW answer \in HumanAction, AnswerRecovery(answer), UNCHANGED runVars
    PROVE  RunInvariant'
<1>1. /\ pc = "request_recovery_human_input"
      /\ recovery' = [recovery EXCEPT !.selected = answer,
                                      !.fallback = IF answer = "skip_file" THEN "skip_file" ELSE @]
      /\ status' = "recovering"
      /\ pc' \in {"schedule_recovery_retry", "apply_recovery_fallback", "mark_recovery_aborted"}
      /\ errors' = errors /\ tasks' = tasks /\ todos' = todos /\ report' = report
  BY DEF AnswerRecovery, runVars
<1>2. recovery.current \in Problem /\ Has(errors, recovery.current)
  BY <1>1, CurrentIsThere DEF RecoveryNodes
<1>3. /\ recovery \in Recovery /\ recovery.retryAt \in RetryNodes
      /\ recovery.resumeAfter \in LineNodes /\ recovery.action = "wait_human"
  BY <1>1 DEF RunInvariant, RecoveryFits, NodeFinds, TargetNodes
<1>4. /\ recovery' \in Recovery /\ recovery'.current = recovery.current
      /\ recovery'.action = "wait_human"
      /\ recovery'.retryAt \in RetryNodes /\ recovery'.resumeAfter \in LineNodes
  BY <1>1, <1>3 DEF Recovery, Degradation, Fallback
<1>5. recovery.current # NoFailure
  BY <1>2, ProblemShape
<1>6. RecoveryFits(recovery', errors') /\ NodeFinds(pc', recovery', errors')
  BY <1>1, <1>2, <1>4, <1>5 DEF RecoveryFits, NodeFinds, RecoveryNodes, TargetNodes
<1>. QED  BY <1>1, <1>6 DEF RunInvariant, StatusKind

LEMMA AbortKeeps ==
    ASSUME RunInvariant, MarkRecoveryAborted, UNCHANGED runVars
    PROVE  RunInvariant'
<1>. DEFINE f == recovery.current
            e == [Current EXCEPT !.status = "failed", !.fatal = TRUE]
            r == [recovery EXCEPT !.action = "abort", !.pending = Without(@, {f})]
<1>1. /\ pc = "mark_recovery_aborted"
      /\ errors' = Merged(errors, e)
      /\ tasks' = TaskOverwritten(f, "failed", FALSE)
      /\ FinishRecovery(r)
      /\ todos' = todos /\ report' = report
  BY DEF MarkRecoveryAborted, runVars
<1>2. f \in Problem /\ Has(errors, f) /\ Sound(Current)
  BY <1>1, CurrentIsThere DEF RecoveryNodes
<1>3. Current \in Entry
  BY <1>2 DEF Sound
<1>4. e \in Entry /\ e.status = "failed" /\ SameCounts(e, Current)
  BY <1>3 DEF Entry, ErrorStatus, SameCounts
<1>. HIDE DEF e
<1>5. ErrorsFit(errors') /\ Has(errors', f)
  <2>1. Sound(e)
    BY <1>4 DEF Sound, Settled
  <2>. QED  BY <1>1, <1>2, <1>4, <2>1, RewrittenFits DEF RunInvariant, Current
<1>6. recovery \in Recovery /\ Without(recovery.pending, {f}) \in Seq(Problem)
  BY WithoutIsSeq DEF RunInvariant, RecoveryFits, Recovery
<1>7. r \in Recovery /\ r.current = f /\ r.action = "abort"
  BY <1>6 DEF Recovery, Action
<1>. HIDE DEF r
<1>8. /\ recovery' \in Recovery /\ recovery'.current = f
      /\ pc' \notin RecoveryNodes /\ status' \in StatusKind
  BY <1>1, <1>7, FinishLeaves
<1>9. TablesFit(tasks', todos')
  <2>1. TablesFit(TaskOverwritten(f, "failed", FALSE), todos)
    BY OverwrittenFits DEF RunInvariant, TaskStatus, TerminalTask
  <2>. QED  BY <1>1, <2>1
<1>10. RecoveryFits(recovery', errors') /\ NodeFinds(pc', recovery', errors')
  BY <1>5, <1>8, Elsewhere DEF RecoveryFits
<1>. QED  BY <1>1, <1>5, <1>8, <1>9, <1>10 DEF RunInvariant

LEMMA RecoveryKeeps ==
    ASSUME RunInvariant, RecoveryNext, UNCHANGED runVars
    PROVE  RunInvariant'
BY SelectKeeps, DecideKeeps, ScheduleKeeps, FallbackKeeps, PrepareKeeps, AnswerKeeps, AbortKeeps
   DEF RecoveryNext

(***************************************************************************)
(* The requests a node makes of the team graph.                            *)
(***************************************************************************)
Tables == [Tasks -> TaskRow]

Refusals == Tasks \X TaskStatus

LedgerRecord == [tasks : Tables, open : SUBSET (Tasks \cup {NoTask}), refused : Seq(Refusals),
                 asked : BOOLEAN, stop : BOOLEAN]

\* With no open error a request stops its node only by being refused, and a
\* node that was asked nothing moved nothing.
LedgerFits(l, start) ==
    /\ l \in LedgerRecord
    /\ l.open = {} /\ l.stop => l.refused # <<>>
    /\ l.asked \/ l.tasks = start

\* Ledger m follows l by requests about task t, which end in status s.
Follows(l, m, t, s) ==
    /\ m.open = l.open
    /\ m.refused = <<>> => l.refused = <<>>
    /\ m.refused = <<>> /\ l.open = {} =>
           /\ m.tasks[t].status \in TerminalTask \cup {s}
           /\ \A u \in Tasks \ {t} : m.tasks[u] = l.tasks[u]

LEMMA WrittenFits ==
    ASSUME NEW tbl \in Tables, NEW t \in Tasks, NEW s \in TaskStatus, NEW err \in BOOLEAN
    PROVE  /\ Written(tbl, t, s, err) \in Tables
           /\ Written(tbl, t, s, err)[t].status = s
           /\ \A u \in Tasks \ {t} : Written(tbl, t, s, err)[u] = tbl[u]
<1>. DEFINE row == [status   |-> s,
                    attempts |-> tbl[t].attempts + (IF /\ s = "running"
                                                       /\ tbl[t].status \in {"pending", "retrying"}
                                                    THEN 1 ELSE 0),
                    error    |-> err]
<1>1. tbl[t].attempts \in Nat
  BY DEF Tables, TaskRow
<1>2. row \in TaskRow /\ row.status = s
  BY <1>1 DEF TaskRow
<1>3. Written(tbl, t, s, err) = [tbl EXCEPT ![t] = row]
  BY DEF Written
<1>. HIDE DEF row
<1>. QED  BY <1>2, <1>3 DEF Tables


Granted(l, tbl, b) == [l EXCEPT !.tasks = tbl, !.asked = TRUE, !.stop = b]

IsGranted(m, l, tbl, b) ==
    /\ m \in LedgerRecord /\ m.open = l.open /\ m.refused = l.refused
    /\ m.asked = TRUE /\ m.stop = b /\ m.tasks = tbl

LEMMA GrantedIsLedger ==
    ASSUME NEW l \in LedgerRecord, NEW tbl \in Tables, NEW b \in BOOLEAN
    PROVE  IsGranted(Granted(l, tbl, b), l, tbl, b)
BY DEF Granted, IsGranted, LedgerRecord

LEMMA AskedFits ==
    ASSUME NEW start, NEW l, LedgerFits(l, start),
           NEW t \in Tasks, NEW s \in TaskStatus, NEW err \in BOOLEAN
    PROVE  /\ LedgerFits(Asked(l, t, s, err), start)
           /\ Follows(l, Asked(l, t, s, err), t, s)
           /\ l.open = {} /\ Asked(l, t, s, err).refused = <<>> => Asked(l, t, s, err).tasks[t].status = s
<1>. DEFINE m   == Asked(l, t, s, err)
            new == Written(l.tasks, t, s, err)
<1>1. l \in LedgerRecord
  BY DEF LedgerFits
<1>2. /\ new \in Tables /\ new[t].status = s
      /\ \A u \in Tasks \ {t} : new[u] = l.tasks[u]
  BY <1>1, WrittenFits DEF LedgerRecord
<1>. HIDE DEF new
<1>3. CASE Accepts(l.tasks, t, s, err)
  <2>. DEFINE b == t \in l.open
  <2>1. m = Granted(l, new, b)
    BY <1>3 DEF Asked, Granted, new
  <2>2. /\ m \in LedgerRecord /\ m.open = l.open /\ m.refused = l.refused
        /\ m.asked = TRUE /\ m.stop = b /\ m.tasks = new
    <3>1. b \in BOOLEAN
      OBVIOUS
    <3>. HIDE DEF b, m
    <3>2. IsGranted(Granted(l, new, b), l, new, b)
      BY <1>1, <1>2, <3>1, GrantedIsLedger
    <3>. QED  BY <2>1, <3>2 DEF IsGranted
  <2>. HIDE DEF m
  <2>3. LedgerFits(m, start)
    BY <2>2 DEF LedgerFits
  <2>4. Follows(l, m, t, s)
    BY <1>2, <2>2 DEF Follows
  <2>. QED  BY <1>2, <2>2, <2>3, <2>4 DEF m
<1>4. CASE ~Accepts(l.tasks, t, s, err)
  <2>1. m = [l EXCEPT !.refused = Append(@, <<t, s>>), !.asked = TRUE, !.stop = TRUE]
    BY <1>4 DEF Asked
  <2>2. l.refused \in Seq(Refusals) /\ <<t, s>> \in Refusals
    BY <1>1 DEF LedgerRecord, Refusals
  <2>3. /\ Append(l.refused, <<t, s>>) \in Seq(Refusals)
        /\ Append(l.refused, <<t, s>>) # <<>>
    BY <2>2
  <2>4. /\ m \in LedgerRecord /\ m.open = l.open /\ m.refused = Append(l.refused, <<t, s>>)
        /\ m.asked = TRUE
    BY <1>1, <2>1, <2>3 DEF LedgerRecord
  <2>. HIDE DEF m
  <2>. QED  BY <2>3, <2>4 DEF LedgerFits, Follows, m
<1>. QED  BY <1>3, <1>4

LEMMA ApplyFits ==
    ASSUME NEW start, NEW l, LedgerFits(l, start),
           NEW t \in Tasks, NEW s \in TaskStatus, NEW err \in BOOLEAN
    PROVE  /\ LedgerFits(Apply(l, t, s, err), start)
           /\ Follows(l, Apply(l, t, s, err), t, s)
<1>. DEFINE m == Apply(l, t, s, err)
<1>1. CASE l.tasks[t].status \in TerminalTask \cup {s}
  <2>1. m = [l EXCEPT !.stop = FALSE]
    BY <1>1 DEF Apply
  <2>2. l \in LedgerRecord
    BY DEF LedgerFits
  <2>3. /\ m \in LedgerRecord /\ m.open = l.open /\ m.refused = l.refused
        /\ m.asked = l.asked /\ m.stop = FALSE /\ m.tasks = l.tasks
    BY <2>1, <2>2 DEF LedgerRecord
  <2>. HIDE DEF m
  <2>. QED  BY <1>1, <2>3 DEF LedgerFits, Follows, m
<1>2. CASE /\ l.tasks[t].status \notin TerminalTask \cup {s}
           /\ s \in {"completed", "partial"} /\ l.tasks[t].status = "pending"
  <2>. DEFINE started == Asked(l, t, "running", FALSE)
              ended   == Asked(started, t, s, err)
  <2>1. m = IF started.stop THEN started ELSE ended
    BY <1>2 DEF Apply
  <2>2. "running" \in TaskStatus
    BY DEF TaskStatus
  <2>3. LedgerFits(started, start) /\ Follows(l, started, t, "running")
    BY <2>2, AskedFits
  <2>. HIDE DEF started
  <2>4. LedgerFits(ended, start) /\ Follows(started, ended, t, s)
    BY <2>3, AskedFits
  <2>. HIDE DEF ended, m
  <2>5. CASE started.stop
    <3>1. m = started
      BY <2>1, <2>5
    <3>2. m.open = {} => m.refused # <<>>
      BY <2>3, <2>5, <3>1 DEF LedgerFits
    <3>. QED  BY <2>3, <3>1, <3>2 DEF Follows, m
  <2>6. CASE ~started.stop
    <3>1. m = ended
      BY <2>1, <2>6
    <3>. QED  BY <2>3, <2>4, <3>1 DEF Follows, m
  <2>. QED  BY <2>5, <2>6
<1>3. CASE /\ l.tasks[t].status \notin TerminalTask \cup {s}
           /\ ~(s \in {"completed", "partial"} /\ l.tasks[t].status = "pending")
  <2>1. m = Asked(l, t, s, err)
    BY <1>3 DEF Apply
  <2>. QED  BY <2>1, AskedFits
<1>. QED  BY <1>1, <1>2, <1>3

\* The settling of the tasks before the report, one after the other.
AfterSettling(l, blocked, g, i) ==
    IF i = 0 THEN [l EXCEPT !.stop = FALSE]
    ELSE IF g[i-1].stop THEN g[i-1]
    ELSE Apply(g[i-1], ExecutionOrder[i], "skipped", blocked)

SettlesUpTo(l, blocked, g, m) == g = [i \in 0..m |-> AfterSettling(l, blocked, g, i)]

LEMMA SettlingExists ==
    ASSUME NEW l, NEW blocked
    PROVE  \A n \in Nat : \E g : SettlesUpTo(l, blocked, g, n)
<1>. DEFINE P == {m \in Nat : \E g : SettlesUpTo(l, blocked, g, m)}
            Step(q, i) == IF q.stop THEN q ELSE Apply(q, ExecutionOrder[i], "skipped", blocked)
<1>1. 0 \in P
  <2>. DEFINE first == [l EXCEPT !.stop = FALSE]
  <2>. HIDE DEF first
  <2>. DEFINE g == [i \in 0..0 |-> first]
  <2>1. g = [i \in 0..0 |-> AfterSettling(l, blocked, g, i)]
    BY DEF AfterSettling, first
  <2>. HIDE DEF g
  <2>2. SettlesUpTo(l, blocked, g, 0)
    BY <2>1 DEF SettlesUpTo
  <2>. QED  BY <2>2
<1>2. ASSUME NEW m \in Nat, m \in P PROVE m + 1 \in P
  <2>1. PICK g : SettlesUpTo(l, blocked, g, m)
    BY <1>2
  <2>. DEFINE h == [i \in 0..(m + 1) |-> IF i = m + 1 THEN Step(g[m], m + 1) ELSE g[i]]
  <2>2. \A i \in 0..m : g[i] = AfterSettling(l, blocked, g, i)
    BY <2>1 DEF SettlesUpTo
  <2>3. \A i \in 0..m : h[i] = g[i]
    OBVIOUS
  <2>4. h[m + 1] = Step(h[m], m + 1)
    <3>. HIDE DEF Step
    <3>. QED  BY <2>3
  <2>5. h = [i \in 0..(m + 1) |-> h[i]]
    OBVIOUS
  <2>. HIDE DEF h
  <2>6. \A i \in 0..(m + 1) : h[i] = AfterSettling(l, blocked, h, i)
    <3>1. ASSUME NEW i \in 0..m PROVE h[i] = AfterSettling(l, blocked, h, i)
      <4>1. CASE i = 0
        BY <4>1, <2>2, <2>3 DEF AfterSettling
      <4>2. CASE i # 0
        <5>1. i - 1 \in 0..m
          BY <4>2
        <5>. QED  BY <4>2, <5>1, <2>2, <2>3 DEF AfterSettling
      <4>. QED  BY <4>1, <4>2
    <3>2. h[m + 1] = AfterSettling(l, blocked, h, m + 1)
      <4>1. (m + 1) - 1 = m /\ m + 1 # 0
        OBVIOUS
      <4>. QED  BY <2>4, <4>1 DEF AfterSettling
    <3>. QED  BY <3>1, <3>2
  <2>7. h = [i \in 0..(m + 1) |-> AfterSettling(l, blocked, h, i)]
    BY <2>5, <2>6
  <2>8. SettlesUpTo(l, blocked, h, m + 1)
    BY <2>7 DEF SettlesUpTo
  <2>. QED  BY <2>8
<1>3. \A m \in Nat : m \in P
  <2>. HIDE DEF P
  <2>. QED  BY <1>1, <1>2, SetInduction
<1>. QED  BY <1>3

\* Without a refusal or an open error, the five tasks have come to an end.
Ended(m, k) ==
    m.refused = <<>> /\ m.open = {} =>
        \A i \in 1..k : m.tasks[ExecutionOrder[i]].status \in TerminalTask

LEMMA SettleFits ==
    ASSUME NEW start, NEW l, LedgerFits(l, start)
    PROVE  LedgerFits(Settle(l), start) /\ Settle(l).open = l.open /\ Ended(Settle(l), 5)
<1>. DEFINE blocked == Blocked(l.tasks)
            upTo == CHOOSE g : SettlesUpTo(l, blocked, g, 5)
<1>1. SettlesUpTo(l, blocked, upTo, 5)
  BY SettlingExists
<1>2. Settle(l) = upTo[5]
  BY DEF Settle, SettlesUpTo, AfterSettling
<1>3. blocked \in BOOLEAN
  BY DEF Blocked
<1>. HIDE DEF upTo, blocked
<1>4. \A i \in 0..5 : upTo[i] = AfterSettling(l, blocked, upTo, i)
  BY <1>1 DEF SettlesUpTo
<1>. DEFINE Fits(k) == LedgerFits(upTo[k], start) /\ upTo[k].open = l.open /\ Ended(upTo[k], k)
            Q == {k \in Nat : k <= 5 => Fits(k)}
<1>5. 0 \in Q
  <2>1. upTo[0] = [l EXCEPT !.stop = FALSE]
    BY <1>4 DEF AfterSettling
  <2>2. l \in LedgerRecord
    BY DEF LedgerFits
  <2>3. /\ upTo[0] \in LedgerRecord /\ upTo[0].open = l.open /\ upTo[0].stop = FALSE
        /\ upTo[0].asked = l.asked /\ upTo[0].tasks = l.tasks
    BY <2>1, <2>2 DEF LedgerRecord
  <2>4. LedgerFits(upTo[0], start)
    BY <2>3 DEF LedgerFits
  <2>5. Ended(upTo[0], 0)
    <3>1. \A i \in 1..0 : FALSE
      OBVIOUS
    <3>. QED  BY <3>1 DEF Ended
  <2>. QED  BY <2>3, <2>4, <2>5
<1>6. ASSUME NEW k \in Nat, k \in Q PROVE k + 1 \in Q
  <2>. SUFFICES ASSUME k + 1 <= 5 PROVE Fits(k + 1)
    OBVIOUS
  <2>. DEFINE t == ExecutionOrder[k + 1]
              m == Apply(upTo[k], t, "skipped", blocked)
  <2>1. Fits(k)
    BY <1>6
  <2>2. upTo[k + 1] = IF upTo[k].stop THEN upTo[k] ELSE m
    <3>1. k + 1 \in 0..5 /\ (k + 1) - 1 = k /\ k + 1 # 0
      OBVIOUS
    <3>. QED  BY <1>4, <3>1 DEF AfterSettling
  <2>3. t \in Tasks /\ "skipped" \in TaskStatus /\ "skipped" \in TerminalTask
    <3>1. k + 1 \in 1..6
      OBVIOUS
    <3>. QED  BY <3>1 DEF Tasks, TaskStatus, TerminalTask
  <2>. HIDE DEF t
  <2>4. LedgerFits(m, start) /\ Follows(upTo[k], m, t, "skipped")
    BY <1>3, <2>1, <2>3, ApplyFits
  <2>. HIDE DEF m
  <2>5. \A i \in 1..(k + 1) : i \in 1..k \/ i = k + 1
    OBVIOUS
  <2>6. CASE upTo[k].stop
    <3>1. upTo[k + 1] = upTo[k]
      BY <2>2, <2>6
    <3>2. upTo[k].open = {} => upTo[k].refused # <<>>
      BY <2>1, <2>6 DEF LedgerFits
    <3>. QED  BY <2>1, <3>1, <3>2 DEF Ended
  <2>7. CASE ~upTo[k].stop
    <3>1. upTo[k + 1] = m
      BY <2>2, <2>7
    <3>2. Ended(m, k + 1)
      <4>. SUFFICES ASSUME m.refused = <<>>, m.open = {}, NEW i \in 1..(k + 1)
                    PROVE  m.tasks[ExecutionOrder[i]].status \in TerminalTask
        BY DEF Ended
      <4>1. /\ upTo[k].open = {} /\ upTo[k].refused = <<>>
            /\ m.tasks[t].status \in TerminalTask
            /\ \A u \in Tasks \ {t} : m.tasks[u] = upTo[k].tasks[u]
        BY <2>3, <2>4 DEF Follows
      <4>2. \A j \in 1..k : upTo[k].tasks[ExecutionOrder[j]].status \in TerminalTask
        BY <2>1, <4>1 DEF Ended
      <4>3. ExecutionOrder[i] \in Tasks
        <5>1. i \in 1..6
          OBVIOUS
        <5>. QED  BY <5>1 DEF Tasks
      <4>4. CASE ExecutionOrder[i] = t
        BY <4>1, <4>4
      <4>5. CASE ExecutionOrder[i] # t
        <5>1. i \in 1..k
          BY <2>5, <4>5 DEF t
        <5>. QED  BY <4>1, <4>2, <4>3, <4>5, <5>1
      <4>. QED  BY <4>4, <4>5
    <3>3. m.open = l.open
      BY <2>1, <2>4 DEF Follows
    <3>. QED  BY <2>4, <3>1, <3>2, <3>3
  <2>. QED  BY <2>6, <2>7
<1>7. \A k \in Nat : k \in Q
  <2>. HIDE DEF Q
  <2>. QED  BY <1>5, <1>6, SetInduction
<1>8. Fits(5)
  BY <1>7
<1>. QED  BY <1>2, <1>8

\* finalize_run_tasks brings all six to an end, or something was refused.
LEMMA FinalizeFits ==
    ASSUME NEW start, NEW l, LedgerFits(l, start)
    PROVE  LedgerFits(Finalize(l), start) /\ Finalize(l).open = l.open /\ Ended(Finalize(l), 6)
<1>. DEFINE settled == Settle(l)
            running == Apply(settled, "report", "running", FALSE)
            ended   == Apply(running, "report", "completed", FALSE)
            m       == Finalize(l)
<1>1. m = IF settled.stop THEN settled ELSE IF running.stop THEN running ELSE ended
  BY DEF Finalize
<1>2. /\ "report" \in Tasks /\ "running" \in TaskStatus /\ "completed" \in TaskStatus
      /\ "completed" \in TerminalTask /\ ExecutionOrder[6] = "report"
  BY DEF Tasks, ExecutionOrder, TaskStatus, TerminalTask
<1>3. LedgerFits(settled, start) /\ settled.open = l.open /\ Ended(settled, 5)
  BY SettleFits
<1>. HIDE DEF settled
<1>4. LedgerFits(running, start) /\ Follows(settled, running, "report", "running")
  BY <1>2, <1>3, ApplyFits
<1>. HIDE DEF running
<1>5. LedgerFits(ended, start) /\ Follows(running, ended, "report", "completed")
  BY <1>2, <1>4, ApplyFits
<1>. HIDE DEF ended, m
<1>6. CASE settled.stop
  <2>1. m = settled
    BY <1>1, <1>6
  <2>2. settled.open = {} => settled.refused # <<>>
    BY <1>3, <1>6 DEF LedgerFits
  <2>. QED  BY <1>3, <2>1, <2>2 DEF Ended, m
<1>7. CASE ~settled.stop /\ running.stop
  <2>1. m = running
    BY <1>1, <1>7
  <2>2. running.open = {} => running.refused # <<>>
    BY <1>4, <1>7 DEF LedgerFits
  <2>. QED  BY <1>3, <1>4, <2>1, <2>2 DEF Ended, Follows, m
<1>8. CASE ~settled.stop /\ ~running.stop
  <2>1. m = ended
    BY <1>1, <1>8
  <2>2. ended.open = l.open
    BY <1>3, <1>4, <1>5 DEF Follows
  <2>3. Ended(ended, 6)
    <3>. SUFFICES ASSUME ended.refused = <<>>, ended.open = {}, NEW i \in 1..6
                  PROVE  ended.tasks[ExecutionOrder[i]].status \in TerminalTask
      BY DEF Ended
    <3>1. /\ running.open = {} /\ running.refused = <<>>
          /\ ended.tasks["report"].status \in TerminalTask
          /\ \A u \in Tasks \ {"report"} : ended.tasks[u] = running.tasks[u]
      BY <1>2, <1>5 DEF Follows
    <3>2. /\ settled.open = {} /\ settled.refused = <<>>
          /\ \A u \in Tasks \ {"report"} : running.tasks[u] = settled.tasks[u]
      BY <1>4, <3>1 DEF Follows
    <3>3. \A j \in 1..5 : settled.tasks[ExecutionOrder[j]].status \in TerminalTask
      BY <1>3, <3>2 DEF Ended
    <3>4. ExecutionOrder[i] \in Tasks
      BY DEF Tasks
    <3>5. i \in 1..5 \/ i = 6
      OBVIOUS
    <3>. QED  BY <1>2, <3>1, <3>2, <3>3, <3>4, <3>5
  <2>. QED  BY <1>5, <2>1, <2>2, <2>3 DEF m
<1>. QED  BY <1>6, <1>7, <1>8

(***************************************************************************)
(* The nodes that move tasks.                                              *)
(***************************************************************************)
LEMMA NewLedgerFits ==
    ASSUME NEW tbl \in Tables, NEW open \in SUBSET (Tasks \cup {NoTask})
    PROVE  LedgerFits(Ledger(tbl, open), tbl)
BY DEF LedgerFits, Ledger, LedgerRecord

LEMMA OpenTasksType ==
    ASSUME ErrorsFit(errors)
    PROVE  OpenTasks \in SUBSET (Tasks \cup {NoTask})
<1>1. \A i \in DOMAIN errors : errors[i].failure.task \in Tasks \cup {NoTask}
  BY ProblemShape DEF ErrorsFit, Sound, Entry
<1>. QED  BY <1>1 DEF OpenTasks

LEMMA KnownIsTable ==
    ASSUME TablesFit(tasks, todos)
    PROVE  Known \in Tables
<1>1. NewTasks \in Tables
  BY DEF NewTasks, Tables, TaskRow, TaskStatus
<1>. QED  BY <1>1 DEF Known, TablesFit, Tables

\* What a node does with its ledger asks only this of it.
LedgerMoves(l) ==
    /\ l.tasks # <<>> => l.tasks \in Tables
    /\ l.refused \in Seq(Refusals)

LEMMA FittingMoves ==
    ASSUME NEW start, NEW l, LedgerFits(l, start)
    PROVE  LedgerMoves(l)
BY DEF LedgerFits, LedgerMoves, LedgerRecord

LEMMA TasksLedgerMoves ==
    ASSUME TablesFit(tasks, todos), NEW open
    PROVE  LedgerMoves(Ledger(tasks, open))
BY DEF LedgerMoves, Ledger, TablesFit, Tables

LEMMA SyncedMoves ==
    ASSUME RunInvariant, NEW t \in Tasks, NEW next, next \in Tasks \/ t = "recommendation"
    PROVE  LedgerMoves(Synced(t, next))
<1>. DEFINE completed == Apply(Ledger(Known, OpenTasks), t, "completed", FALSE)
            failing == \E i \in DOMAIN errors :
                          Unresolved(errors[i]) /\ errors[i].failure.stage = t
            review == IF found.review THEN "running" ELSE "skipped"
            judged == Apply(completed, "human_review", review, FALSE)
            going == Apply(completed, next, "running", FALSE)
<1>1. Synced(t, next) = IF failing THEN Ledger(tasks, OpenTasks)
                        ELSE IF completed.stop \/ (t = "inventory" /\ ~found.documents)
                        THEN completed
                        ELSE IF t = "recommendation" THEN judged ELSE going
  BY DEF Synced
<1>2. TablesFit(tasks, todos) /\ ErrorsFit(errors)
  BY DEF RunInvariant
<1>3. LedgerFits(Ledger(Known, OpenTasks), Known)
  BY <1>2, KnownIsTable, OpenTasksType, NewLedgerFits
<1>4. "completed" \in TaskStatus /\ review \in TaskStatus /\ "running" \in TaskStatus
      /\ "human_review" \in Tasks
  BY DEF TaskStatus, TerminalTask, Tasks, ExecutionOrder
<1>. HIDE DEF review
<1>5. LedgerFits(completed, Known)
  BY <1>3, <1>4, ApplyFits
<1>. HIDE DEF completed
<1>6. LedgerFits(judged, Known) /\ (next \in Tasks => LedgerFits(going, Known))
  BY <1>4, <1>5, ApplyFits
<1>. HIDE DEF judged, going, failing
<1>7. LedgerMoves(Ledger(tasks, OpenTasks))
  BY <1>2, TasksLedgerMoves
<1>8. LedgerMoves(completed) /\ LedgerMoves(judged) /\ (next \in Tasks => LedgerMoves(going))
  BY <1>5, <1>6, FittingMoves
<1>. QED  BY <1>1, <1>7, <1>8

LEMMA RefusalIsProblem ==
    ASSUME NEW t \in Tasks, NEW s \in TaskStatus
    PROVE  Refusal(t, s) \in Problem /\ Refusal(t, s).stage = "team_orchestration"
<1>1. Refusal(t, s) \in Problem
  BY DEF Problem
<1>. QED  BY <1>1 DEF Refusal

LEMMA RefusedRecords ==
    ASSUME NEW errs, ErrorsFit(errs), NEW refused \in Seq(Refusals)
    PROVE  /\ ErrorsFit(Refused(errs, refused))
           /\ Grows(errs, Refused(errs, refused))
           /\ refused = <<>> => Refused(errs, refused) = errs
           /\ refused # <<>> => \E f : /\ IsOpen(Refused(errs, refused), f)
                                       /\ f.stage = "team_orchestration"
<1>. DEFINE n  == Len(refused)
            fs == [i \in 1..n |-> Refusal(refused[i][1], refused[i][2])]
<1>1. n \in Nat /\ \A i \in 1..n : refused[i] \in Refusals
  OBVIOUS
<1>2. \A i \in 1..n : refused[i][1] \in Tasks /\ refused[i][2] \in TaskStatus
  BY <1>1 DEF Refusals
<1>3. \A i \in 1..n : fs[i] \in Problem /\ fs[i].stage = "team_orchestration"
  BY <1>2, RefusalIsProblem
<1>4. fs = [i \in 1..n |-> fs[i]]
  OBVIOUS
<1>5. Refused(errs, refused) = RecordedAll(errs, fs)
  BY DEF Refused
<1>6. refused = <<>> <=> n = 0
  OBVIOUS
<1>. HIDE DEF fs, n
<1>7. fs \in Seq(Problem) /\ Len(fs) = n
  <2>1. fs \in [1..n -> Problem]
    BY <1>3, <1>4
  <2>. QED  BY <1>1, <2>1
<1>8. n = 0 => fs = <<>>
  BY <1>7
<1>9. /\ ErrorsFit(RecordedAll(errs, fs)) /\ Grows(errs, RecordedAll(errs, fs))
      /\ \A i \in 1..n : IsOpen(RecordedAll(errs, fs), fs[i])
      /\ fs = <<>> => RecordedAll(errs, fs) = errs
  BY <1>7, RecordedAllRecords
<1>10. n # 0 => 1 \in 1..n
  BY <1>1
<1>. QED  BY <1>3, <1>5, <1>6, <1>8, <1>9, <1>10

LEMMA RoutedFinds ==
    ASSUME NEW n \in RetryNodes \cup {"initialize_run"}, NEW errs, NEW data, NEW r
    PROVE  NodeFinds(Routed(n, errs, data), r, errs)
<1>1. CASE Routed(n, errs, data) = "select_recovery_error" /\ HasUnsettled(errs)
  BY <1>1 DEF NodeFinds, TargetNodes
<1>2. CASE Routed(n, errs, data) \notin RecoveryNodes
  BY <1>2, Elsewhere
<1>. QED  BY <1>1, <1>2, RoutedWithReason

LEMMA StillFits ==
    ASSUME NEW r, NEW errs, RecoveryFits(r, errs), NEW more, Grows(errs, more)
    PROVE  RecoveryFits(r, more)
BY DEF RecoveryFits, Grows, Has

LEMMA GrowsSame == \A errs : Grows(errs, errs)
  BY DEF Grows, Has

LEMMA TodosFromFits == \A t : DOMAIN TodosFrom(t) = Todos
  BY DEF TodosFrom

LEMMA MovedKeeps ==
    ASSUME RunInvariant, NEW n \in RetryNodes, NEW l, LedgerMoves(l), Moved(n, l)
    PROVE  RunInvariant'
<1>1. /\ tasks' = l.tasks /\ todos' = Projected(l)
      /\ errors' = Refused(errors, l.refused)
      /\ pc' = Routed(n, errors', found)
      /\ status' = status /\ recovery' = recovery /\ report' = report
  BY DEF Moved
<1>2. ErrorsFit(errors') /\ Grows(errors, errors')
  BY <1>1, RefusedRecords DEF RunInvariant, LedgerMoves
<1>3. RecoveryFits(recovery', errors')
  BY <1>1, <1>2, StillFits DEF RunInvariant
<1>4. NodeFinds(pc', recovery', errors')
  BY <1>1, RoutedFinds
<1>5. TablesFit(tasks', todos')
  <2>1. todos' = todos \/ DOMAIN todos' = Todos
    BY <1>1, TodosFromFits DEF Projected
  <2>2. tasks' # <<>> => tasks' \in [Tasks -> TaskRow]
    BY <1>1 DEF LedgerMoves, Tables
  <2>3. todos # <<>> => DOMAIN todos = Todos
    BY DEF RunInvariant, TablesFit
  <2>. QED  BY <2>1, <2>2, <2>3 DEF TablesFit
<1>. QED  BY <1>1, <1>2, <1>3, <1>4, <1>5 DEF RunInvariant

LEMMA TaskStepKeeps ==
    ASSUME RunInvariant, TaskStep
    PROVE  RunInvariant'
<1>1. TablesFit(tasks, todos) /\ ErrorsFit(errors)
  BY DEF RunInvariant
<1>2. OpenTasks \in SUBSET (Tasks \cup {NoTask})
  BY <1>1, OpenTasksType
<1>3. LedgerFits(Ledger(Known, OpenTasks), Known)
  BY <1>1, <1>2, KnownIsTable, NewLedgerFits
<1>4. {"inventory", "version_analysis", "evidence", "recommendation", "human_review"}
        \subseteq Tasks
  BY DEF Tasks, ExecutionOrder
<1>5. "completed" \in TaskStatus /\ "running" \in TaskStatus
  BY DEF TaskStatus, TerminalTask
<1>6. {"plan_run_tasks", "sync_inventory_task_status", "sync_version_task_status",
       "sync_evidence_task_status", "sync_recommendation_task_status",
       "sync_human_review_task_status", "finalize_run_tasks"} \subseteq RetryNodes
  BY NamesOfRetryNodes
<1>7. CASE PlanRunTasks
  <2>. DEFINE l == Apply(Ledger(Known, OpenTasks), "inventory", "running", FALSE)
  <2>1. LedgerFits(l, Known)
    BY <1>3, <1>4, <1>5, ApplyFits
  <2>2. Moved("plan_run_tasks", l)
    BY <1>7 DEF PlanRunTasks
  <2>. HIDE DEF l
  <2>. QED  BY <1>6, <2>1, <2>2, FittingMoves, MovedKeeps
<1>8. CASE SyncInventory
  <2>1. LedgerMoves(Synced("inventory", "version_analysis"))
    BY <1>4, SyncedMoves
  <2>. QED  BY <1>6, <1>8, <2>1, MovedKeeps DEF SyncInventory
<1>9. CASE SyncVersion
  <2>1. LedgerMoves(Synced("version_analysis", "evidence"))
    BY <1>4, SyncedMoves
  <2>. QED  BY <1>6, <1>9, <2>1, MovedKeeps DEF SyncVersion
<1>10. CASE SyncEvidence
  <2>1. LedgerMoves(Synced("evidence", "recommendation"))
    BY <1>4, SyncedMoves
  <2>. QED  BY <1>6, <1>10, <2>1, MovedKeeps DEF SyncEvidence
<1>11. CASE SyncRecommendation
  <2>1. LedgerMoves(Synced("recommendation", "none"))
    BY <1>4, SyncedMoves
  <2>. QED  BY <1>6, <1>11, <2>1, MovedKeeps DEF SyncRecommendation
<1>12. CASE SyncHumanReview
  <2>. DEFINE l == Apply(Ledger(Known, OpenTasks), "human_review", "completed", FALSE)
  <2>1. LedgerFits(l, Known)
    BY <1>3, <1>4, <1>5, ApplyFits
  <2>2. Moved("sync_human_review_task_status", l)
    BY <1>12 DEF SyncHumanReview
  <2>. HIDE DEF l
  <2>. QED  BY <1>6, <2>1, <2>2, FittingMoves, MovedKeeps
<1>13. CASE FinalizeRunTasks
  <2>1. CASE tasks = <<>>
    <3>1. Moved("finalize_run_tasks", Ledger(tasks, {}))
      BY <1>13, <2>1 DEF FinalizeRunTasks
    <3>2. LedgerMoves(Ledger(tasks, {}))
      BY <1>1, TasksLedgerMoves
    <3>. QED  BY <1>6, <3>1, <3>2, MovedKeeps
  <2>2. CASE tasks # <<>>
    <3>. DEFINE l == Finalize(Ledger(tasks, OpenTasks))
    <3>1. Moved("finalize_run_tasks", l)
      BY <1>13, <2>2 DEF FinalizeRunTasks
    <3>2. tasks \in Tables
      BY <1>1, <2>2 DEF TablesFit, Tables
    <3>3. LedgerFits(l, tasks)
      BY <1>2, <3>2, NewLedgerFits, FinalizeFits
    <3>. HIDE DEF l
    <3>. QED  BY <1>6, <3>1, <3>3, FittingMoves, MovedKeeps
  <2>. QED  BY <2>1, <2>2
<1>. QED  BY <1>7, <1>8, <1>9, <1>10, <1>11, <1>12, <1>13 DEF TaskStep

(***************************************************************************)
(* The other nodes of the top graph.                                       *)
(***************************************************************************)
TopNodes == RetryNodes \cup {"initialize_run"}

LEMMA FailureAtNode ==
    ASSUME NEW n, NEW raised, NEW f \in FailuresAt(n, raised)
    PROVE  /\ f \in Problem /\ f.at = n /\ f.raised = raised
           /\ f.raised => f.node = n
<1>1. f \in Failures /\ f.at = n /\ f.raised = raised
  BY DEF FailuresAt
<1>2. f \in Problem
  BY <1>1, FailuresAssumption DEF Problem
<1>3. f.raised => f.node = n
  BY <1>1, FailuresAssumption
<1>. QED  BY <1>1, <1>2, <1>3

\* An ordinary node leaves the channel as it is, or records what failed.
LEMMA ChannelKeeps ==
    ASSUME RunInvariant, NEW n \in TopNodes, NEW more, ErrorsFit(more), Grows(errors, more), NEW data
    PROVE  RecoveryFits(recovery, more) /\ NodeFinds(Routed(n, more, data), recovery, more)
BY StillFits, RoutedFinds DEF RunInvariant, TopNodes

LEMMA RecordedOrNot ==
    ASSUME RunInvariant, NEW n,
           errors' = errors \/ \E f \in FailuresAt(n, FALSE) : errors' = Recorded(errors, f)
    PROVE  ErrorsFit(errors') /\ Grows(errors, errors')
<1>1. CASE errors' = errors
  BY <1>1, GrowsSame DEF RunInvariant
<1>2. CASE \E f \in FailuresAt(n, FALSE) : errors' = Recorded(errors, f)
  <2>1. PICK f \in FailuresAt(n, FALSE) : errors' = Recorded(errors, f)
    BY <1>2
  <2>2. Records(errors, Recorded(errors, f), f)
    BY FailureAtNode, RecordedRecords DEF RunInvariant
  <2>. QED  BY <2>1, <2>2 DEF Records
<1>. QED  BY <1>1, <1>2

LEMMA WorksKeeps ==
    ASSUME RunInvariant, NEW n \in TopNodes, Works(n)
    PROVE  RunInvariant'
<1>1. /\ errors' = errors \/ \E f \in FailuresAt(n, FALSE) : errors' = Recorded(errors, f)
      /\ pc' = Routed(n, errors', found)
      /\ status' = status /\ tasks' = tasks /\ recovery' = recovery
      /\ todos' = todos /\ report' = report
  BY DEF Works
<1>2. ErrorsFit(errors') /\ Grows(errors, errors')
  BY <1>1, RecordedOrNot
<1>3. RecoveryFits(recovery, errors') /\ NodeFinds(Routed(n, errors', found), recovery, errors')
  BY <1>2, ChannelKeeps
<1>. QED  BY <1>1, <1>2, <1>3 DEF RunInvariant

LEMMA HookPhaseKeeps ==
    ASSUME RunInvariant, NEW n \in TopNodes, HookPhase(n)
    PROVE  RunInvariant'
<1>0. PICK k \in 0..budget : \E failing \in [1..k -> FailuresAt(n, FALSE)] :
          errors' = RecordedAll(errors, failing)
  BY DEF HookPhase
<1>1. PICK failing \in [1..k -> FailuresAt(n, FALSE)] : errors' = RecordedAll(errors, failing)
  BY <1>0
<1>2. /\ pc' = Routed(n, errors', found)
      /\ status' = status /\ tasks' = tasks /\ recovery' = recovery
      /\ todos' = todos /\ report' = report
  BY DEF HookPhase
<1>3. failing \in Seq(Problem)
  <2>1. k \in Nat
    BY <1>0
  <2>2. failing \in [1..k -> Problem]
    BY <1>1, FailureAtNode
  <2>. QED  BY <2>1, <2>2
<1>4. ErrorsFit(errors') /\ Grows(errors, errors')
  BY <1>1, <1>3, RecordedAllRecords DEF RunInvariant
<1>5. RecoveryFits(recovery, errors') /\ NodeFinds(Routed(n, errors', found), recovery, errors')
  BY <1>4, ChannelKeeps
<1>. QED  BY <1>2, <1>4, <1>5 DEF RunInvariant

LEMMA DelegatesKeeps ==
    ASSUME RunInvariant, NEW n \in TopNodes, NEW outcome, Delegates(n, outcome)
    PROVE  RunInvariant'
<1>1. /\ errors' = errors \/ \E f \in FailuresAt(n, FALSE) : errors' = Recorded(errors, f)
      /\ todos' \in {todos, TodosFrom(tasks)}
      /\ pc' = Routed(n, errors', found')
      /\ status' = status /\ tasks' = tasks /\ recovery' = recovery /\ report' = report
  BY DEF Delegates
<1>2. ErrorsFit(errors') /\ Grows(errors, errors')
  BY <1>1, RecordedOrNot
<1>3. RecoveryFits(recovery, errors') /\ NodeFinds(Routed(n, errors', found'), recovery, errors')
  BY <1>2, ChannelKeeps
<1>4. TablesFit(tasks', todos')
  BY <1>1, TodosFromFits DEF RunInvariant, TablesFit
<1>. QED  BY <1>1, <1>2, <1>3, <1>4 DEF RunInvariant

\* What settling the error that was being retried makes of the two channels.
LEMMA AfterSuccessFits ==
    ASSUME NEW errs, ErrorsFit(errs), RecoveryFits(recovery, errs), NEW repeated,
           AfterSuccess(errs, repeated)
    PROVE  ErrorsFit(errors') /\ RecoveryFits(recovery', errors')
<1>1. CASE ~Settling(repeated)
  BY <1>1 DEF AfterSuccess
<1>2. CASE Settling(repeated)
  <2>. DEFINE f == recovery.current
              e == [EntryOf(errs, f) EXCEPT !.status = "recovered", !.fatal = FALSE]
  <2>1. /\ errors' = Merged(errs, e)
        /\ recovery' = [recovery EXCEPT !.pending = Without(@, {f}),
                                        !.current = NoFailure, !.action = "none",
                                        !.retryAt = NoNode, !.resumeAfter = NoNode,
                                        !.fallback = NoFallback]
    BY <1>2 DEF AfterSuccess
  <2>2. recovery \in Recovery /\ Has(errs, f)
    BY <1>2 DEF Settling, RecoveryFits
  <2>3. EntryOf(errs, f) \in Entry
    BY <2>2, EntryFound DEF Sound
  <2>4. e \in Entry /\ e.fatal = FALSE /\ SameCounts(e, EntryOf(errs, f))
    BY <2>3 DEF Entry, ErrorStatus, Settled, SameCounts
  <2>. HIDE DEF e
  <2>5. ErrorsFit(errors')
    <3>1. Sound(e)
      BY <2>4 DEF Sound
    <3>. QED  BY <2>1, <2>2, <2>4, <3>1, RewrittenFits
  <2>6. Without(recovery.pending, {f}) \in Seq(Problem)
    BY <2>2, WithoutIsSeq DEF Recovery
  <2>7. recovery' \in Recovery /\ recovery'.current = NoFailure
    BY <2>1, <2>2, <2>6 DEF Recovery, Action, Degradation
  <2>. QED  BY <2>5, <2>7 DEF RecoveryFits
<1>. QED  BY <1>1, <1>2

LEMMA EndsKeeps ==
    ASSUME RunInvariant, NEW n \in TopNodes, NEW done, NEW partly, Ends(n, done, partly)
    PROVE  RunInvariant'
<1>1. /\ pc' = Routed(n, errors', found')
      /\ status' = status /\ tasks' = tasks /\ todos' = todos /\ report' = report
  BY DEF Ends
<1>2. ErrorsFit(errors') /\ RecoveryFits(recovery', errors')
  <2>1. CASE AfterSuccess(errors, NoFailure)
    BY <2>1, AfterSuccessFits DEF RunInvariant
  <2>2. CASE \E f \in FailuresAt(n, FALSE) : AfterSuccess(Recorded(errors, f), f)
    <3>1. PICK f \in FailuresAt(n, FALSE) : AfterSuccess(Recorded(errors, f), f)
      BY <2>2
    <3>2. Records(errors, Recorded(errors, f), f)
      BY FailureAtNode, RecordedRecords DEF RunInvariant
    <3>3. ErrorsFit(Recorded(errors, f)) /\ RecoveryFits(recovery, Recorded(errors, f))
      BY <3>2, StillFits DEF RunInvariant, Records
    <3>. QED  BY <3>1, <3>3, AfterSuccessFits
  <2>. QED  BY <2>1, <2>2 DEF Ends
<1>3. NodeFinds(pc', recovery', errors')
  BY <1>1, RoutedFinds DEF TopNodes
<1>. QED  BY <1>1, <1>2, <1>3 DEF RunInvariant

LEMMA RaisesKeeps ==
    ASSUME RunInvariant, NEW n \in RetryNodes, Raises(n)
    PROVE  RunInvariant'
<1>1. PICK f \in FailuresAt(n, TRUE) :
          /\ errors' = Captured(errors, f)
          /\ LET target == RetryNode(f.node, f.stage, f.task)
             IN  recovery' = [recovery EXCEPT !.current = f, !.pending = AddPending(@, f),
                                              !.action = "none", !.retryAt = target,
                                              !.resumeAfter = After(target)]
  BY DEF Raises
<1>2. /\ status' = "recovering" /\ pc' = "select_recovery_error"
      /\ tasks' = tasks /\ todos' = todos /\ report' = report
  BY DEF Raises
<1>3. f \in Problem /\ f.raised /\ f.node = n
  BY FailureAtNode
<1>4. RetryNode(f.node, f.stage, f.task) = n
  BY <1>3, RetryNodeIsOne
<1>5. Records(errors, Captured(errors, f), f)
  BY <1>3, CapturedRecords DEF RunInvariant
<1>6. ErrorsFit(errors') /\ IsOpen(errors', f)
  BY <1>1, <1>5 DEF Records
<1>7. Has(errors', f) /\ HasUnsettled(errors')
  BY <1>6 DEF IsOpen, Has, HasUnsettled, Unresolved
<1>8. recovery \in Recovery /\ AddPending(recovery.pending, f) \in Seq(Problem)
  BY <1>3, AddPendingIsSeq DEF RunInvariant, RecoveryFits, Recovery
<1>9. n \in RetryNodes /\ After(n) \in LineNodes
  BY RetryNodesOnLines
<1>10. recovery' = [recovery EXCEPT !.current = f, !.pending = AddPending(@, f),
                                    !.action = "none", !.retryAt = n, !.resumeAfter = After(n)]
  BY <1>1, <1>4
<1>11. recovery' \in Recovery /\ recovery'.current = f
  BY <1>3, <1>8, <1>9, <1>10 DEF Recovery, Action
<1>12. RecoveryFits(recovery', errors')
  BY <1>7, <1>11 DEF RecoveryFits
<1>13. NodeFinds(pc', recovery', errors')
  BY <1>2, <1>7 DEF NodeFinds, TargetNodes
<1>. QED  BY <1>2, <1>6, <1>12, <1>13 DEF RunInvariant, StatusKind

\* The nodes that leave the error channel and the recovery alone.
LEMMA QuietKeeps ==
    ASSUME RunInvariant, UNCHANGED <<tasks, errors, recovery, todos>>,
           pc' \notin RecoveryNodes, status' \in StatusKind, report' \in ReportKind
    PROVE  RunInvariant'
<1>1. NodeFinds(pc', recovery', errors')
  BY Elsewhere
<1>. QED  BY <1>1 DEF RunInvariant

LEMMA GenerateKeeps ==
    ASSUME RunInvariant, NEW n, NEW kind \in ReportKind, NEW next, next \notin RecoveryNodes,
           Generate(n, kind, next)
    PROVE  RunInvariant'
<1>1. UNCHANGED <<tasks, errors, recovery, todos>> /\ status' \in StatusKind
  BY DEF Generate, RunInvariant
<1>2. pc' \notin RecoveryNodes /\ report' \in ReportKind
  BY DEF Generate, RunInvariant, RecoveryNodes
<1>. QED  BY <1>1, <1>2, QuietKeeps

LEMMA BusinessStepKeeps ==
    ASSUME RunInvariant, BusinessStep
    PROVE  RunInvariant'
<1>1. {"run_inventory_subgraph", "run_context_compact_after_inventory",
       "run_version_analysis_subgraph", "run_evidence_subgraph",
       "run_context_compact_after_evidence", "run_recommendation_subgraph",
       "dispatch_content_subagent_task", "dispatch_evidence_subagent_task",
       "dispatch_recommendation_judge_task"} \subseteq RetryNodes
  BY NamesOfRetryNodes
<1>2. ASSUME NEW n \in RetryNodes, NEW done, NEW partly, Boundary(n, done, partly)
      PROVE  RunInvariant'
  BY <1>2, EndsKeeps, RaisesKeeps DEF Boundary, TopNodes
<1>3. CASE \/ RunInventorySubgraph \/ RunContextCompactAfterInventory
           \/ RunVersionAnalysisSubgraph \/ RunEvidenceSubgraph
           \/ RunContextCompactAfterEvidence \/ RunRecommendationSubgraph
  <2>1. CASE RunInventorySubgraph
    BY <1>1, <1>2, <2>1 DEF RunInventorySubgraph
  <2>2. CASE RunContextCompactAfterInventory
    BY <1>1, <1>2, <2>2 DEF RunContextCompactAfterInventory
  <2>3. CASE RunVersionAnalysisSubgraph
    BY <1>1, <1>2, <2>3 DEF RunVersionAnalysisSubgraph
  <2>4. CASE RunEvidenceSubgraph
    BY <1>1, <1>2, <2>4 DEF RunEvidenceSubgraph
  <2>5. CASE RunContextCompactAfterEvidence
    BY <1>1, <1>2, <2>5 DEF RunContextCompactAfterEvidence
  <2>6. CASE RunRecommendationSubgraph
    BY <1>1, <1>2, <2>6 DEF RunRecommendationSubgraph
  <2>. QED  BY <1>3, <2>1, <2>2, <2>3, <2>4, <2>5, <2>6
<1>4. CASE DispatchContentSubagentTask
  BY <1>1, <1>4, DelegatesKeeps DEF DispatchContentSubagentTask, TopNodes
<1>5. CASE DispatchEvidenceSubagentTask
  BY <1>1, <1>5, DelegatesKeeps DEF DispatchEvidenceSubagentTask, TopNodes
<1>6. CASE DispatchRecommendationJudgeTask
  BY <1>1, <1>6, DelegatesKeeps DEF DispatchRecommendationJudgeTask, TopNodes
<1>7. CASE PrepareHumanReview
  <2>1. UNCHANGED <<tasks, errors, recovery, todos>> /\ status' \in StatusKind
        /\ pc' = "request_human_review" /\ report' = report
    BY <1>7 DEF PrepareHumanReview, runVars, StatusKind
  <2>. QED  BY <2>1, QuietKeeps DEF RunInvariant, RecoveryNodes
<1>8. CASE AnswerReview
  <2>1. UNCHANGED <<tasks, errors, recovery, todos>> /\ status' \in StatusKind
        /\ pc' = "sync_human_review_task_status" /\ report' = report
    BY <1>8 DEF AnswerReview, StatusKind
  <2>. QED  BY <2>1, QuietKeeps DEF RunInvariant, RecoveryNodes
<1>9. CASE \/ GenerateFailureReport \/ GenerateNoDataReport
           \/ GenerateGovernanceReport \/ GenerateLifecycleFailureReport
  <2>1. {"failure", "no_data", "governance", "lifecycle"} \subseteq ReportKind
    BY DEF ReportKind
  <2>2. "validate_report_result" \notin RecoveryNodes /\ "finalize_run" \notin RecoveryNodes
    BY DEF RecoveryNodes
  <2>3. CASE GenerateFailureReport
    BY <2>1, <2>2, <2>3, GenerateKeeps DEF GenerateFailureReport
  <2>4. CASE GenerateNoDataReport
    BY <2>1, <2>2, <2>4, GenerateKeeps DEF GenerateNoDataReport
  <2>5. CASE GenerateGovernanceReport
    BY <2>1, <2>2, <2>5, GenerateKeeps DEF GenerateGovernanceReport
  <2>6. CASE GenerateLifecycleFailureReport
    BY <2>1, <2>2, <2>6, GenerateKeeps DEF GenerateLifecycleFailureReport
  <2>. QED  BY <1>9, <2>3, <2>4, <2>5, <2>6
<1>. QED  BY <1>3, <1>4, <1>5, <1>6, <1>7, <1>8, <1>9 DEF BusinessStep

LEMMA LifecycleStepKeeps ==
    ASSUME RunInvariant, LifecycleStep
    PROVE  RunInvariant'
<1>1. {"initialize_run", "validate_request", "load_system_prompt", "recall_long_term_memory",
       "load_skill_registry", "validate_report_result", "persist_long_term_memory",
       "execute_before_run_hooks", "execute_after_run_hooks"} \subseteq TopNodes
  BY NamesOfRetryNodes DEF TopNodes
<1>2. CASE \/ InitializeRun \/ ValidateRequest \/ LoadSystemPrompt \/ RecallLongTermMemory
           \/ LoadSkillRegistry \/ ValidateReportResult \/ PersistLongTermMemory
  BY <1>1, <1>2, WorksKeeps
     DEF InitializeRun, ValidateRequest, LoadSystemPrompt, RecallLongTermMemory,
         LoadSkillRegistry, ValidateReportResult, PersistLongTermMemory
<1>3. CASE ExecuteBeforeRunHooks \/ ExecuteAfterRunHooks
  BY <1>1, <1>3, HookPhaseKeeps DEF ExecuteBeforeRunHooks, ExecuteAfterRunHooks
<1>4. CASE FinalizeRun
  <2>1. UNCHANGED <<tasks, errors, recovery, todos>> /\ pc' = "ended" /\ report' = report
    BY <1>4 DEF FinalizeRun, runVars
  <2>2. status' \in StatusKind
    BY <1>4 DEF FinalizeRun, StatusKind
  <2>. QED  BY <2>1, <2>2, QuietKeeps DEF RunInvariant, RecoveryNodes
<1>. QED  BY <1>2, <1>3, <1>4 DEF LifecycleStep

(***************************************************************************)
(* The specification.                                                      *)
(***************************************************************************)
LEMMA InitFits == Init => RunInvariant
<1>. SUFFICES ASSUME Init PROVE RunInvariant
  OBVIOUS
<1>1. status \in StatusKind /\ report \in ReportKind /\ TablesFit(tasks, todos)
  BY DEF Init, StatusKind, ReportKind, TablesFit
<1>2. ErrorsFit(errors)
  BY DEF Init, ErrorsFit
<1>3. RecoveryFits(recovery, errors)
  BY DEF Init, NewRecovery, RecoveryFits, Recovery, Action, Degradation
<1>4. pc \notin RecoveryNodes
  BY DEF Init, RecoveryNodes
<1>. QED  BY <1>1, <1>2, <1>3, <1>4, Elsewhere DEF RunInvariant

LEMMA NextKeeps == RunInvariant /\ [Next]_vars => RunInvariant'
<1>. SUFFICES ASSUME RunInvariant, [Next]_vars PROVE RunInvariant'
  OBVIOUS
<1>1. CASE LifecycleStep
  BY <1>1, LifecycleStepKeeps
<1>2. CASE BusinessStep
  BY <1>2, BusinessStepKeeps
<1>3. CASE TaskStep
  BY <1>3, TaskStepKeeps
<1>4. CASE RecoveryNext /\ UNCHANGED runVars
  BY <1>4, RecoveryKeeps
<1>5. CASE UNCHANGED vars
  BY <1>5 DEF vars, recoveryVars, runVars, RunInvariant
<1>. QED  BY <1>1, <1>2, <1>3, <1>4, <1>5 DEF Next

\* The inductive invariant: every error has its own entry in the channel, an
\* entry that counts on from the last one of its node covers its automatic
\* retries, and each node of the recovery graph finds the error, the target and
\* the count it works with (src/app/nodes/error_recovery.py).
THEOREM RunKeepsInvariant == Spec => []RunInvariant
BY InitFits, NextKeeps, PTL DEF Spec

\* The channels hold what the state models say and the reducer of the error
\* channel keeps one entry for each error, for every policy and all failures.
THEOREM RunTypesAreKept == Spec => []RunTypeOK
<1>1. RunInvariant => RunTypeOK
  <2>. SUFFICES ASSUME RunInvariant PROVE RunTypeOK
    OBVIOUS
  <2>1. ErrorsFit(errors)
    BY DEF RunInvariant
  <2>2. ASSUME NEW i \in DOMAIN errors
        PROVE  /\ errors[i].status \in ErrorStatus
               /\ errors[i].fatal => errors[i].status \notin Settled
               /\ Cardinality(Positions(errors, errors[i].failure)) = 1
    <3>1. Sound(errors[i])
      BY <2>1 DEF ErrorsFit
    <3>2. Positions(errors, errors[i].failure) = {i}
      BY <2>1 DEF ErrorsFit, Positions
    <3>3. Cardinality({i}) = 1
      BY FS_Singleton
    <3>. QED  BY <3>1, <3>2, <3>3 DEF Sound, Entry
  <2>. QED  BY <2>2 DEF RunInvariant, RunTypeOK, StatusKind, TablesFit
<1>. QED  BY <1>1, RunKeepsInvariant, PTL

\* No router sends a run to the recovery graph for nothing: the selection finds
\* an open error whatever the run did before.
THEOREM RecoveryAlwaysHasWork == Spec => []RecoveryHasWork
<1>1. RunInvariant => RecoveryHasWork
  <2>. SUFFICES ASSUME RunInvariant, pc = "select_recovery_error" PROVE Selected # NoFailure
    BY DEF RecoveryHasWork
  <2>1. Selected \in Problem
    BY SelectedIsThere DEF RunInvariant, NodeFinds
  <2>. QED  BY <2>1, ProblemShape
<1>. QED  BY <1>1, RunKeepsInvariant, PTL

\* An error that no exception raised and whose node has no other one is retried
\* by itself as often as its policy allows, and no more, however often it comes
\* back and whatever happens in between.
THEOREM LoneErrorsAreBounded == Spec => []LoneRetriesBounded
<1>1. RunInvariant => LoneRetriesBounded
  <2>. SUFFICES ASSUME RunInvariant, NEW i \in DOMAIN errors,
                       ~errors[i].failure.raised,
                       ~\E j \in DOMAIN errors \ {i} : errors[j].failure.node = errors[i].failure.node
                                                       /\ errors[j].failure.task = errors[i].failure.task
                PROVE  errors[i].auto <= Policies[errors[i].failure.category].max
    BY DEF LoneRetriesBounded
  <2>1. Bounded(errors, errors[i])
    BY DEF RunInvariant, ErrorsFit
  <2>2. ~HasSibling(errors, errors[i].failure)
    BY DEF HasSibling
  <2>. QED  BY <2>1, <2>2 DEF Bounded, Within
<1>. QED  BY <1>1, RunKeepsInvariant, PTL

\* Each node has one action.
LEMMA FinalizationIsOneAction ==
    ASSUME Next, pc = "finalize_run_tasks"
    PROVE  FinalizeRunTasks
<1>1. ~LifecycleStep
  BY DEF LifecycleStep, InitializeRun, ExecuteBeforeRunHooks, ValidateRequest, LoadSystemPrompt,
         RecallLongTermMemory, LoadSkillRegistry, ValidateReportResult, PersistLongTermMemory,
         ExecuteAfterRunHooks, FinalizeRun, Works, HookPhase
<1>2. ~BusinessStep
  BY DEF BusinessStep, RunInventorySubgraph, RunContextCompactAfterInventory,
         DispatchContentSubagentTask, RunVersionAnalysisSubgraph, RunEvidenceSubgraph,
         DispatchEvidenceSubagentTask, RunContextCompactAfterEvidence, RunRecommendationSubgraph,
         DispatchRecommendationJudgeTask, PrepareHumanReview, AnswerReview,
         GenerateFailureReport, GenerateNoDataReport, GenerateGovernanceReport,
         GenerateLifecycleFailureReport, Boundary, Ends, Raises, Delegates, Generate
<1>3. ~RecoveryNext
  BY DEF RecoveryNext, SelectRecoveryError, DecideRecoveryAction, ScheduleRecoveryRetry,
         ApplyRecoveryFallback, PrepareRecoveryHumanInput, AnswerRecovery, MarkRecoveryAborted
<1>4. ~(PlanRunTasks \/ SyncInventory \/ SyncVersion \/ SyncEvidence
          \/ SyncRecommendation \/ SyncHumanReview)
  BY DEF PlanRunTasks, SyncInventory, SyncVersion, SyncEvidence, SyncRecommendation,
         SyncHumanReview, Moved
<1>. QED  BY <1>1, <1>2, <1>3, <1>4 DEF Next, TaskStep, Stopped

\* Six requests of which each may be refused: when none was, and none of their
\* tasks has an open error, all six tasks have come to an end; a refusal or an
\* open error stops the run at the router (src/app/nodes/lifecycle.py,
\* src/app/graphs/routers.py).
THEOREM FinalizationSettles == Spec => FinalizationSettlesTasks
<1>. DEFINE Settles ==
        (pc = "finalize_run_tasks" /\ pc' # "select_recovery_error" /\ tasks # <<>>) =>
          /\ \A t \in Tasks : tasks'[t].status \in TerminalTask
          /\ tasks' # tasks => todos' = TodosFrom(tasks')
<1>1. RunInvariant /\ [Next]_vars => [Settles]_vars
  <2>. SUFFICES ASSUME RunInvariant, Next, pc = "finalize_run_tasks",
                       pc' # "select_recovery_error", tasks # <<>>
                PROVE  /\ \A t \in Tasks : tasks'[t].status \in TerminalTask
                       /\ tasks' # tasks => todos' = TodosFrom(tasks')
    OBVIOUS
  <2>. DEFINE l == Finalize(Ledger(tasks, OpenTasks))
  <2>1. Moved("finalize_run_tasks", l)
    BY FinalizationIsOneAction DEF FinalizeRunTasks
  <2>2. ErrorsFit(errors) /\ tasks \in Tables
    BY DEF RunInvariant, TablesFit, Tables
  <2>3. LedgerFits(Ledger(tasks, OpenTasks), tasks)
    BY <2>2, OpenTasksType, NewLedgerFits
  <2>4. Ledger(tasks, OpenTasks).open = OpenTasks
    BY DEF Ledger
  <2>5. LedgerFits(l, tasks) /\ l.open = OpenTasks /\ Ended(l, 6)
    BY <2>3, <2>4, FinalizeFits
  <2>. HIDE DEF l
  <2>6. /\ tasks' = l.tasks /\ todos' = Projected(l)
        /\ errors' = Refused(errors, l.refused)
        /\ pc' = Routed("finalize_run_tasks", errors', found)
    BY <2>1 DEF Moved
  <2>7. \A i \in DOMAIN errors' : ~(/\ Unresolved(errors'[i])
                                    /\ errors'[i].failure.stage = "team_orchestration")
    <3>1. "finalize_run_tasks" \in TopNodes
      BY NamesOfRetryNodes DEF TopNodes
    <3>2. \A i \in DOMAIN errors' :
              Unresolved(errors'[i]) => ~StopsTheEnd("finalize_run_tasks", errors'[i].failure)
      BY <2>6, <3>1, RoutedWithReason DEF TopNodes
    <3>. QED  BY <3>2 DEF StopsTheEnd
  <2>8. l.refused \in Seq(Refusals)
    BY <2>5 DEF LedgerFits, LedgerRecord
  <2>9. l.refused = <<>>
    <3>2. l.refused # <<>> => \E f : IsOpen(errors', f) /\ f.stage = "team_orchestration"
      BY <2>2, <2>6, <2>8, RefusedRecords
    <3>. QED  BY <2>7, <3>2 DEF IsOpen
  <2>10. errors' = errors
    BY <2>2, <2>6, <2>9, <2>8, RefusedRecords
  <2>11. OpenTasks = {}
    BY <2>7, <2>10 DEF OpenTasks
  <2>12. \A i \in 1..6 : l.tasks[ExecutionOrder[i]].status \in TerminalTask
    BY <2>5, <2>9, <2>11 DEF Ended
  <2>13. \A t \in Tasks : tasks'[t].status \in TerminalTask
    BY <2>6, <2>12 DEF Tasks
  <2>14. ASSUME tasks' # tasks PROVE todos' = TodosFrom(tasks')
    <3>1. l.asked
      BY <2>5, <2>6, <2>14 DEF LedgerFits
    <3>. QED  BY <2>6, <3>1 DEF Projected
  <2>. QED  BY <2>13, <2>14
<1>. QED  BY <1>1, RunKeepsInvariant, PTL DEF Spec, FinalizationSettlesTasks
===============================================================================
