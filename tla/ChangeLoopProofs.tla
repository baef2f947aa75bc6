-------------------------- MODULE ChangeLoopProofs --------------------------
(***************************************************************************)
(* The change loop of one command: for any number of services with any     *)
(* limits, whatever a check or a change takes, it leaves no tail process,  *)
(* and gives a service up neither too early nor too late.                  *)
(***************************************************************************)
EXTENDS ChangeLoop, SequenceTheorems, FiniteSetTheorems, TLAPS

(***************************************************************************)
(* list.remove(), and lists without repetition.                            *)
(***************************************************************************)
\* What a list without its i-th element is.
LEMMA RemoveAtProperties ==
  ASSUME NEW S, NEW q \in Seq(S), NEW i \in 1..Len(q)
  PROVE  /\ RemoveAt(q, i) \in Seq(S)
         /\ Len(RemoveAt(q, i)) = Len(q) - 1
         /\ \A j \in 1..(Len(q) - 1) : RemoveAt(q, i)[j] = IF j < i THEN q[j] ELSE q[j + 1]
<1> DEFINE before == SubSeq(q, 1, i - 1)
           behind == SubSeq(q, i + 1, Len(q))
<1>1. Len(q) \in Nat
  BY LenProperties
<1>2. before \in Seq(S) /\ Len(before) = i - 1 /\ \A j \in 1..(i - 1) : before[j] = q[j]
  BY <1>1, SubSeqProperties
<1>3. behind \in Seq(S) /\ Len(behind) = Len(q) - i
      /\ \A j \in 1..(Len(q) - i) : behind[j] = q[j + i]
  BY <1>1, SubSeqProperties
<1>4. RemoveAt(q, i) = before \o behind
  BY DEF RemoveAt
<1> HIDE DEF before, behind
<1>5. /\ before \o behind \in Seq(S)
      /\ Len(before \o behind) = (i - 1) + (Len(q) - i)
      /\ \A j \in 1..((i - 1) + (Len(q) - i)) :
           (before \o behind)[j] = IF j <= i - 1 THEN before[j] ELSE behind[j - (i - 1)]
  <2>1. /\ before \o behind \in Seq(S)
        /\ Len(before \o behind) = Len(before) + Len(behind)
        /\ \A j \in 1..(Len(before) + Len(behind)) :
             (before \o behind)[j] = IF j <= Len(before) THEN before[j] ELSE behind[j - Len(before)]
    BY <1>2, <1>3, ConcatProperties
  <2>2. Len(before) = i - 1 /\ Len(behind) = Len(q) - i
    BY <1>2, <1>3
  <2> QED
    BY <2>1, <2>2
<1>6. (i - 1) + (Len(q) - i) = Len(q) - 1
  BY <1>1
<1>7. ASSUME NEW j \in 1..(Len(q) - 1)
      PROVE  (before \o behind)[j] = IF j < i THEN q[j] ELSE q[j + 1]
  <2>1. CASE j < i
    <3>1. j \in 1..(i - 1) /\ j <= i - 1
      BY <1>1, <2>1
    <3> QED
      BY <1>2, <1>5, <1>6, <2>1, <3>1
  <2>2. CASE ~(j < i)
    <3>1. j - (i - 1) \in 1..(Len(q) - i) /\ ~(j <= i - 1) /\ j - (i - 1) + i = j + 1
      BY <1>1, <2>2
    <3> QED
      BY <1>3, <1>5, <1>6, <2>2, <3>1
  <2> QED
    BY <2>1, <2>2
<1> QED
  BY <1>4, <1>5, <1>6, <1>7

\* Every set of natural numbers has a least element.
LEMMA LeastNat ==
  ASSUME NEW I \in SUBSET Nat, I # {}
  PROVE  Min(I) \in I /\ \A k \in I : Min(I) <= k
<1> DEFINE below == OpToRel(<, Nat)
<1>1. IsWellFoundedOn(below, Nat)
  BY NatLessThanWellFounded
<1>2. \A x, y \in Nat : <<y, x>> \in below <=> y < x
  BY DEF OpToRel
<1> HIDE DEF below
<1>3. \E x \in I : \A y \in I : ~(<<y, x>> \in below)
  BY <1>1, WFMin
<1>4. \E x \in I : \A y \in I : x <= y
  <2>1. PICK x \in I : \A y \in I : ~(<<y, x>> \in below)
    BY <1>3
  <2>2. x \in Nat /\ \A y \in I : y \in Nat /\ ~(y < x)
    BY <1>2, <2>1
  <2>3. \A y \in I : x <= y
    BY <2>2
  <2> QED
    BY <2>1, <2>3
<1> QED
  BY <1>4 DEF Min

\* The place at which an element stands first.
LEMMA FirstPlace ==
  ASSUME NEW S, NEW q \in Seq(S), NEW e, \E i \in 1..Len(q) : q[i] = e
  PROVE  \E i \in 1..Len(q) : q[i] = e /\ RemoveFirst(q, e) = RemoveAt(q, i)
<1> DEFINE I == {i \in 1..Len(q) : q[i] = e}
<1>1. I \in SUBSET Nat /\ I # {} /\ Len(q) \in Nat
  BY LenProperties
<1>2. Min(I) \in I
  BY <1>1, LeastNat
<1>3. RemoveFirst(q, e) = RemoveAt(q, Min(I))
  BY <1>1 DEF RemoveFirst, SelectInSeq
<1> HIDE DEF RemoveFirst
<1> QED
  BY <1>2, <1>3

\* A list without repetition loses the element, and nothing else.
LEMMA RemoveFirstProperties ==
  ASSUME NEW S, NEW q \in Seq(S), NEW e, e \in ToSet(q), IsInjective(q)
  PROVE  /\ RemoveFirst(q, e) \in Seq(S)
         /\ Len(RemoveFirst(q, e)) = Len(q) - 1
         /\ IsInjective(RemoveFirst(q, e))
         /\ ToSet(RemoveFirst(q, e)) = ToSet(q) \ {e}
<1>1. DOMAIN q = 1..Len(q) /\ Len(q) \in Nat
  BY LenProperties
<1>2. PICK i \in 1..Len(q) : q[i] = e /\ RemoveFirst(q, e) = RemoveAt(q, i)
  BY <1>1, FirstPlace DEF ToSet
<1>3. PICK r : r = RemoveAt(q, i)
  OBVIOUS
<1>4. /\ r \in Seq(S) /\ Len(r) = Len(q) - 1
      /\ \A j \in 1..(Len(q) - 1) : r[j] = IF j < i THEN q[j] ELSE q[j + 1]
  BY <1>3, RemoveAtProperties
<1>5. DOMAIN r = 1..(Len(q) - 1)
  BY <1>4, LenProperties
<1> DEFINE from(j) == IF j < i THEN j ELSE j + 1
<1>6. \A j \in DOMAIN r : from(j) \in DOMAIN q /\ from(j) # i /\ r[j] = q[from(j)]
  BY <1>1, <1>4, <1>5
<1>7. \A j, k \in DOMAIN r : from(j) = from(k) => j = k
  BY <1>1, <1>5
<1>8. \A k \in DOMAIN q \ {i} : \E j \in DOMAIN r : from(j) = k
  <2> SUFFICES ASSUME NEW k \in DOMAIN q \ {i} PROVE \E j \in DOMAIN r : from(j) = k
    OBVIOUS
  <2>1. CASE k < i
    <3>1. k \in DOMAIN r
      BY <1>1, <1>5, <2>1
    <3> QED
      BY <2>1, <3>1
  <2>2. CASE ~(k < i)
    <3>1. k - 1 \in DOMAIN r /\ ~(k - 1 < i) /\ k - 1 + 1 = k
      BY <1>1, <1>5, <2>2
    <3> QED
      BY <3>1
  <2> QED
    BY <2>1, <2>2
<1> HIDE DEF from
<1>9. IsInjective(r)
  BY <1>6, <1>7 DEF IsInjective
<1>10. ToSet(r) \subseteq ToSet(q) \ {e}
  BY <1>1, <1>2, <1>6 DEF ToSet, IsInjective
<1>11. ToSet(q) \ {e} \subseteq ToSet(r)
  BY <1>2, <1>6, <1>8 DEF ToSet
<1> QED
  BY <1>2, <1>3, <1>4, <1>9, <1>10, <1>11

\* What is left of a list without repetition behind its first element.
LEMMA TailProperties ==
  ASSUME NEW S, NEW q \in Seq(S), q # <<>>, IsInjective(q)
  PROVE  /\ Tail(q) \in Seq(S) /\ Len(Tail(q)) = Len(q) - 1
         /\ IsInjective(Tail(q)) /\ Head(q) \in ToSet(q)
         /\ ToSet(Tail(q)) = ToSet(q) \ {Head(q)}
<1>1. /\ Tail(q) \in Seq(S) /\ Len(Tail(q)) = Len(q) - 1
      /\ \A j \in 1..(Len(q) - 1) : Tail(q)[j] = q[j + 1]
  BY HeadTailProperties
<1>2. /\ DOMAIN q = 1..Len(q) /\ Len(q) \in Nat \ {0}
      /\ DOMAIN Tail(q) = 1..(Len(q) - 1) /\ Head(q) = q[1]
  BY <1>1, LenProperties, EmptySeq
<1>3. PICK r : r = Tail(q)
  OBVIOUS
<1>4. \A j \in DOMAIN r : j + 1 \in DOMAIN q \ {1} /\ r[j] = q[j + 1]
  BY <1>1, <1>2, <1>3
<1>5. \A k \in DOMAIN q \ {1} : k - 1 \in DOMAIN r /\ r[k - 1] = q[k]
  BY <1>1, <1>2, <1>3
<1>6. IsInjective(r)
  <2> SUFFICES ASSUME NEW j \in DOMAIN r, NEW k \in DOMAIN r, r[j] = r[k] PROVE j = k
    BY DEF IsInjective
  <2>1. j + 1 = k + 1
    BY <1>4 DEF IsInjective
  <2>2. j \in Nat /\ k \in Nat
    BY <1>2, <1>3
  <2> QED
    BY <2>1, <2>2
<1>7. 1 \in DOMAIN q
  BY <1>2
<1>8. ToSet(r) \subseteq ToSet(q) \ {q[1]}
  BY <1>4, <1>7 DEF ToSet, IsInjective
<1>9. ToSet(q) \ {q[1]} \subseteq ToSet(r)
  BY <1>5 DEF ToSet
<1> QED
  BY <1>1, <1>2, <1>3, <1>6, <1>7, <1>8, <1>9 DEF ToSet

(***************************************************************************)
(* Types.                                                                  *)
(***************************************************************************)
\* The lists are lists of the services that may have a tail.
LEMMA LoopFields ==
  ASSUME LoopTypeOK
  PROVE  /\ loop.todo \in Seq(DOMAIN tail) /\ loop.left \in Seq(DOMAIN tail)
         /\ loop.failed \in Seq(DOMAIN tail)
         /\ loop.limit \in [DOMAIN tail -> Nat]
         /\ \A s \in DOMAIN tail : loop.limit[s] <= Horizon
         /\ Len(loop.todo) \in Nat /\ Len(loop.left) \in Nat
         /\ clock \in Nat
<1>1. /\ loop.todo \in Seq(DOMAIN tail) /\ loop.left \in Seq(DOMAIN tail)
      /\ loop.failed \in Seq(DOMAIN tail) /\ loop.limit \in [DOMAIN tail -> 0..Horizon]
  BY DEF LoopTypeOK, LoopState
<1>2. clock \in Nat
  BY ChangeLoopAssumption DEF LoopTypeOK, ChangeLoopAssumption
<1>3. \A d \in 0..Horizon : d \in Nat /\ d <= Horizon
  BY ChangeLoopAssumption DEF ChangeLoopAssumption
<1>4. loop.limit \in [DOMAIN tail -> Nat] /\ \A s \in DOMAIN tail : loop.limit[s] <= Horizon
  BY <1>1, <1>3
<1> QED
  BY <1>1, <1>2, <1>4, LenProperties

\* The clock stops at the horizon, and never runs faster than time.
LEMMA LaterBounds ==
  ASSUME LoopTypeOK, NEW t \in Nat
  PROVE  Later(t) \in 0..Horizon /\ Later(t) <= clock + t
BY ChangeLoopAssumption DEF LoopTypeOK, Later, ChangeLoopAssumption

\* What stop_tailing() does to the tails.
LEMMA StopTailingTypes ==
  ASSUME LoopTypeOK, NEW S, StopTailing(S)
  PROVE  /\ DOMAIN tail' = DOMAIN tail
         /\ tail' \in [DOMAIN tail' -> Tails]
         /\ unread' \subseteq {s \in DOMAIN tail' : tail'[s] \in {"live", "dead"}}
         /\ Tailed' = Tailed \ S
BY DEF LoopTypeOK, StopTailing, Tails, Tailed

\* What the service at the head of the list is.
LEMMA CheckedService ==
  ASSUME LoopTypeOK, ListsInv, Checking
  PROVE  /\ Checked \in DOMAIN tail /\ Checked \in ToSet(loop.todo)
         /\ Tail(loop.left) \in Seq(DOMAIN tail)
         /\ Len(Tail(loop.left)) = Len(loop.left) - 1
         /\ IsInjective(Tail(loop.left))
         /\ ToSet(Tail(loop.left)) = ToSet(loop.left) \ {Checked}
         /\ RemoveFirst(loop.todo, Checked) \in Seq(DOMAIN tail)
         /\ Len(RemoveFirst(loop.todo, Checked)) = Len(loop.todo) - 1
         /\ IsInjective(RemoveFirst(loop.todo, Checked))
         /\ ToSet(RemoveFirst(loop.todo, Checked)) = ToSet(loop.todo) \ {Checked}
<1>1. loop.left \in Seq(DOMAIN tail) /\ loop.left # <<>> /\ IsInjective(loop.left)
      /\ loop.todo \in Seq(DOMAIN tail) /\ IsInjective(loop.todo)
      /\ ToSet(loop.left) \subseteq ToSet(loop.todo)
  BY LoopFields DEF Checking, ListsInv
<1>2. Checked \in DOMAIN tail
  BY <1>1, HeadTailProperties DEF Checked
<1>3. /\ Tail(loop.left) \in Seq(DOMAIN tail) /\ Len(Tail(loop.left)) = Len(loop.left) - 1
      /\ IsInjective(Tail(loop.left)) /\ Checked \in ToSet(loop.left)
      /\ ToSet(Tail(loop.left)) = ToSet(loop.left) \ {Checked}
  BY <1>1, TailProperties DEF Checked
<1>4. Checked \in ToSet(loop.todo)
  BY <1>1, <1>3
<1> QED
  BY <1>1, <1>2, <1>3, <1>4, RemoveFirstProperties

\* The loop of a command that begins.
LEMMA Begun ==
  ASSUME BeginAny
  PROVE  /\ LoopTypeOK' /\ ListsInv'
         /\ Len(loop'.todo) = Cardinality(DOMAIN tail')
         /\ loop'.left = loop'.todo /\ loop'.pc = "change" /\ clock' = 0
         /\ DOMAIN tail' = ToSet(loop'.todo) /\ loop'.failed = <<>>
<1>1. PICK q : q = loop'.todo
  OBVIOUS
<1>2. PICK D : D = ToSet(q)
  OBVIOUS
<1>3. /\ q \in Seq(D) /\ IsInjective(q) /\ DOMAIN q = 1..Len(q) /\ Len(q) \in Nat
  BY <1>1, <1>2, LenProperties DEF BeginAny
<1>4. /\ DOMAIN tail' = D /\ tail' \in [D -> Tails] /\ unread' = {} /\ clock' = 0
  BY <1>1, <1>2 DEF BeginAny, BeginLoop, Tails
<1>5. loop'.limit \in [D -> 0..Horizon]
  BY <1>1, <1>2 DEF BeginAny
<1>6. /\ loop' = LoopOf(q, loop'.kind, loop'.force, loop'.viewer, loop'.limit)
      /\ loop'.kind \in Kinds /\ loop'.force \in BOOLEAN /\ loop'.viewer \in BOOLEAN
  BY <1>1 DEF BeginAny, BeginLoop
<1>7. <<>> \in Seq(D)
  BY EmptySeq
<1>8. loop' \in LoopState(D)
  <2>1. \A k \in Kinds, f \in BOOLEAN, v \in BOOLEAN, l \in [D -> 0..Horizon] :
          LoopOf(q, k, f, v, l) \in LoopState(D)
    BY <1>3, <1>7 DEF LoopOf, LoopState
  <2> QED
    BY <1>5, <1>6, <2>1
<1>9. loop'.left = q /\ loop'.pc = "change" /\ loop'.failed = <<>>
  BY <1>6 DEF LoopOf
<1>10. IsFiniteSet(D) /\ Cardinality(D) = Len(q)
  <2>1. q \in Surjection(1..Len(q), D) /\ q \in Injection(1..Len(q), D)
    <3>1. q \in [1..Len(q) -> D]
      BY <1>3, LenProperties
    <3>2. \A t \in D : \E i \in 1..Len(q) : q[i] = t
      BY <1>2, <1>3 DEF ToSet
    <3> QED
      BY <1>3, <3>1, <3>2 DEF Surjection, Injection
  <2>2. IsFiniteSet(1..Len(q)) /\ Cardinality(1..Len(q)) = Len(q)
    BY <1>3, FS_Interval
  <2> QED
    BY <2>1, <2>2, FS_Surjection
<1>11. LoopTypeOK'
  BY <1>4, <1>8, ChangeLoopAssumption DEF LoopTypeOK, ChangeLoopAssumption
<1>12. ListsInv'
  BY <1>1, <1>3, <1>4, <1>9, <1>10 DEF ListsInv
<1> QED
  BY <1>1, <1>2, <1>4, <1>9, <1>10, <1>11, <1>12

\* A check that ticks the service off, one way or the other.
LEMMA Ticked ==
  ASSUME LoopTypeOK, ListsInv, TailsReaped, Checking, NEW t \in 1..CheckTime,
         loop' \in LoopState(DOMAIN tail),
         loop'.pc = "check", loop'.left = Tail(loop.left),
         loop'.todo = RemoveFirst(loop.todo, Checked),
         clock' = Later(t), StopTailing({Checked})
  PROVE  LoopTypeOK' /\ ListsInv' /\ TailsReaped' /\ UNCHANGED DOMAIN tail
<1>1. t \in Nat
  BY ChangeLoopAssumption DEF ChangeLoopAssumption
<1>2. clock' \in 0..Horizon
  BY <1>1, LaterBounds
<1>3. /\ DOMAIN tail' = DOMAIN tail /\ tail' \in [DOMAIN tail' -> Tails]
      /\ unread' \subseteq {s \in DOMAIN tail' : tail'[s] \in {"live", "dead"}}
      /\ Tailed' = Tailed \ {Checked}
  BY StopTailingTypes
<1>4. LoopTypeOK'
  BY <1>2, <1>3 DEF LoopTypeOK
<1>5. ListsInv'
  <2>1. /\ IsInjective(loop'.todo) /\ IsInjective(loop'.left)
        /\ ToSet(loop'.left) \subseteq ToSet(loop'.todo)
    BY CheckedService DEF ListsInv
  <2>2. Len(loop'.left) = Len(loop.left) - 1 /\ Len(loop'.todo) = Len(loop.todo) - 1
    BY CheckedService
  <2>3. Len(loop'.left) <= Len(loop'.todo) /\ Len(loop'.todo) <= Len(loop.todo)
    BY <2>2, LoopFields DEF ListsInv
  <2>4. Len(loop'.todo) <= Cardinality(DOMAIN tail)
    BY <2>2, <2>3, LoopFields, FS_CardinalityType DEF ListsInv
  <2> QED
    BY <1>3, <2>1, <2>3, <2>4 DEF ListsInv
<1>6. TailsReaped'
  BY <1>3, CheckedService DEF TailsReaped
<1> QED
  BY <1>3, <1>4, <1>5, <1>6

\* The loop is left.
LEMMA Left ==
  ASSUME LoopTypeOK, ListsInv, Over, clock' \in 0..Horizon
  PROVE  LoopTypeOK' /\ ListsInv' /\ TailsReaped' /\ loop'.pc = "over"
<1>1. /\ DOMAIN tail' = DOMAIN tail /\ tail' \in [DOMAIN tail' -> Tails]
      /\ unread' \subseteq {s \in DOMAIN tail' : tail'[s] \in {"live", "dead"}}
      /\ Tailed' = Tailed \ DOMAIN tail
  BY StopTailingTypes DEF Over
<1>2. /\ loop'.pc = "over" /\ loop'.left = <<>> /\ loop'.todo = loop.todo
  BY DEF Over, LoopTypeOK, LoopState
<1>3. <<>> \in Seq(DOMAIN tail) /\ Len(<<>>) = 0 /\ DOMAIN <<>> = {}
  BY EmptySeq
<1>4. loop' \in LoopState(DOMAIN tail)
  BY <1>3 DEF Over, LoopTypeOK, LoopState
<1>5. Tailed' = {}
  BY <1>1 DEF Tailed
<1>6. IsInjective(<<>>) /\ ToSet(<<>>) = {}
  BY <1>3 DEF IsInjective, ToSet
<1>7. ListsInv'
  BY <1>1, <1>2, <1>3, <1>6, LoopFields DEF ListsInv
<1> QED
  BY <1>1, <1>2, <1>4, <1>5, <1>7 DEF LoopTypeOK, TailsReaped

\* A step that leaves the tails and the list of what is to change alone.
LEMMA Onward ==
  ASSUME LoopTypeOK, ListsInv, TailsReaped,
         loop' \in LoopState(DOMAIN tail), loop'.todo = loop.todo,
         loop'.left \in {loop.left, loop.todo} \/ (loop.left # <<>> /\ loop'.left = Tail(loop.left)),
         loop'.pc # "over",
         clock' \in 0..Horizon, tail' = tail, unread' \in {unread, {}}
  PROVE  LoopTypeOK' /\ ListsInv' /\ TailsReaped'
<1>1. LoopTypeOK'
  BY DEF LoopTypeOK
<1>2. /\ IsInjective(loop'.left) /\ ToSet(loop'.left) \subseteq ToSet(loop.todo)
      /\ Len(loop'.left) <= Len(loop.todo)
  <2>1. CASE loop'.left \in {loop.left, loop.todo}
    <3>1. CASE loop'.left = loop.left
      BY <3>1 DEF ListsInv
    <3>2. CASE loop'.left = loop.todo
      BY <3>2, LoopFields DEF ListsInv
    <3> QED
      BY <2>1, <3>1, <3>2
  <2>2. CASE loop.left # <<>> /\ loop'.left = Tail(loop.left)
    BY <2>2, LoopFields, TailProperties DEF ListsInv
  <2> QED
    BY <2>1, <2>2
<1>3. ListsInv'
  BY <1>2 DEF ListsInv
<1>4. TailsReaped'
  BY DEF TailsReaped, Tailed
<1> QED
  BY <1>1, <1>3, <1>4

\* Types, lists and tails are kept by every step.
LEMMA TidyStep ==
  ASSUME LoopTypeOK, ListsInv, TailsReaped, [LoopNext]_loopVars
  PROVE  LoopTypeOK' /\ ListsInv' /\ TailsReaped'
<1> USE DEF loopVars
<1>a. clock \in 0..Horizon /\ loop \in LoopState(DOMAIN tail) /\ loop.left \in Seq(DOMAIN tail)
      /\ loop.failed \in Seq(DOMAIN tail)
  BY LoopFields DEF LoopTypeOK
<1>b. \A t \in Nat : Later(t) \in 0..Horizon
  BY LaterBounds
<1>c. CheckTime \in Nat /\ ChangeTime \in Nat /\ Poll \in Nat
  BY ChangeLoopAssumption DEF ChangeLoopAssumption
<1>1. ASSUME NEW t \in 0..ChangeTime, Change(t)
      PROVE  LoopTypeOK' /\ ListsInv' /\ TailsReaped'
  <2>1. loop.left # <<>> /\ Tail(loop.left) \in Seq(DOMAIN tail)
    BY <1>a, <1>1, HeadTailProperties DEF Change
  <2>2. loop' \in LoopState(DOMAIN tail) /\ loop'.todo = loop.todo
        /\ loop'.left = Tail(loop.left) /\ loop'.pc = "change"
    BY <1>a, <1>1, <2>1 DEF Change, LoopState
  <2>3. t \in Nat
    BY <1>c
  <2>4. clock' \in 0..Horizon /\ tail' = tail /\ unread' = unread /\ loop'.pc # "over"
    BY <1>b, <1>1, <2>2, <2>3 DEF Change
  <2> QED
    BY <2>1, <2>2, <2>4, Onward
<1>2. CASE ChangedAll
  <2>1. loop' \in LoopState(DOMAIN tail) /\ loop'.todo = loop.todo
        /\ loop'.left = loop.todo /\ loop'.pc = "check"
    BY <1>a, <1>2, LoopFields DEF ChangedAll, LoopState
  <2>2. clock' \in 0..Horizon /\ tail' = tail /\ unread' = unread /\ loop'.pc # "over"
    BY <1>a, <1>2, <2>1 DEF ChangedAll
  <2> QED
    BY <2>1, <2>2, Onward
<1>3. ASSUME NEW t \in 1..CheckTime, CheckPasses(t)
      PROVE  LoopTypeOK' /\ ListsInv' /\ TailsReaped'
  <2>1. /\ loop' \in LoopState(DOMAIN tail) /\ loop'.left = Tail(loop.left)
        /\ loop'.todo = RemoveFirst(loop.todo, Checked) /\ loop'.pc = "check"
    BY <1>a, <1>3, CheckedService DEF CheckPasses, LoopState, Checking
  <2> QED
    BY <1>3, <2>1, Ticked DEF CheckPasses
<1>4. ASSUME NEW t \in 1..CheckTime, CheckFails(t) \/ ForceStop(t)
      PROVE  LoopTypeOK' /\ ListsInv' /\ TailsReaped'
  <2>1. /\ loop' \in LoopState(DOMAIN tail) /\ loop'.left = Tail(loop.left)
        /\ loop'.todo = loop.todo /\ loop'.pc = "check"
    BY <1>a, <1>4, CheckedService DEF CheckFails, ForceStop, LoopState, Checking
  <2>2. loop.left # <<>>
    BY <1>4 DEF CheckFails, ForceStop, Checking
  <2>3. t \in Nat
    BY <1>c
  <2>4. clock' \in 0..Horizon /\ tail' = tail /\ unread' = unread /\ loop'.pc # "over"
    BY <1>b, <1>4, <2>1, <2>3 DEF CheckFails, ForceStop
  <2> QED
    BY <2>1, <2>2, <2>4, Onward
<1>5. ASSUME NEW t \in 1..CheckTime, GiveUp(t)
      PROVE  LoopTypeOK' /\ ListsInv' /\ TailsReaped'
  <2>1. Append(loop.failed, Checked) \in Seq(DOMAIN tail)
    BY <1>a, <1>5, CheckedService, AppendProperties DEF GiveUp
  <2>2. /\ loop' \in LoopState(DOMAIN tail) /\ loop'.left = Tail(loop.left)
        /\ loop'.todo = RemoveFirst(loop.todo, Checked) /\ loop'.pc = "check"
    BY <1>a, <1>5, <2>1, CheckedService DEF GiveUp, LoopState, Checking
  <2> QED
    BY <1>5, <2>2, Ticked DEF GiveUp
<1>6. CASE CheckedAll
  <2>1. loop' \in LoopState(DOMAIN tail) /\ loop'.todo = loop.todo
        /\ loop'.left = loop.left /\ loop'.pc \in {"draw", "sleep"}
    BY <1>a, <1>6 DEF CheckedAll, LoopState
  <2>2. clock' \in 0..Horizon /\ tail' = tail /\ unread' = unread /\ loop'.pc # "over"
    BY <1>a, <1>6, <2>1 DEF CheckedAll
  <2> QED
    BY <2>1, <2>2, Onward
<1>7. CASE DrawNothing
  <2>1. loop' \in LoopState(DOMAIN tail) /\ loop'.todo = loop.todo
        /\ loop'.left = loop.left /\ loop'.pc = "sleep"
    BY <1>a, <1>7 DEF DrawNothing, LoopState
  <2>2. clock' \in 0..Horizon /\ tail' = tail /\ unread' = unread /\ loop'.pc # "over"
    BY <1>a, <1>7, <2>1 DEF DrawNothing
  <2> QED
    BY <2>1, <2>2, Onward
<1>8. CASE Draw
  <2>1. loop' \in LoopState(DOMAIN tail) /\ loop'.todo = loop.todo
        /\ loop'.left = loop.left /\ loop'.pc \in {"sleep", "hung"}
    BY <1>a, <1>8 DEF Draw, LoopState
  <2>2. clock' = clock /\ tail' = tail /\ unread' \in {unread, {}}
    BY <1>8 DEF Draw
  <2>3. clock' \in 0..Horizon /\ loop'.pc # "over"
    BY <1>a, <2>1, <2>2
  <2> QED
    BY <2>1, <2>2, <2>3, Onward
<1>9. CASE Sleep
  <2>1. clock' \in 0..Horizon
    BY <1>b, <1>c, <1>9 DEF Sleep
  <2>2. CASE Over
    BY <2>1, <2>2, Left
  <2>3. CASE ~Over
    <3>1. loop' = [loop EXCEPT !.pc = "change", !.left = loop.todo] /\ UNCHANGED <<tail, unread>>
      BY <1>9, <2>3 DEF Sleep
    <3>2. loop' \in LoopState(DOMAIN tail) /\ loop'.todo = loop.todo
          /\ loop'.left = loop.todo /\ loop'.pc = "change"
      BY <1>a, <3>1, LoopFields DEF LoopState
    <3>3. tail' = tail /\ unread' = unread /\ loop'.pc # "over"
      BY <3>1, <3>2
    <3> QED
      BY <2>1, <3>2, <3>3, Onward
  <2> QED
    BY <2>2, <2>3
<1>10. CASE Raise
  BY <1>a, <1>10, Left DEF Raise
<1>11. ASSUME NEW s \in DOMAIN tail, TailWrites(s) \/ TailDies(s)
       PROVE  LoopTypeOK' /\ ListsInv' /\ TailsReaped'
  <2>1. LoopTypeOK' /\ DOMAIN tail' = DOMAIN tail /\ UNCHANGED <<loop, clock>>
    BY <1>11 DEF TailWrites, TailDies, LoopTypeOK, Tails
  <2>2. Tailed' = Tailed
    BY <1>11 DEF TailWrites, TailDies, Tailed
  <2> QED
    BY <2>1, <2>2 DEF ListsInv, TailsReaped
<1>12. CASE BeginAny
  BY <1>12, Begun DEF TailsReaped, Tailed
<1>13. CASE UNCHANGED loopVars
  BY <1>13 DEF LoopTypeOK, ListsInv, TailsReaped, Tailed
<1> QED
  BY <1>1, <1>2, <1>3, <1>4, <1>5, <1>6, <1>7, <1>8, <1>9, <1>10, <1>11, <1>12, <1>13
     DEF LoopNext, Looping, Outside

(***************************************************************************)
(* The clock.                                                              *)
(***************************************************************************)
\* What is needed of products.
LEMMA Products ==
  ASSUME NEW c \in Nat
  PROVE  /\ \A i \in Nat : i * c \in Nat /\ (i + 1) * c = i * c + c
         /\ \A i, j \in Nat : i <= j => i * c <= j * c
         /\ 0 * c = 0
<1>1. \A i \in Nat : i * c \in Nat /\ (i + 1) * c = i * c + c
  OBVIOUS
<1>2. \A i, j \in Nat : i <= j => i * c <= j * c
  OBVIOUS
<1> QED
  BY <1>1, <1>2

\* A check that fails before its time ends before the limit.
LEMMA BeforeTime ==
  ASSUME clock \in Nat, NEW t \in Nat, t > 0, loop.limit[Checked] \in Nat, ~TimedOut(t)
  PROVE  clock + t < loop.limit[Checked]
BY DEF TimedOut, Abs

\* What the allowance is.
LEMMA AllowanceCases ==
  ASSUME NEW n, NEW a, NEW v
  PROVE  /\ AllowanceAt("change", n, a, v) = (n - a) * CheckTime + (Poll + v * ChangeTime)
         /\ AllowanceAt("check", n, a, 0) = (n - a) * CheckTime + (Poll + n * ChangeTime)
         /\ v # 0 => AllowanceAt("check", n, a, v) = (n - a) * CheckTime + 0
         /\ AllowanceAt("draw", n, a, v) = (n - a) * CheckTime + 0
         /\ AllowanceAt("sleep", n, a, v) = (n - a) * CheckTime + 0
BY DEF AllowanceAt

\* How the allowance of one step differs from that of the step before.
LEMMA AllowanceSteps ==
  ASSUME NEW n \in Nat, NEW a \in Nat, NEW v \in Nat, a <= n, v <= a
  PROVE  /\ \A pc \in {"change", "check", "draw", "sleep"} : AllowanceAt(pc, n, a, v) \in Nat
         /\ AllowanceAt("change", n, a, v + 1) = AllowanceAt("change", n, a, v) + ChangeTime
         /\ AllowanceAt("change", n, a, v) <= AllowanceAt("check", n, a, 0)
         /\ a > 0 => AllowanceAt("check", n, a - 1, v) = AllowanceAt("check", n, a, v) + CheckTime
         /\ v > 0 => AllowanceAt("check", n, a, v) = AllowanceAt("sleep", n, a, v)
         /\ AllowanceAt("draw", n, a, v) = AllowanceAt("sleep", n, a, v)
         /\ AllowanceAt("change", n, a, 0) = AllowanceAt("sleep", n, a, v) + Poll
         /\ AllowanceAt("change", n, n, 0) = Poll
<1>1. CheckTime \in Nat /\ ChangeTime \in Nat /\ Poll \in Nat
  BY ChangeLoopAssumption DEF ChangeLoopAssumption
<1>2. PICK done : done = (n - a) * CheckTime
  OBVIOUS
<1>3. done \in Nat /\ (n - a + 1) * CheckTime = done + CheckTime /\ (n - n) * CheckTime = 0
  <2>1. n - a \in Nat /\ n - n = 0
    OBVIOUS
  <2> QED
    BY <1>1, <1>2, <2>1, Products
<1>4. PICK visits : visits = v * ChangeTime
  OBVIOUS
<1>5. PICK all : all = n * ChangeTime
  OBVIOUS
<1>6. /\ visits \in Nat /\ all \in Nat /\ visits <= all /\ 0 * ChangeTime = 0
      /\ (v + 1) * ChangeTime = visits + ChangeTime
  BY <1>1, <1>4, <1>5, Products
<1>7. /\ AllowanceAt("change", n, a, v) = done + (Poll + visits)
      /\ AllowanceAt("change", n, a, v + 1) = done + (Poll + (visits + ChangeTime))
      /\ AllowanceAt("change", n, a, 0) = done + (Poll + 0)
      /\ AllowanceAt("check", n, a, 0) = done + (Poll + all)
      /\ v # 0 => AllowanceAt("check", n, a, v) = done + 0
      /\ AllowanceAt("draw", n, a, v) = done + 0
      /\ AllowanceAt("sleep", n, a, v) = done + 0
      /\ AllowanceAt("change", n, n, 0) = 0 + (Poll + 0)
  BY <1>2, <1>3, <1>4, <1>5, <1>6, AllowanceCases
<1>8. ASSUME a > 0
      PROVE  AllowanceAt("check", n, a - 1, v) = AllowanceAt("check", n, a, v) + CheckTime
  <2>1. n - (a - 1) = n - a + 1
    OBVIOUS
  <2>2. /\ AllowanceAt("check", n, a - 1, 0) = (done + CheckTime) + (Poll + all)
        /\ v # 0 => AllowanceAt("check", n, a - 1, v) = (done + CheckTime) + 0
    BY <1>3, <1>5, <2>1, AllowanceCases
  <2> QED
    BY <1>1, <1>3, <1>6, <1>7, <2>2
<1>9. \A pc \in {"change", "check", "draw", "sleep"} : AllowanceAt(pc, n, a, v) \in Nat
  BY <1>1, <1>3, <1>6, <1>7
<1>10. /\ AllowanceAt("change", n, a, v + 1) = AllowanceAt("change", n, a, v) + ChangeTime
       /\ AllowanceAt("change", n, a, v) <= AllowanceAt("check", n, a, 0)
  BY <1>1, <1>3, <1>6, <1>7
<1>11. /\ v > 0 => AllowanceAt("check", n, a, v) = AllowanceAt("sleep", n, a, v)
       /\ AllowanceAt("draw", n, a, v) = AllowanceAt("sleep", n, a, v)
       /\ AllowanceAt("change", n, a, 0) = AllowanceAt("sleep", n, a, v) + Poll
       /\ AllowanceAt("change", n, n, 0) = Poll
  BY <1>1, <1>3, <1>7
<1> QED
  BY <1>8, <1>9, <1>10, <1>11

\* A step that takes no longer than the allowance grows.
LEMMA Allowed ==
  ASSUME NEW t \in Nat, NEW most \in Nat, t <= most, clock \in Nat, clock' \in Nat,
         clock' <= clock + t, Allowance \in Nat, Allowance' = Allowance + most
  PROVE  Allowance' \in Nat /\ clock' + Allowance <= clock + Allowance'
<1>1. PICK x, y, before, after :
        x = clock /\ y = clock' /\ before = Allowance /\ after = Allowance'
  OBVIOUS
<1>2. /\ x \in Nat /\ y \in Nat /\ before \in Nat
      /\ after = before + most /\ y <= x + t
  BY <1>1
<1>3. after \in Nat /\ y + before <= x + after
  BY <1>2
<1> QED
  BY <1>1, <1>3

\* A step that takes no time.
LEMMA AllowedNone ==
  ASSUME clock \in Nat, clock' = clock, Allowance \in Nat, Allowance' \in Nat,
         Allowance <= Allowance'
  PROVE  clock' \in Nat /\ clock' + Allowance <= clock + Allowance'
<1>1. PICK x, before, after : x = clock /\ before = Allowance /\ after = Allowance'
  OBVIOUS
<1>2. x \in Nat /\ before \in Nat /\ after \in Nat /\ before <= after
  BY <1>1
<1>3. x + before <= x + after
  BY <1>2
<1> QED
  BY <1>1, <1>3

\* When a loop goes on, the clock may gain what the allowance does.
LEMMA PaceKept ==
  ASSUME LoopTypeOK, PaceInv,
         loop.pc \notin {"over", "hung"}, loop'.todo # <<>> => loop.todo # <<>>,
         loop'.kind = loop.kind, loop'.force = loop.force, loop'.limit = loop.limit,
         DOMAIN tail' = DOMAIN tail, clock' \in Nat, Allowance \in Nat, Allowance' \in Nat,
         loop'.todo # <<>> => clock' + Allowance <= clock + Allowance'
  PROVE  PaceInv'
<1> SUFFICES ASSUME ~CanForce', loop'.todo # <<>>
             PROVE  \E s \in DOMAIN tail : clock' < loop.limit[s] + Allowance'
  BY DEF PaceInv
<1>1. ~CanForce
  BY DEF CanForce
<1>2. PICK s \in DOMAIN tail : clock < loop.limit[s] + Allowance
  BY <1>1 DEF PaceInv
<1>3. PICK x, y, before, after :
        x = clock /\ y = clock' /\ before = Allowance /\ after = Allowance'
  OBVIOUS
<1>4. PICK limit : limit = loop.limit[s]
  OBVIOUS
<1>5. limit \in Nat /\ x \in Nat /\ y \in Nat /\ before \in Nat /\ after \in Nat
  BY <1>3, <1>4, LoopFields
<1>6. x < limit + before /\ y + before <= x + after
  BY <1>2, <1>3, <1>4
<1>7. y < limit + after
  BY <1>5, <1>6
<1> QED
  BY <1>3, <1>4, <1>7

\* The clock is behind some limit by no more than its allowance, after every step.
LEMMA PaceStep ==
  ASSUME LoopTypeOK, ListsInv, PaceInv, [LoopNext]_loopVars
  PROVE  PaceInv'
<1> USE DEF loopVars
<1>a. CheckTime \in Nat /\ ChangeTime \in Nat /\ Poll \in Nat \ {0}
  BY ChangeLoopAssumption DEF ChangeLoopAssumption
<1>b. PICK n : n = Cardinality(DOMAIN tail)
  OBVIOUS
<1>c. PICK a : a = Len(loop.todo)
  OBVIOUS
<1>d. PICK l : l = Len(loop.left)
  OBVIOUS
<1>e. PICK v : v = a - l
  OBVIOUS
<1>f. n \in Nat /\ a \in Nat /\ l \in Nat /\ v \in Nat /\ a <= n /\ l <= a /\ v <= a
  <2>1. n \in Nat /\ a <= n /\ l <= a
    BY <1>b, <1>c, <1>d, FS_CardinalityType DEF ListsInv
  <2>2. a \in Nat /\ l \in Nat
    BY <1>c, <1>d, LoopFields
  <2> QED
    BY <1>e, <2>1, <2>2
<1>g. Allowance = AllowanceAt(loop.pc, n, a, v)
  BY <1>b, <1>c, <1>d, <1>e DEF Allowance
<1>h. clock \in Nat /\ \A t \in Nat : Later(t) \in Nat /\ Later(t) <= clock + t
  <2>1. \A t \in Nat : Later(t) \in 0..Horizon /\ Later(t) <= clock + t
    BY LaterBounds
  <2>2. 0..Horizon \subseteq Nat
    BY ChangeLoopAssumption DEF ChangeLoopAssumption
  <2> QED
    BY <2>1, <2>2, LoopFields
<1>i. loop \in LoopState(DOMAIN tail) /\ loop.left \in Seq(DOMAIN tail)
      /\ loop.todo \in Seq(DOMAIN tail)
  BY LoopFields DEF LoopTypeOK
<1>j. (loop.todo = <<>> <=> a = 0) /\ (loop.left = <<>> <=> l = 0)
  BY <1>c, <1>d, <1>i, EmptySeq
<1>1. ASSUME NEW t \in 0..ChangeTime, Change(t)
      PROVE  PaceInv'
  <2>1. /\ loop.pc = "change" /\ loop'.pc = "change" /\ loop'.todo = loop.todo
        /\ loop'.left = Tail(loop.left) /\ loop.left # <<>> /\ clock' = Later(t)
        /\ loop'.kind = loop.kind /\ loop'.force = loop.force /\ loop'.limit = loop.limit
        /\ tail' = tail
    BY <1>i, <1>1 DEF Change, LoopState
  <2>2. Len(loop'.left) = l - 1
    BY <1>d, <1>i, <2>1, HeadTailProperties
  <2>3. v + 1 = a - (l - 1) /\ v + 1 <= a /\ v + 1 \in Nat
    BY <1>e, <1>f, <1>j, <2>1
  <2>4. Allowance' = AllowanceAt("change", n, a, v + 1)
    BY <1>b, <1>c, <2>1, <2>2, <2>3 DEF Allowance
  <2>5. Allowance \in Nat /\ Allowance' = Allowance + ChangeTime
    BY <1>f, <1>g, <2>1, <2>4, AllowanceSteps
  <2>6. t \in Nat /\ t <= ChangeTime
    BY <1>a
  <2>7. clock' \in Nat /\ clock' <= clock + t
    BY <1>h, <2>1, <2>6
  <2>8. Allowance' \in Nat /\ clock' + Allowance <= clock + Allowance'
    BY <1>a, <1>h, <2>5, <2>6, <2>7, Allowed
  <2> QED
    BY <2>1, <2>5, <2>7, <2>8, PaceKept
<1>2. CASE ChangedAll
  <2>1. /\ loop.pc = "change" /\ loop'.pc = "check" /\ loop'.todo = loop.todo
        /\ loop'.left = loop.todo /\ loop.left = <<>> /\ clock' = clock
        /\ loop'.kind = loop.kind /\ loop'.force = loop.force /\ loop'.limit = loop.limit
        /\ tail' = tail
    BY <1>i, <1>2 DEF ChangedAll, LoopState
  <2>2. a - a = 0
    BY <1>f
  <2>3. Allowance' = AllowanceAt("check", n, a, 0)
    BY <1>b, <1>c, <2>1, <2>2 DEF Allowance
  <2>4. AllowanceAt("check", n, a, 0) \in Nat
    BY <1>f, AllowanceSteps
  <2>5. Allowance \in Nat /\ Allowance <= Allowance' /\ Allowance' \in Nat
    BY <1>f, <1>g, <2>1, <2>3, <2>4, AllowanceSteps
  <2>6. clock' \in Nat /\ clock' + Allowance <= clock + Allowance'
    BY <1>h, <2>1, <2>5, AllowedNone
  <2> QED
    BY <2>1, <2>5, <2>6, PaceKept
<1>3. ASSUME NEW t \in 1..CheckTime, CheckPasses(t) \/ GiveUp(t)
      PROVE  PaceInv'
  <2>1. /\ Checking /\ loop.pc = "check" /\ loop'.pc = "check"
        /\ loop'.todo = RemoveFirst(loop.todo, Checked)
        /\ loop'.left = Tail(loop.left) /\ loop.left # <<>> /\ clock' = Later(t)
        /\ loop'.kind = loop.kind /\ loop'.force = loop.force /\ loop'.limit = loop.limit
        /\ StopTailing({Checked})
    BY <1>i, <1>3 DEF CheckPasses, GiveUp, Checking, LoopState
  <2>2. DOMAIN tail' = DOMAIN tail
    BY <2>1, StopTailingTypes
  <2>3. Len(loop'.left) = l - 1 /\ Len(loop'.todo) = a - 1
    BY <1>c, <1>d, <2>1, CheckedService
  <2>4. v = (a - 1) - (l - 1) /\ a > 0 /\ v <= a - 1 /\ a - 1 \in Nat
    BY <1>e, <1>f, <1>j, <2>1
  <2>5. Allowance' = AllowanceAt("check", n, a - 1, v)
    BY <1>b, <2>1, <2>2, <2>3, <2>4 DEF Allowance
  <2>6. Allowance \in Nat /\ Allowance' = Allowance + CheckTime
    BY <1>f, <1>g, <2>1, <2>4, <2>5, AllowanceSteps
  <2>7. t \in Nat /\ t <= CheckTime
    BY <1>a
  <2>8. clock' \in Nat /\ clock' <= clock + t
    BY <1>h, <2>1, <2>7
  <2>9. Allowance' \in Nat /\ clock' + Allowance <= clock + Allowance'
    BY <1>a, <1>h, <2>6, <2>7, <2>8, Allowed
  <2>10. loop.todo # <<>>
    BY <1>j, <2>4, <1>f
  <2> QED
    BY <2>1, <2>2, <2>6, <2>8, <2>9, <2>10, PaceKept
<1>4. ASSUME NEW t \in 1..CheckTime, CheckFails(t)
      PROVE  PaceInv'
  <2>1. /\ Checking /\ t > 0 /\ ~TimedOut(t) /\ clock' = Later(t) /\ loop'.pc = "check"
        /\ loop'.limit = loop.limit /\ loop'.todo = loop.todo /\ loop'.left = Tail(loop.left)
        /\ tail' = tail
    BY <1>i, <1>4 DEF CheckFails, Checking, LoopState
  <2>2. Checked \in DOMAIN tail /\ Len(loop'.left) = l - 1 /\ l > 0
    BY <1>d, <1>f, <1>j, <2>1, CheckedService DEF Checking
  <2>3. PICK limit : limit = loop.limit[Checked]
    OBVIOUS
  <2>4. limit \in Nat
    BY <2>2, <2>3, LoopFields
  <2>5. t \in Nat
    BY <1>a
  <2>6. clock + t < limit
    BY <1>h, <2>1, <2>3, <2>4, <2>5, BeforeTime
  <2>7. clock' \in Nat /\ clock' < limit
    BY <1>h, <2>1, <2>4, <2>5, <2>6
  <2>8. PICK w : w = a - (l - 1)
    OBVIOUS
  <2>9. w \in Nat /\ w <= a
    BY <1>f, <2>2, <2>8
  <2>10. Allowance' = AllowanceAt("check", n, a, w)
    BY <1>b, <1>c, <2>1, <2>2, <2>8 DEF Allowance
  <2>11. Allowance' \in Nat
    BY <1>f, <2>9, <2>10, AllowanceSteps
  <2>12. clock' < limit + Allowance'
    <3>1. PICK y, after : y = clock' /\ after = Allowance'
      OBVIOUS
    <3>2. y \in Nat /\ after \in Nat /\ y < limit
      BY <2>7, <2>11, <3>1
    <3>3. y < limit + after
      BY <2>4, <3>2
    <3> QED
      BY <3>1, <3>3
  <2> QED
    BY <2>1, <2>2, <2>3, <2>12 DEF PaceInv
<1>5. ASSUME NEW t \in 1..CheckTime, ForceStop(t)
      PROVE  PaceInv'
  <2>1. CanForce /\ loop'.kind = loop.kind /\ loop'.force = loop.force
    BY <1>i, <1>5 DEF ForceStop, LoopState
  <2> QED
    BY <2>1 DEF PaceInv, CanForce
<1>6. CASE CheckedAll
  <2>1. /\ loop.pc = "check" /\ loop'.pc \in {"draw", "sleep"} /\ loop'.todo = loop.todo
        /\ loop'.left = loop.left /\ loop.left = <<>> /\ clock' = clock
        /\ loop'.kind = loop.kind /\ loop'.force = loop.force /\ loop'.limit = loop.limit
        /\ tail' = tail
    BY <1>i, <1>6 DEF CheckedAll, LoopState
  <2>2. CASE loop.todo = <<>>
    BY <2>1, <2>2 DEF PaceInv
  <2>3. CASE loop.todo # <<>>
    <3>1. v > 0
      BY <1>e, <1>f, <1>j, <2>1, <2>3
    <3>2. Allowance' = AllowanceAt(loop'.pc, n, a, v)
      BY <1>b, <1>c, <1>d, <1>e, <2>1 DEF Allowance
    <3>3. PICK A : A = AllowanceAt("sleep", n, a, v)
      OBVIOUS
    <3>4. /\ A \in Nat /\ AllowanceAt("check", n, a, v) = A
          /\ AllowanceAt("draw", n, a, v) = A
      BY <1>f, <3>1, <3>3, AllowanceSteps
    <3>5. Allowance = A /\ Allowance' = A /\ A <= A
      BY <1>g, <2>1, <3>2, <3>3, <3>4
    <3>6. clock' \in Nat /\ clock' + Allowance <= clock + Allowance'
      BY <1>h, <2>1, <3>4, <3>5, AllowedNone
    <3> QED
      BY <2>1, <3>4, <3>5, <3>6, PaceKept
  <2> QED
    BY <2>2, <2>3
<1>7. CASE DrawNothing \/ Draw
  <2>1. /\ loop.pc = "draw" /\ loop'.pc \in {"sleep", "hung"} /\ loop'.todo = loop.todo
        /\ loop'.left = loop.left /\ clock' = clock
        /\ loop'.kind = loop.kind /\ loop'.force = loop.force /\ loop'.limit = loop.limit
        /\ tail' = tail
    BY <1>i, <1>7 DEF DrawNothing, Draw, LoopState
  <2>2. CASE loop'.pc = "hung"
    BY <2>2 DEF PaceInv
  <2>3. CASE loop'.pc = "sleep"
    <3>1. Allowance' = AllowanceAt("sleep", n, a, v)
      BY <1>b, <1>c, <1>d, <1>e, <2>1, <2>3 DEF Allowance
    <3>2. PICK A : A = AllowanceAt("sleep", n, a, v)
      OBVIOUS
    <3>3. A \in Nat /\ AllowanceAt("draw", n, a, v) = A
      BY <1>f, <3>2, AllowanceSteps
    <3>4. Allowance = A /\ Allowance' = A /\ A <= A
      BY <1>g, <2>1, <3>1, <3>2, <3>3
    <3>5. clock' \in Nat /\ clock' + Allowance <= clock + Allowance'
      BY <1>h, <2>1, <3>3, <3>4, AllowedNone
    <3> QED
      BY <2>1, <3>3, <3>4, <3>5, PaceKept
  <2> QED
    BY <2>1, <2>2, <2>3
<1>8. CASE Sleep
  <2>1. CASE loop.todo = <<>>
    <3>1. loop'.pc = "over"
      BY <1>i, <1>8, <2>1 DEF Sleep, Over, LoopState
    <3> QED
      BY <3>1 DEF PaceInv
  <2>2. CASE loop.todo # <<>>
    <3>1. /\ loop.pc = "sleep" /\ loop'.pc = "change" /\ loop'.todo = loop.todo
          /\ loop'.left = loop.todo /\ clock' = Later(Poll)
          /\ loop'.kind = loop.kind /\ loop'.force = loop.force /\ loop'.limit = loop.limit
          /\ tail' = tail
      BY <1>i, <1>8, <2>2 DEF Sleep, LoopState
    <3>2. a - a = 0
      BY <1>f
    <3>3. Allowance' = AllowanceAt("change", n, a, 0)
      BY <1>b, <1>c, <3>1, <3>2 DEF Allowance
    <3>4. Allowance \in Nat /\ Allowance' = Allowance + Poll
      BY <1>f, <1>g, <3>1, <3>3, AllowanceSteps
    <3>5. Poll \in Nat /\ Poll <= Poll
      BY <1>a
    <3>6. clock' \in Nat /\ clock' <= clock + Poll
      BY <1>h, <3>1, <3>5
    <3>7. Allowance' \in Nat /\ clock' + Allowance <= clock + Allowance'
      BY <1>h, <3>4, <3>5, <3>6, Allowed
    <3> QED
      BY <3>1, <3>4, <3>6, <3>7, PaceKept
  <2> QED
    BY <2>1, <2>2
<1>9. CASE Raise
  <2>1. loop'.pc = "over"
    BY <1>i, <1>9 DEF Raise, Over, LoopState
  <2> QED
    BY <2>1 DEF PaceInv
<1>10. ASSUME NEW s \in DOMAIN tail, TailWrites(s) \/ TailDies(s)
       PROVE  PaceInv'
  <2>1. UNCHANGED <<loop, clock>> /\ DOMAIN tail' = DOMAIN tail
    BY <1>10 DEF TailWrites, TailDies
  <2> QED
    BY <2>1 DEF PaceInv, CanForce, Allowance
<1>11. CASE BeginAny
  <2>1. /\ LoopTypeOK' /\ ListsInv' /\ Len(loop'.todo) = Cardinality(DOMAIN tail')
        /\ loop'.left = loop'.todo /\ loop'.pc = "change" /\ clock' = 0
    BY <1>11, Begun
  <2>2. PICK m : m = Len(loop'.todo)
    OBVIOUS
  <2>3. loop'.todo \in Seq(DOMAIN tail') /\ loop'.limit \in [DOMAIN tail' -> 0..Horizon]
    BY <2>1 DEF LoopTypeOK, LoopState
  <2>4. m \in Nat /\ m - m = 0
    BY <2>2, <2>3, LenProperties
  <2>5. Allowance' = AllowanceAt("change", m, m, 0)
    BY <2>1, <2>2, <2>4 DEF Allowance
  <2>6. Allowance' = Poll
    BY <2>4, <2>5, AllowanceSteps
  <2>7. SUFFICES ASSUME loop'.todo # <<>>
                 PROVE  \E s \in DOMAIN tail' : 0 < loop'.limit[s] + Poll
    BY <2>1, <2>6 DEF PaceInv
  <2>8. Head(loop'.todo) \in DOMAIN tail'
    BY <2>3, <2>7, HeadTailProperties
  <2>9. \A d \in 0..Horizon : 0 < d + Poll
    BY <1>a, ChangeLoopAssumption DEF ChangeLoopAssumption
  <2> QED
    BY <2>3, <2>8, <2>9
<1>12. CASE UNCHANGED loopVars
  BY <1>12 DEF PaceInv, CanForce, Allowance
<1> QED
  BY <1>1, <1>2, <1>3, <1>4, <1>5, <1>6, <1>7, <1>8, <1>9, <1>10, <1>11, <1>12
     DEF LoopNext, Looping, Outside

(***************************************************************************)
(* The theorems, for the loops of any commands, one after the other.       *)
(***************************************************************************)
\* Before the first command there is nothing.
LEMMA AtFirst ==
  ASSUME LoopInit
  PROVE  LoopTypeOK /\ LoopInv
<1>1. <<>> \in Seq({}) /\ Len(<<>>) = 0 /\ DOMAIN <<>> = {}
  BY EmptySeq
<1>2. DOMAIN tail = {} /\ <<>> \in [{} -> 0..Horizon] /\ tail \in [DOMAIN tail -> Tails]
  BY <1>1 DEF LoopInit
<1>3. loop \in LoopState({})
  BY <1>1, <1>2 DEF LoopInit, LoopOf, LoopState, Kinds
<1>4. loop.todo = <<>> /\ loop.left = <<>>
  BY DEF LoopInit, LoopOf
<1>5. LoopTypeOK
  <2>1. clock \in 0..Horizon /\ unread = {}
    BY ChangeLoopAssumption DEF LoopInit, ChangeLoopAssumption
  <2> QED
    BY <1>2, <1>3, <2>1 DEF LoopTypeOK
<1>6. IsInjective(<<>>) /\ ToSet(<<>>) = {}
  BY <1>1 DEF IsInjective, ToSet
<1>7. IsFiniteSet({}) /\ Cardinality({}) = 0
  BY FS_EmptySet
<1>8. ListsInv
  BY <1>1, <1>2, <1>4, <1>6, <1>7 DEF ListsInv
<1>9. PaceInv
  BY <1>4 DEF PaceInv
<1>10. TailsReaped
  BY <1>2, <1>4, <1>6 DEF TailsReaped, Tailed
<1> QED
  BY <1>5, <1>8, <1>9, <1>10 DEF LoopInv

\* Every step keeps the types and the invariant.
LEMMA LoopStepSafe ==
  ASSUME LoopTypeOK, LoopInv, [LoopNext]_loopVars
  PROVE  LoopTypeOK' /\ LoopInv'
<1>1. LoopTypeOK' /\ ListsInv' /\ TailsReaped'
  BY TidyStep DEF LoopInv
<1>2. PaceInv'
  BY PaceStep DEF LoopInv
<1> QED
  BY <1>1, <1>2 DEF LoopInv

\* Every state is of its type.
THEOREM LoopTyping == LoopSpec => []LoopTypeOK
<1>1. LoopInit => LoopTypeOK /\ LoopInv
  BY AtFirst
<1>2. LoopTypeOK /\ LoopInv /\ [LoopNext]_loopVars => (LoopTypeOK /\ LoopInv)'
  BY LoopStepSafe
<1> QED
  BY <1>1, <1>2, PTL DEF LoopSpec

\* The lists name no service twice, the clock keeps to its allowance, and no tail
\* outlives its service: all of that always holds.
THEOREM LoopSafety == LoopSpec => []LoopInv
<1>1. LoopInit => LoopTypeOK /\ LoopInv
  BY AtFirst
<1>2. LoopTypeOK /\ LoopInv /\ [LoopNext]_loopVars => (LoopTypeOK /\ LoopInv)'
  BY LoopStepSafe
<1> QED
  BY <1>1, <1>2, PTL DEF LoopSpec

\* However a command ends, by an exception too, it leaves no `tail -F` behind.
THEOREM LeavesNoTail == LoopSpec => []TailsReaped
<1>1. LoopInv => TailsReaped
  BY DEF LoopInv
<1> QED
  BY <1>1, LoopSafety, PTL

\* The bound is the allowance at its largest.
LEMMA AllowanceAtMost ==
  ASSUME LoopTypeOK, ListsInv, loop.pc \notin {"over", "hung"}, loop.todo # <<>>
  PROVE  LET n == Cardinality(DOMAIN tail)
         IN  Allowance \in Nat
             /\ Allowance <= (n - 1) * CheckTime + n * ChangeTime + Poll
<1>a. CheckTime \in Nat /\ ChangeTime \in Nat /\ Poll \in Nat
  BY ChangeLoopAssumption DEF ChangeLoopAssumption
<1>b. PICK n, a, l : n = Cardinality(DOMAIN tail) /\ a = Len(loop.todo) /\ l = Len(loop.left)
  OBVIOUS
<1>c. n \in Nat /\ a <= n /\ l <= a
  BY <1>b, FS_CardinalityType DEF ListsInv
<1>d. a \in Nat /\ l \in Nat /\ a # 0
  BY <1>b, LoopFields, EmptySeq
<1>e. PICK v : v = a - l
  OBVIOUS
<1>f. v \in Nat /\ v <= a
  BY <1>c, <1>d, <1>e
<1>g. PICK done, most, visits, all :
        /\ done = (n - a) * CheckTime /\ most = (n - 1) * CheckTime
        /\ visits = v * ChangeTime /\ all = n * ChangeTime
  OBVIOUS
<1>1. n - a \in Nat /\ n - 1 \in Nat /\ n - a <= n - 1 /\ v <= n
  BY <1>c, <1>d, <1>f
<1>2. done \in Nat /\ most \in Nat /\ done <= most
  BY <1>a, <1>g, <1>1, Products
<1>3. visits \in Nat /\ all \in Nat /\ visits <= all
  BY <1>a, <1>c, <1>f, <1>g, <1>1, Products
<1>4. loop.pc \in {"change", "check", "draw", "sleep"}
  BY DEF LoopTypeOK, LoopState
<1>5. PICK A : A = Allowance
  OBVIOUS
<1>6. A \in {done + (Poll + visits), done + (Poll + all), done + 0}
  <2>1. A = AllowanceAt(loop.pc, n, a, v)
    BY <1>b, <1>e, <1>5 DEF Allowance
  <2> QED
    BY <1>4, <1>g, <2>1, AllowanceCases
<1>7. A \in Nat /\ A <= most + all + Poll
  BY <1>a, <1>2, <1>3, <1>6
<1> QED
  BY <1>b, <1>g, <1>5, <1>7

\* A command that forces nothing decides about every service within a time that
\* depends on its limits and on how many services there are, and on nothing that
\* the services do.
THEOREM Punctual == LoopSpec => []EndsInTime
<1>1. LoopTypeOK /\ LoopInv => EndsInTime
  <2> SUFFICES ASSUME LoopTypeOK, ListsInv, PaceInv, ~CanForce,
                      loop.pc \notin {"over", "hung"}, loop.todo # <<>>
               PROVE  \E s \in DOMAIN tail :
                        clock < loop.limit[s] + (Cardinality(DOMAIN tail) - 1) * CheckTime
                                  + Cardinality(DOMAIN tail) * ChangeTime + Poll
    BY DEF EndsInTime, LoopInv
  <2>1. PICK s \in DOMAIN tail : clock < loop.limit[s] + Allowance
    BY DEF PaceInv
  <2>2. PICK A, limit, checks, changes :
          /\ A = Allowance /\ limit = loop.limit[s]
          /\ checks = (Cardinality(DOMAIN tail) - 1) * CheckTime
          /\ changes = Cardinality(DOMAIN tail) * ChangeTime
    OBVIOUS
  <2>3. Cardinality(DOMAIN tail) \in Nat /\ 1 <= Cardinality(DOMAIN tail)
    <3>1. Cardinality(DOMAIN tail) \in Nat /\ Len(loop.todo) <= Cardinality(DOMAIN tail)
      BY FS_CardinalityType DEF ListsInv
    <3>2. Len(loop.todo) \in Nat /\ Len(loop.todo) # 0
      BY LoopFields, EmptySeq
    <3> QED
      BY <3>1, <3>2
  <2>4. checks \in Nat /\ changes \in Nat /\ Poll \in Nat
    <3>1. CheckTime \in Nat /\ ChangeTime \in Nat /\ Poll \in Nat
      BY ChangeLoopAssumption DEF ChangeLoopAssumption
    <3>2. Cardinality(DOMAIN tail) - 1 \in Nat
      BY <2>3
    <3> QED
      BY <2>2, <2>3, <3>1, <3>2, Products
  <2>5. A \in Nat /\ A <= checks + changes + Poll
    BY <2>2, AllowanceAtMost
  <2>6. clock \in Nat /\ limit \in Nat /\ clock < limit + A
    BY <2>1, <2>2, LoopFields
  <2>7. clock < limit + checks + changes + Poll
    BY <2>4, <2>5, <2>6
  <2> QED
    BY <2>2, <2>7
<1> QED
  BY <1>1, LoopTyping, LoopSafety, PTL

\* A check that was past its time is, if at all, before the limit by less than
\* half of what a check takes.
LEMMA PastTime ==
  ASSUME clock \in Nat, NEW t \in Nat, t > 0, loop.limit[Checked] \in Nat, TimedOut(t)
  PROVE  2 * (loop.limit[Checked] - (clock + t)) < t
BY DEF TimedOut, Abs

\* A service that is given up is the last that failed.
LEMMA GivenUp ==
  ASSUME LoopTypeOK, ListsInv, NEW t \in 1..CheckTime, GiveUp(t)
  PROVE  2 * (loop.limit[Last(loop'.failed)] - clock') < CheckTime
<1>1. /\ Checking /\ TimedOut(t) /\ t > 0 /\ clock' = Later(t)
      /\ loop'.failed = Append(loop.failed, Checked)
  BY DEF GiveUp, LoopTypeOK, LoopState
<1>2. Checked \in DOMAIN tail
  BY <1>1, CheckedService
<1>3. Last(loop'.failed) = Checked
  <2>1. PICK q : q = loop.failed
    OBVIOUS
  <2>2. q \in Seq(DOMAIN tail) /\ Len(q) \in Nat
    BY <2>1, LoopFields, LenProperties
  <2>3. Len(Append(q, Checked)) = Len(q) + 1 /\ Append(q, Checked)[Len(q) + 1] = Checked
    BY <1>2, <2>2, AppendProperties
  <2> QED
    BY <1>1, <2>1, <2>3 DEF Last
<1>4. PICK limit : limit = loop.limit[Checked]
  OBVIOUS
<1>5. limit \in Nat /\ limit <= Horizon /\ clock \in Nat /\ Horizon \in Nat
  BY <1>2, <1>4, LoopFields, ChangeLoopAssumption DEF ChangeLoopAssumption
<1>6. t \in Nat /\ t <= CheckTime /\ CheckTime \in Nat
  BY ChangeLoopAssumption DEF ChangeLoopAssumption
<1>7. 2 * (limit - (clock + t)) < t
  BY <1>1, <1>4, <1>5, <1>6, PastTime
<1>8. 2 * (limit - Later(t)) < CheckTime
  <2>1. CASE clock + t < Horizon
    BY <1>5, <1>6, <1>7, <2>1 DEF Later
  <2>2. CASE ~(clock + t < Horizon)
    <3>1. Later(t) = Horizon
      BY <2>2 DEF Later
    <3>2. 2 * (limit - Horizon) < CheckTime
      BY <1>1, <1>5, <1>6
    <3> QED
      BY <3>1, <3>2
  <2> QED
    BY <2>1, <2>2
<1> QED
  BY <1>1, <1>3, <1>4, <1>8

\* A service is given up as close to its limit as it gets: never while its next
\* check would still have ended closer.
THEOREM Patient == LoopSpec => NotBeforeTime
<1> USE DEF loopVars
<1>1. LoopTypeOK /\ LoopInv /\ [LoopNext]_loopVars
        => [Len(loop'.failed) > Len(loop.failed)
              => 2 * (loop.limit[Last(loop'.failed)] - clock') < CheckTime]_loopVars
  <2> SUFFICES ASSUME LoopTypeOK, ListsInv, [LoopNext]_loopVars,
                      Len(loop'.failed) > Len(loop.failed)
               PROVE  2 * (loop.limit[Last(loop'.failed)] - clock') < CheckTime
    BY DEF LoopInv
  <2>1. Len(loop.failed) \in Nat
    BY LoopFields, LenProperties
  <2>2. loop'.failed # loop.failed /\ loop'.failed # <<>>
    <3>1. loop'.failed # loop.failed
      BY <2>1
    <3>2. Len(<<>>) = 0
      BY EmptySeq
    <3> QED
      BY <2>1, <3>1, <3>2
  <2>3. loop \in LoopState(DOMAIN tail)
    BY DEF LoopTypeOK
  <2>4. ~BeginAny
    BY <2>2 DEF BeginAny, BeginLoop, LoopOf
  <2>5. ~Outside /\ ~(UNCHANGED loopVars)
    BY <2>2, <2>3 DEF Outside, Raise, Over, TailWrites, TailDies, LoopState
  <2>6. ~(ChangedAll \/ CheckedAll \/ DrawNothing \/ Draw \/ Sleep)
    BY <2>2, <2>3 DEF ChangedAll, CheckedAll, DrawNothing, Draw, Sleep, Over, LoopState
  <2>7. \A t \in Nat : ~(Change(t) \/ CheckPasses(t) \/ CheckFails(t) \/ ForceStop(t))
    BY <2>2, <2>3 DEF Change, CheckPasses, CheckFails, ForceStop, LoopState
  <2>8. (\A t \in 0..ChangeTime : t \in Nat) /\ (\A t \in 1..CheckTime : t \in Nat)
    BY ChangeLoopAssumption DEF ChangeLoopAssumption
  <2>9. \E t \in 1..CheckTime : GiveUp(t)
    BY <2>4, <2>5, <2>6, <2>7, <2>8 DEF LoopNext, Looping
  <2> QED
    BY <2>9, GivenUp
<1> QED
  BY <1>1, LoopTyping, LoopSafety, PTL DEF LoopSpec, NotBeforeTime

=============================================================================
